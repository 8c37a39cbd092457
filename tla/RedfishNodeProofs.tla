-------------------------- MODULE RedfishNodeProofs --------------------------
(***************************************************************************)
(* What holds of every gpu_node: for any number of GPUs and of requests in *)
(* flight, whatever the demand, the caps and the range they are held to.   *)
(*                                                                         *)
(* The node's total is a fold over the GPUs.  Induction is by the least    *)
(* counterexample, which needs no theorem with an operator parameter.      *)
(***************************************************************************)
EXTENDS RedfishNode, FiniteSetTheorems, WellFoundedInduction, TLAPS

-----------------------------------------------------------------------------
(* The total of a set of GPUs.                                             *)

\* A set of naturals that is not empty has a least element.
LEMMA LeastNatural ==
    ASSUME NEW T \in SUBSET Nat, T # {}
    PROVE  \E n \in T : \A m \in T : n <= m
<1>1. PICK n \in T : \A m \in T : <<m, n>> \notin OpToRel(<, Nat)
  BY NatLessThanWellFounded, WFMin
<1>2. \A m \in T : ~(m < n)
  BY <1>1 DEF OpToRel
<1> QED BY <1>2

Pick(s) == CHOOSE g \in s : TRUE

\* One step of the fold, given what it makes of smaller sets.
Step(it, k, s) == IF s = {} THEN 0 ELSE power_w(k[Pick(s)]) + it[s \ {Pick(s)}]

\* it is the fold over the subsets of S.
Folds(it, k, S) == it = [s \in SUBSET S |-> Step(it, k, s)]

\* What the GPUs of S draw under caps k.
Draw(k, S) == MapThenSumSet(LAMBDA g : power_w(k[g]), S)

\* Removing the element picked from a finite set makes it smaller.
LEMMA PickSmaller ==
    ASSUME NEW s, IsFiniteSet(s), s # {}
    PROVE  /\ Pick(s) \in s /\ IsFiniteSet(s \ {Pick(s)})
           /\ Cardinality(s) \in Nat \ {0}
           /\ Cardinality(s \ {Pick(s)}) = Cardinality(s) - 1
  BY FS_RemoveElement, FS_CardinalityType, FS_EmptySet DEF Pick

\* The recursive function over a finite set exists.
LEMMA FoldExists ==
    ASSUME NEW S, IsFiniteSet(S), NEW k
    PROVE  \E it : Folds(it, k, S)
<1> DEFINE D(n) == {s \in SUBSET S : Cardinality(s) <= n}
           Q(n) == \E it : it = [s \in D(n) |-> Step(it, k, s)]
           T == {n \in Nat : ~Q(n)}
<1>1. \A s \in SUBSET S : IsFiniteSet(s) /\ Cardinality(s) \in Nat
  BY FS_Subset, FS_CardinalityType
<1>2. T = {}
  <2> SUFFICES ASSUME T # {} PROVE FALSE
    OBVIOUS
  <2>1. PICK n \in T : \A m \in T : n <= m
    <3> HIDE DEF T
    <3> QED BY T \in SUBSET Nat, LeastNatural DEF T
  <2>2. CASE n = 0
    <3> DEFINE it == [s \in D(0) |-> 0]
    <3>1. D(0) = {{}}
      BY <1>1, FS_EmptySet
    <3>2. it = [s \in D(0) |-> Step(it, k, s)]
      BY <3>1 DEF Step
    <3> QED BY <2>2, <3>2
  <2>3. CASE n > 0
    <3>1. n - 1 \in Nat /\ n - 1 \notin T
      <4> HIDE DEF Q
      <4> QED BY <2>1, <2>3
    <3>2. PICK it : it = [s \in D(n - 1) |-> Step(it, k, s)]
      BY <3>1
    <3> DEFINE jt == [s \in D(n) |-> Step(it, k, s)]
    <3>3. \A s \in D(n - 1) : s \in D(n) /\ jt[s] = it[s]
      BY <1>1, <2>1, <3>2
    <3>4. \A s \in D(n) : s # {} => s \ {Pick(s)} \in D(n - 1)
      BY <1>1, <2>1, PickSmaller
    <3>5. \A s \in D(n) : Step(jt, k, s) = Step(it, k, s)
      <4> HIDE DEF jt
      <4> QED BY <3>3, <3>4 DEF Step
    <3>6. jt = [s \in D(n) |-> Step(jt, k, s)]
      <4> HIDE DEF D
      <4> QED BY <3>5
    <3> QED BY <2>1, <3>6
  <2> QED BY <2>1, <2>2, <2>3
<1>3. Cardinality(S) \in Nat /\ D(Cardinality(S)) = SUBSET S
  BY <1>1, FS_Subset
<1>4. Q(Cardinality(S))
  BY <1>2, <1>3
<1> QED BY <1>3, <1>4 DEF Folds

\* The fold is a number, and adds up in any order.
LEMMA FoldAnyOrder ==
    ASSUME NEW S, IsFiniteSet(S), NEW k, \A g \in S : power_w(k[g]) \in Nat,
           NEW it, Folds(it, k, S)
    PROVE  \A s \in SUBSET S : /\ it[s] \in Nat
                               /\ \A g \in s : it[s] = power_w(k[g]) + it[s \ {g}]
<1> DEFINE Good(s) == /\ it[s] \in Nat
                      /\ \A g \in s : it[s] = power_w(k[g]) + it[s \ {g}]
           T == {n \in Nat : \E s \in SUBSET S : Cardinality(s) = n /\ ~Good(s)}
<1>1. \A s \in SUBSET S : IsFiniteSet(s) /\ Cardinality(s) \in Nat
  BY FS_Subset, FS_CardinalityType
<1>2. \A s \in SUBSET S : it[s] = Step(it, k, s)
  BY DEF Folds
<1>3. T = {}
  <2> SUFFICES ASSUME T # {} PROVE FALSE
    OBVIOUS
  <2>1. PICK n \in T : \A m \in T : n <= m
    <3> HIDE DEF T
    <3> QED BY T \in SUBSET Nat, LeastNatural DEF T
  <2>2. PICK s \in SUBSET S : Cardinality(s) = n /\ ~Good(s)
    BY <2>1
  <2>3. \A r \in SUBSET S : Cardinality(r) = n - 1 => Good(r)
    <3> SUFFICES ASSUME NEW r \in SUBSET S, Cardinality(r) = n - 1, ~Good(r) PROVE FALSE
      OBVIOUS
    <3>1. n - 1 \in T
      <4> HIDE DEF Good
      <4> QED BY <1>1
    <3> QED BY <2>1, <3>1
  <2>4. CASE s = {}
    BY <1>2, <2>2, <2>4 DEF Step
  <2>5. CASE s # {}
    <3> DEFINE x == Pick(s)
    <3>1. /\ x \in s /\ s \ {x} \in SUBSET S /\ Cardinality(s \ {x}) = n - 1
          /\ it[s] = power_w(k[x]) + it[s \ {x}]
      BY <1>1, <1>2, <2>2, <2>5, PickSmaller DEF Step
    <3> HIDE DEF x, Good
    <3>2. Good(s \ {x})
      BY <2>3, <3>1
    <3>3. it[s] \in Nat
      BY <3>1, <3>2 DEF Good
    <3>4. ASSUME NEW g \in s, g # x PROVE it[s] = power_w(k[g]) + it[s \ {g}]
      <4>1. s \ {g} \in SUBSET S /\ Cardinality(s \ {g}) = n - 1 /\ x \in s \ {g}
        BY <1>1, <2>2, <3>1, <3>4, FS_RemoveElement
      <4>2. Good(s \ {g})
        BY <2>3, <4>1
      <4>3. it[s \ {g}] = power_w(k[x]) + it[(s \ {g}) \ {x}]
        BY <4>1, <4>2 DEF Good
      <4>4. it[s \ {x}] = power_w(k[g]) + it[(s \ {x}) \ {g}]
        BY <3>2, <3>4 DEF Good
      <4>5. (s \ {g}) \ {x} = (s \ {x}) \ {g}
        OBVIOUS
      <4>6. it[(s \ {x}) \ {g}] \in Nat
        <5>1. (s \ {x}) \ {g} \in SUBSET S
          OBVIOUS
        <5>2. (s \ {x}) \ {g} = {} => it[(s \ {x}) \ {g}] = 0
          BY <1>2, <5>1 DEF Step
        <5>3. Cardinality((s \ {x}) \ {g}) = n - 2 /\ n - 2 \in Nat
          <6>1. g \in s \ {x} /\ IsFiniteSet(s \ {x}) /\ Cardinality((s \ {x}) \ {g}) \in Nat
            BY <1>1, <3>1, <3>4, <5>1
          <6>2. Cardinality((s \ {x}) \ {g}) = Cardinality(s \ {x}) - 1
            BY <6>1, FS_RemoveElement
          <6> QED BY <2>1, <3>1, <6>1, <6>2
        <5>4. ~Good((s \ {x}) \ {g}) => n - 2 \in T
          BY <5>1, <5>3
        <5> QED BY <2>1, <5>3, <5>4 DEF Good
      <4>7. power_w(k[x]) \in Nat /\ power_w(k[g]) \in Nat
        BY <3>1
      <4> DEFINE a == power_w(k[x])
                 b == power_w(k[g])
                 c == it[(s \ {x}) \ {g}]
      <4>8. it[s] = a + (b + c) /\ it[s \ {g}] = a + c
        BY <3>1, <4>3, <4>4, <4>5
      <4>9. a \in Nat /\ b \in Nat /\ c \in Nat
        BY <4>6, <4>7
      <4> HIDE DEF a, b, c
      <4> QED BY <4>8, <4>9 DEF b
    <3> QED BY <2>2, <3>1, <3>3, <3>4 DEF Good
  <2> QED BY <2>4, <2>5
<1>4. \A s \in SUBSET S : Good(s)
  <2> HIDE DEF Good
  <2> QED BY <1>1, <1>3
<1> QED BY <1>4

\* Folds over two sets agree on the subsets of both.
LEMMA FoldsAgree ==
    ASSUME NEW S, IsFiniteSet(S), NEW R \in SUBSET S, NEW k,
           NEW it, Folds(it, k, S), NEW jt, Folds(jt, k, R)
    PROVE  \A s \in SUBSET R : jt[s] = it[s]
<1> DEFINE T == {n \in Nat : \E s \in SUBSET R : Cardinality(s) = n /\ jt[s] # it[s]}
<1>1. \A s \in SUBSET R : IsFiniteSet(s) /\ Cardinality(s) \in Nat /\ s \in SUBSET S
  BY FS_Subset, FS_CardinalityType
<1>2. \A s \in SUBSET R : jt[s] = Step(jt, k, s) /\ it[s] = Step(it, k, s)
  BY <1>1 DEF Folds
<1>3. T = {}
  <2> SUFFICES ASSUME T # {} PROVE FALSE
    OBVIOUS
  <2>1. PICK n \in T : \A m \in T : n <= m
    <3> HIDE DEF T
    <3> QED BY T \in SUBSET Nat, LeastNatural DEF T
  <2>2. PICK s \in SUBSET R : Cardinality(s) = n /\ jt[s] # it[s]
    BY <2>1
  <2>3. s # {}
    BY <1>2, <2>2 DEF Step
  <2>4. jt[s \ {Pick(s)}] # it[s \ {Pick(s)}]
    BY <1>2, <2>2, <2>3 DEF Step
  <2>5. s \ {Pick(s)} \in SUBSET R /\ Cardinality(s \ {Pick(s)}) = n - 1
    BY <1>1, <2>2, <2>3, PickSmaller
  <2>6. n - 1 \in T
    BY <1>1, <2>4, <2>5
  <2> QED BY <2>1, <2>6
<1> QED BY <1>1, <1>3

\* The draw of a finite set of GPUs is what its members draw, in any order.
LEMMA DrawRemove ==
    ASSUME NEW S, IsFiniteSet(S), NEW k, \A g \in S : power_w(k[g]) \in Nat
    PROVE  /\ Draw(k, S) \in Nat
           /\ S = {} => Draw(k, S) = 0
           /\ \A g \in S : Draw(k, S) = power_w(k[g]) + Draw(k, S \ {g})
<1>1. \A R : (\E it : Folds(it, k, R)) => \E it : Folds(it, k, R) /\ Draw(k, R) = it[R]
  BY DEF Folds, Step, Pick, Draw, MapThenSumSet, MapThenFoldSet
<1>2. PICK it : Folds(it, k, S) /\ Draw(k, S) = it[S]
  BY <1>1, FoldExists
<1>3. ASSUME NEW g \in S PROVE Draw(k, S) = power_w(k[g]) + Draw(k, S \ {g})
  <2>1. IsFiniteSet(S \ {g})
    BY FS_RemoveElement
  <2>2. PICK jt : Folds(jt, k, S \ {g}) /\ Draw(k, S \ {g}) = jt[S \ {g}]
    BY <1>1, <2>1, FoldExists
  <2>3. jt[S \ {g}] = it[S \ {g}]
    BY <1>2, <2>2, FoldsAgree
  <2> QED BY <1>2, <2>2, <2>3, FoldAnyOrder
<1>4. Draw(k, S) \in Nat
  BY <1>2, FoldAnyOrder
<1>5. S = {} => Draw(k, S) = 0
  BY <1>2 DEF Folds, Step
<1> QED BY <1>3, <1>4, <1>5

-----------------------------------------------------------------------------
(* Types.                                                                  *)

\* The other variables have an entry per client.
Domains == /\ DOMAIN req = Clients /\ DOMAIN reply = Clients
           /\ DOMAIN during = Clients /\ calm \in [Clients -> BOOLEAN]

TypeInv == TypeOK /\ Domains

\* Caps and draws are natural numbers.
LEMMA Watts ==
    ASSUME TypeOK
    PROVE  \A g \in Gpus : cap[g] \in Nat /\ power_w(cap[g]) \in Nat
<1>1. Allowable \subseteq Nat /\ BootCap \in Nat /\ Demand \in Nat
  BY NodeAssumption DEF Allowable
<1> QED BY <1>1 DEF TypeOK, power_w

\* The requests by what they ask for.
LEMMA RequestsOf ==
    /\ \A r \in Requests : r.kind \in {"power", "environment", "processor", "patch"}
    /\ \A r \in Requests : r.kind # "power" => r.gpu \in Gpus
    /\ None \notin Clients
  BY NodeAssumption DEF Requests

\* Every request step keeps the types: a cap that changes is one within the range
\* (set_power_limit).
LEMMA Types == Spec => []TypeInv
<1>1. Init => TypeInv
  BY NodeAssumption DEF Init, TypeInv, TypeOK, Domains
<1>2. TypeInv /\ [Next]_vars => TypeInv'
  <2> SUFFICES ASSUME TypeInv, [Next]_vars PROVE TypeInv'
    OBVIOUS
  <2> USE DEF TypeInv, TypeOK, Domains
  <2>1. ASSUME NEW c \in Clients, Call(c) PROVE TypeInv'
    BY <2>1 DEF Call
  <2>2. ASSUME NEW c \in Clients, Lock(c) PROVE TypeInv'
    BY <2>2 DEF Lock
  <2>3. ASSUME NEW c \in Clients, AddGpu(c) PROVE TypeInv'
    <3>1. PICK g \in left[c] : /\ sum' = [sum EXCEPT ![c] = @ + power_w(cap[g])]
                               /\ left' = [left EXCEPT ![c] = @ \ {g}]
                               /\ UNCHANGED <<cap, holder, pc, req, reply, during, calm>>
      BY <2>3 DEF AddGpu
    <3>2. power_w(cap[g]) \in Nat
      BY Watts
    <3> QED BY <3>1, <3>2
  <2>4. ASSUME NEW c \in Clients, GetPower(c) PROVE TypeInv'
    BY <2>4 DEF GetPower, Answer, Serves
  <2>5. ASSUME NEW c \in Clients, GetEnvironment(c) PROVE TypeInv'
    BY <2>5 DEF GetEnvironment, Answer, Serves
  <2>6. ASSUME NEW c \in Clients, GetProcessor(c) PROVE TypeInv'
    BY <2>6 DEF GetProcessor, Answer, Serves
  <2>7. ASSUME NEW c \in Clients, Patch(c) PROVE TypeInv'
    <3>1. pc[c] = "in" /\ req[c] \in Requests /\ req[c].gpu \in Gpus
      BY <2>7, RequestsOf DEF Patch, Serves
    <3>2. CASE req[c].watts \in Allowable
      <4>1. cap' = [cap EXCEPT ![req[c].gpu] = req[c].watts]
        BY <2>7, <3>2 DEF Patch, SetCap
      <4>2. DOMAIN during' = Clients /\ calm' \in [Clients -> BOOLEAN]
        BY <2>7, <3>2 DEF Patch, SetCap
      <4> QED BY <2>7, <3>1, <3>2, <4>1, <4>2 DEF Patch, Answer
    <3>3. CASE req[c].watts \notin Allowable
      BY <2>7, <3>1, <3>3 DEF Patch, Answer
    <3> QED BY <3>2, <3>3
  <2>8. ASSUME NEW c \in Clients, Receive(c) PROVE TypeInv'
    BY <2>8 DEF Receive
  <2>9. CASE UNCHANGED vars
    BY <2>9 DEF vars
  <2> QED BY <2>1, <2>2, <2>3, <2>4, <2>5, <2>6, <2>7, <2>8, <2>9 DEF Next, Serve
<1> QED BY <1>1, <1>2, PTL DEF Spec

\* No PATCH, refused ones included, leaves a cap that is neither within the
\* advertised range nor the one the GPU booted with, however many requests are
\* served at once (Gpu::set_power_limit).
THEOREM TypeCorrect == Spec => []TypeOK
<1>1. TypeInv => TypeOK
  BY DEF TypeInv
<1> QED BY <1>1, Types, PTL

-----------------------------------------------------------------------------
(* The mutex.                                                              *)

\* A request is inside its handler exactly while it holds the mutex.
Locked == \A c \in Clients : pc[c] = "in" <=> holder = c

\* Whoever takes the node's mutex is the only one inside, until it answers
\* (node.gpus.lock() and the end of its scope).
LEMMA MutexKept == TypeInv /\ Locked /\ [Next]_vars => Locked'
<1> SUFFICES ASSUME TypeInv, Locked, [Next]_vars PROVE Locked'
  OBVIOUS
<1> USE RequestsOf DEF TypeInv, TypeOK, Domains, Locked
<1>1. ASSUME NEW c \in Clients, Call(c) PROVE Locked'
  BY <1>1 DEF Call
<1>2. ASSUME NEW c \in Clients, Lock(c) PROVE Locked'
  BY <1>2 DEF Lock
<1>3. ASSUME NEW c \in Clients, AddGpu(c) PROVE Locked'
  BY <1>3 DEF AddGpu
<1>4. ASSUME NEW c \in Clients, NEW doc, Answer(c, doc), pc[c] = "in" PROVE Locked'
  BY <1>4 DEF Answer
<1>5. ASSUME NEW c \in Clients, Receive(c) PROVE Locked'
  BY <1>5 DEF Receive
<1>6. CASE UNCHANGED vars
  BY <1>6 DEF vars
<1>7. ASSUME NEW c \in Clients, GetPower(c) \/ GetEnvironment(c) \/ GetProcessor(c) \/ Patch(c)
      PROVE  pc[c] = "in" /\ \E doc : Answer(c, doc)
  BY <1>7 DEF GetPower, GetEnvironment, GetProcessor, Patch, Serves
<1> QED BY <1>1, <1>2, <1>3, <1>4, <1>5, <1>6, <1>7 DEF Next, Serve

-----------------------------------------------------------------------------
(* The node's total.                                                       *)

\* What has been added up and what is left make the node's draw, which the caps
\* cannot leave while the request is inside the mutex.
Counting(c) ==
    /\ pc[c] \in {"idle", "want"} => sum[c] = 0 /\ left[c] = Gpus
    /\ pc[c] = "in" /\ req[c].kind = "power" =>
            sum[c] + Draw(cap, left[c]) = Draw(cap, Gpus)
    /\ pc[c] \in {"want", "in"} => Total(cap) \in during[c]
    /\ Replied(c, "power") => reply[c] \in during[c]

\* Nothing of c changes but what it may be told.
LEMMA CountingKept ==
    ASSUME NEW c \in Clients, Counting(c), cap' = cap \/ pc[c] # "in",
           pc'[c] = pc[c], req'[c] = req[c], sum'[c] = sum[c], left'[c] = left[c],
           reply'[c] = reply[c], during[c] \subseteq during'[c],
           cap' = cap \/ (pc[c] = "want" => Total(cap') \in during'[c])
    PROVE  Counting(c)'
<1>1. Total(cap)' = Total(cap')
  BY DEF Total, Draw, MapThenSumSet, MapThenFoldSet, power_w
<1>2. cap' = cap => /\ Total(cap)' = Total(cap)
                    /\ Draw(cap, left[c])' = Draw(cap, left[c])
                    /\ Draw(cap, Gpus)' = Draw(cap, Gpus)
  BY DEF Total, Draw, MapThenSumSet, MapThenFoldSet, power_w
<1> QED BY <1>1, <1>2 DEF Counting, Replied

\* One step of the node, taken by the same request or by another, keeps the
\* running total of a request right (power_json).
LEMMA CountingInvariant ==
    ASSUME TypeInv, Locked, \A c \in Clients : Counting(c), [Next]_vars, NEW d \in Clients
    PROVE  Counting(d)'
<1> USE DEF TypeInv, TypeOK, Domains
<1>a. Total(cap)' = Total(cap')
  BY DEF Total, Draw, MapThenSumSet, MapThenFoldSet, power_w
<1>b. Draw(cap, Gpus)' = Draw(cap', Gpus)
  BY DEF Draw, MapThenSumSet, MapThenFoldSet, power_w
<1>c. Draw(cap, left[d])' = Draw(cap', left'[d])
  BY DEF Draw, MapThenSumSet, MapThenFoldSet, power_w
<1>0. cap' = cap => /\ Total(cap)' = Total(cap)
                    /\ Draw(cap, Gpus)' = Draw(cap, Gpus)
                    /\ left'[d] = left[d] => Draw(cap, left[d])' = Draw(cap, left[d])
                    /\ Draw(cap, left[d])' = Draw(cap, left'[d])
  BY <1>a, <1>b, <1>c
<1>1. ASSUME NEW c \in Clients, Call(c) PROVE Counting(d)'
  <2>1. CASE d # c
    BY <1>1, <2>1, CountingKept DEF Call
  <2>2. CASE d = c
    BY <1>0, <1>1, <2>2 DEF Call, Counting, Replied
  <2> QED BY <2>1, <2>2
<1>2. ASSUME NEW c \in Clients, Lock(c) PROVE Counting(d)'
  <2>1. CASE d # c
    BY <1>2, <2>1, CountingKept DEF Lock
  <2>2. CASE d = c
    <3>1. sum[d] = 0 /\ left[d] = Gpus /\ Total(cap) \in during[d]
      BY <1>2, <2>2 DEF Lock, Counting
    <3>2. Draw(cap, Gpus) \in Nat
      BY Watts, DrawRemove, NodeAssumption
    <3> QED BY <1>0, <1>2, <2>2, <3>1, <3>2 DEF Lock, Counting, Replied
  <2> QED BY <2>1, <2>2
<1>3. ASSUME NEW c \in Clients, AddGpu(c) PROVE Counting(d)'
  <2>1. CASE d # c
    BY <1>3, <2>1, CountingKept DEF AddGpu
  <2>2. CASE d = c
    <3>1. PICK g \in left[d] : /\ Serves(d, "power")
                               /\ sum'[d] = sum[d] + power_w(cap[g])
                               /\ left'[d] = left[d] \ {g}
                               /\ UNCHANGED <<cap, holder, pc, req, reply, during, calm>>
      BY <1>3, <2>2 DEF AddGpu
    <3>2. IsFiniteSet(left[d]) /\ \A x \in left[d] : power_w(cap[x]) \in Nat
      BY Watts, FS_Subset, NodeAssumption
    <3>3. IsFiniteSet(left[d] \ {g})
      BY <3>2, FS_RemoveElement
    <3>4. /\ Draw(cap, left[d]) = power_w(cap[g]) + Draw(cap, left[d] \ {g})
          /\ Draw(cap, left[d] \ {g}) \in Nat /\ power_w(cap[g]) \in Nat
      BY <3>2, <3>3, DrawRemove
    <3>5. sum[d] \in Nat /\ sum[d] + Draw(cap, left[d]) = Draw(cap, Gpus)
      BY <3>1 DEF Counting, Serves
    <3>6. sum'[d] + Draw(cap, left'[d]) = Draw(cap, Gpus)
      BY <3>1, <3>4, <3>5
    <3>7. /\ Draw(cap, left[d])' = Draw(cap, left'[d])
          /\ Draw(cap, Gpus)' = Draw(cap, Gpus) /\ Total(cap)' = Total(cap)
      BY <1>0, <3>1
    <3>8. pc[d] = "in" /\ Total(cap) \in during[d]
      BY <3>1 DEF Serves, Counting
    <3> QED BY <3>1, <3>6, <3>7, <3>8 DEF Counting, Replied
  <2> QED BY <2>1, <2>2
<1>4. ASSUME NEW c \in Clients, GetPower(c) PROVE Counting(d)'
  <2>1. CASE d # c
    BY <1>4, <2>1, CountingKept DEF GetPower, Answer
  <2>2. CASE d = c
    <3>1. Draw(cap, {}) = 0
      BY DrawRemove, FS_EmptySet
    <3>2. sum[d] + 0 = Draw(cap, Gpus) /\ sum[d] \in Nat /\ Total(cap) \in during[d]
      BY <1>4, <2>2, <3>1 DEF GetPower, Serves, Counting
    <3>3. Total(cap) = Overhead + Draw(cap, Gpus) /\ Overhead \in Nat
      BY NodeAssumption DEF Total, Draw
    <3>4. sum[d] + Overhead = Total(cap)
      BY <3>2, <3>3
    <3> QED BY <1>4, <2>2, <3>2, <3>4 DEF GetPower, Answer, Counting, Replied
  <2> QED BY <2>1, <2>2
<1>5. ASSUME NEW c \in Clients, GetEnvironment(c) \/ GetProcessor(c) PROVE Counting(d)'
  <2>1. CASE d # c
    BY <1>5, <2>1, CountingKept DEF GetEnvironment, GetProcessor, Answer
  <2>2. CASE d = c
    BY <1>5, <2>2 DEF GetEnvironment, GetProcessor, Serves, Answer, Counting, Replied
  <2> QED BY <2>1, <2>2
<1>6. ASSUME NEW c \in Clients, Patch(c) PROVE Counting(d)'
  <2>1. CASE d # c
    <3>1. pc[d] # "in"
      BY <1>6, <2>1 DEF Patch, Serves, Locked
    <3>2. /\ pc'[d] = pc[d] /\ req'[d] = req[d] /\ sum'[d] = sum[d]
          /\ left'[d] = left[d] /\ reply'[d] = reply[d]
      BY <1>6, <2>1 DEF Patch, Answer
    <3>3. /\ during[d] \subseteq during'[d]
          /\ cap' = cap \/ (pc[d] = "want" => Total(cap') \in during'[d])
      <4>1. CASE UNCHANGED <<cap, during>>
        BY <4>1
      <4>2. CASE \E new : SetCap(new)
        <5>1. PICK new : SetCap(new)
          BY <4>2
        <5>2. Total(cap') = Total(new)
          BY <5>1 DEF SetCap
        <5> QED BY <3>1, <5>1, <5>2 DEF SetCap
      <4> QED BY <1>6, <4>1, <4>2 DEF Patch
    <3> QED BY <3>1, <3>2, <3>3, CountingKept
  <2>2. CASE d = c
    BY <1>6, <2>2 DEF Patch, Serves, Answer, Counting, Replied
  <2> QED BY <2>1, <2>2
<1>7. ASSUME NEW c \in Clients, Receive(c) PROVE Counting(d)'
  <2>1. CASE d # c
    BY <1>7, <2>1, CountingKept DEF Receive
  <2>2. CASE d = c
    BY <1>7, <2>2 DEF Receive, Counting, Replied
  <2> QED BY <2>1, <2>2
<1>8. CASE UNCHANGED vars
  BY <1>8, CountingKept DEF vars
<1> QED BY <1>1, <1>2, <1>3, <1>4, <1>5, <1>6, <1>7, <1>8 DEF Next, Serve

\* The Power document of a node is a draw the node had while the request was in
\* flight, for any number of GPUs and of PATCHes (power_json under the mutex).
THEOREM PowerOfOneInstant == Spec => []TotalOfOneInstant
<1> DEFINE IInv == \A c \in Clients : Counting(c)
<1>1. Init => Locked /\ IInv
  BY RequestsOf DEF Init, Locked, Counting, Replied
<1>2. TypeInv /\ Locked /\ IInv /\ [Next]_vars => Locked' /\ IInv'
  BY MutexKept, CountingInvariant
<1>3. IInv => TotalOfOneInstant
  BY DEF Counting, TotalOfOneInstant
<1> QED BY <1>1, <1>2, <1>3, Types, PTL DEF Spec

-----------------------------------------------------------------------------
(* The two documents of one GPU.                                           *)

\* Until a cap changes, a document tells what the GPU does.
Faithful(c) ==
    calm[c] =>
        /\ Replied(c, "environment") => reply[c] = environment_metrics(cap[req[c].gpu])
        /\ Replied(c, "processor") => reply[c] = processor_metrics(cap[req[c].gpu])

\* One step of the node leaves the replies of a request faithful, or ends its calm
\* (environment_json, processor_json and the PATCH).
LEMMA FaithfulInvariant ==
    ASSUME TypeInv, \A c \in Clients : Faithful(c), [Next]_vars, NEW d \in Clients
    PROVE  Faithful(d)'
<1> USE DEF TypeInv, TypeOK, Domains
<1>1. ASSUME UNCHANGED cap, pc'[d] = pc[d], req'[d] = req[d], reply'[d] = reply[d],
             calm'[d] = calm[d]
      PROVE  Faithful(d)'
  BY <1>1 DEF Faithful, Replied, environment_metrics, processor_metrics, power_w,
              clock_mhz, capped
<1>2. ASSUME pc'[d] # "replied" PROVE Faithful(d)'
  BY <1>2 DEF Faithful, Replied
<1>3. ASSUME NEW c \in Clients, Call(c) PROVE Faithful(d)'
  BY <1>1, <1>2, <1>3 DEF Call
<1>4. ASSUME NEW c \in Clients, Lock(c) PROVE Faithful(d)'
  BY <1>1, <1>2, <1>4 DEF Lock
<1>5. ASSUME NEW c \in Clients, AddGpu(c) PROVE Faithful(d)'
  BY <1>1, <1>5 DEF AddGpu
<1>6. ASSUME NEW c \in Clients, GetPower(c) PROVE Faithful(d)'
  <2>1. CASE d # c
    BY <1>1, <1>6, <2>1 DEF GetPower, Answer
  <2>2. CASE d = c
    BY <1>6, <2>2 DEF GetPower, Serves, Faithful, Replied
  <2> QED BY <2>1, <2>2
<1>7. ASSUME NEW c \in Clients, GetEnvironment(c) PROVE Faithful(d)'
  <2>1. CASE d # c
    BY <1>1, <1>7, <2>1 DEF GetEnvironment, Answer
  <2>2. CASE d = c
    BY <1>7, <2>2 DEF GetEnvironment, Serves, Answer, Faithful, Replied,
                      environment_metrics, power_w
  <2> QED BY <2>1, <2>2
<1>8. ASSUME NEW c \in Clients, GetProcessor(c) PROVE Faithful(d)'
  <2>1. CASE d # c
    BY <1>1, <1>8, <2>1 DEF GetProcessor, Answer
  <2>2. CASE d = c
    BY <1>8, <2>2 DEF GetProcessor, Serves, Answer, Faithful, Replied,
                      processor_metrics, power_w, clock_mhz, capped
  <2> QED BY <2>1, <2>2
<1>9. ASSUME NEW c \in Clients, Patch(c) PROVE Faithful(d)'
  <2>1. CASE d = c
    BY <1>9, <2>1 DEF Patch, Serves, Faithful, Replied
  <2>2. CASE d # c /\ calm'[d] = FALSE
    BY <2>2 DEF Faithful
  <2>3. CASE d # c /\ UNCHANGED <<cap, calm>>
    BY <1>1, <1>9, <2>3 DEF Patch, Answer
  <2> QED BY <1>9, <2>1, <2>2, <2>3 DEF Patch, SetCap
<1>10. ASSUME NEW c \in Clients, Receive(c) PROVE Faithful(d)'
  BY <1>1, <1>2, <1>10 DEF Receive
<1>11. CASE UNCHANGED vars
  BY <1>1, <1>11 DEF vars
<1> QED BY <1>3, <1>4, <1>5, <1>6, <1>7, <1>8, <1>9, <1>10, <1>11 DEF Next, Serve
\* A quotient of naturals is where its product says.
LEMMA Quotient ==
    ASSUME NEW a \in Nat, NEW b \in Nat \ {0}, NEW m \in Nat
    PROVE  /\ a < b * m => a \div b < m
           /\ b * m <= a /\ a < b * m + b => a \div b = m
<1> DEFINE q == a \div b
           r == a % b
<1>1. q \in Nat /\ r \in Nat /\ r < b /\ a = b * q + r
  OBVIOUS
<1> HIDE DEF q, r
<1>2. ASSUME m <= q PROVE b * m <= b * q
  <2>1. PICK e \in Nat : q = m + e
    BY <1>1, <1>2
  <2>2. b * q = b * m + b * e /\ b * e \in Nat /\ b * m \in Nat
    BY <2>1
  <2> QED BY <2>2
<1>3. ASSUME m + 1 <= q PROVE b * m + b <= b * q
  <2>1. PICK e \in Nat : q = m + 1 + e
    BY <1>1, <1>3
  <2>2. b * q = b * m + b + b * e /\ b * e \in Nat /\ b * m \in Nat
    BY <2>1
  <2> QED BY <2>2
<1>4. ASSUME q + 1 <= m PROVE b * q + b <= b * m
  <2>1. PICK e \in Nat : m = q + 1 + e
    BY <1>1, <1>4
  <2>2. b * m = b * q + b + b * e /\ b * e \in Nat /\ b * q \in Nat
    BY <1>1, <2>1
  <2> QED BY <2>2
<1>5. b * m \in Nat /\ b * q \in Nat
  BY <1>1
<1> DEFINE bm == b * m
           bq == b * q
<1>6. /\ m <= q => bm <= bq
      /\ m + 1 <= q => bm + b <= bq
      /\ q + 1 <= m => bq + b <= bm
      /\ bm \in Nat /\ bq \in Nat /\ a = bq + r
  BY <1>1, <1>2, <1>3, <1>4, <1>5
<1> HIDE DEF bm, bq
<1>7. (a < bm => q < m) /\ (bm <= a /\ a < bm + b => q = m)
  BY <1>1, <1>6
<1> QED BY <1>7 DEF q, bm

\* The clock is at its maximum when the cap does not bind, and in proportion to
\* the power, within half a MHz, whether it does or not (Gpu::clock_mhz).
LEMMA ClockTells ==
    ASSUME NEW w \in Nat
    PROVE  /\ w >= Demand => clock_mhz(w) = MaxClock
           /\ clock_mhz(w) \in Nat
           /\ 2 * Demand * clock_mhz(w) \in
                    (2 * MaxClock * power_w(w) - Demand)..(2 * MaxClock * power_w(w) + Demand)
<1> DEFINE D == Demand
           M == MaxClock
           P == power_w(w)
           x == 2 * M * P
           a == x + D
           q == a \div (2 * D)
<1>1. D \in Nat \ {0} /\ M \in Nat /\ P \in Nat
  BY NodeAssumption DEF power_w
<1>2. x \in Nat
  <2> HIDE DEF D, M, P
  <2> QED BY <1>1
<1>3. clock_mhz(w) = q
  BY DEF clock_mhz
<1>4. q \in Nat /\ 2 * D * q \in (x - D)..(x + D)
  <2> DEFINE b == 2 * D
             r == a % b
             bq == b * q
  <2>1. a \in Nat /\ b \in Nat \ {0}
    <3> HIDE DEF D, x
    <3> QED BY <1>1, <1>2
  <2>2. a \div b \in Nat /\ r \in Nat /\ r < b /\ a = b * (a \div b) + r
    <3> HIDE DEF a, b
    <3> QED BY <2>1
  <2>3. q \in Nat /\ a = bq + r /\ bq \in Nat
    <3>1. q = a \div b
      OBVIOUS
    <3> HIDE DEF a, b, q
    <3> QED BY <2>1, <2>2, <3>1
  <2>4. bq \in (x - D)..(x + D)
    <3> HIDE DEF D, x, bq, r
    <3> QED BY <1>1, <1>2, <2>2, <2>3
  <2> QED BY <2>3, <2>4
<1>5. ASSUME w >= D PROVE q = M
  <2> DEFINE MD == M * D
  <2>1. P = D
    BY <1>1, <1>5 DEF power_w
  <2>2. MD \in Nat /\ x = 2 * MD /\ 2 * D * M = 2 * MD
    <3> HIDE DEF D, M, P
    <3> QED BY <1>1, <2>1
  <2>3. a \in Nat /\ 2 * D \in Nat \ {0} /\ 2 * D * M <= a /\ a < 2 * D * M + 2 * D
    <3> HIDE DEF D, M, MD, x
    <3> QED BY <1>1, <2>2
  <2> HIDE DEF D, M, a
  <2> QED BY <1>1, <2>3, Quotient DEF q
<1> HIDE DEF q
<1> QED BY <1>3, <1>4, <1>5

\* As long as no cap changes between them, the Environment and the Processor
\* document of a GPU say the same of it: throttled or not, and the clock that
\* its power makes, whatever fraction of a watt caps and demand are counted in.
THEOREM ThrottleShown == Spec => []ThrottleAgrees
<1> DEFINE IInv == \A c \in Clients : Faithful(c)
<1>1. Init => IInv
  BY DEF Init, Faithful
<1>2. TypeInv /\ IInv /\ [Next]_vars => IInv'
  BY FaithfulInvariant
<1>3. TypeInv /\ IInv => ThrottleAgrees
  <2> DEFINE Agree(e, p) ==
                 /\ p.throttled <=> e.power < Demand
                 /\ p.clock < MaxClock => p.throttled
                 /\ 2 * Demand * p.clock \in
                        (2 * MaxClock * e.power - Demand)..(2 * MaxClock * e.power + Demand)
  <2>1. ASSUME NEW w \in Nat PROVE Agree(environment_metrics(w), processor_metrics(w))
    <3> DEFINE e == environment_metrics(w)
               p == processor_metrics(w)
    <3>1. /\ e.power = power_w(w) /\ p.clock = clock_mhz(w)
          /\ p.throttled = (w < Demand)
      BY DEF environment_metrics, processor_metrics, capped
    <3> HIDE DEF e, p
    <3>2. Demand \in Nat /\ MaxClock \in Nat
      BY NodeAssumption
    <3>3. w < Demand <=> power_w(w) < Demand
      BY <2>1, <3>2 DEF power_w
    <3>4. clock_mhz(w) < MaxClock => w < Demand
      BY <2>1, <3>2, ClockTells
    <3>5. p.throttled <=> e.power < Demand
      BY <3>1, <3>3, Zenon
    <3>6. p.clock < MaxClock => p.throttled
      BY <3>1, <3>4, Zenon
    <3>7. 2 * Demand * p.clock \in
              (2 * MaxClock * e.power - Demand)..(2 * MaxClock * e.power + Demand)
      BY <3>1, ClockTells
    <3> QED BY <3>5, <3>6, <3>7 DEF e, p
  <2> SUFFICES ASSUME TypeInv, IInv,
                      NEW c \in Clients, NEW d \in Clients,
                      Replied(c, "environment"), Replied(d, "processor"),
                      req[c].gpu = req[d].gpu, calm[c], calm[d]
               PROVE  Agree(reply[c], reply[d])
    BY DEF ThrottleAgrees
  <2> DEFINE w == cap[req[c].gpu]
  <2>2. w \in Nat
    BY Watts, RequestsOf DEF TypeInv, TypeOK, Replied
  <2>3. reply[c] = environment_metrics(w) /\ reply[d] = processor_metrics(w)
    BY DEF Faithful
  <2> HIDE DEF w, Agree
  <2> QED BY <2>1, <2>2, <2>3
<1> HIDE DEF IInv
<1> QED BY <1>1, <1>2, <1>3, Types, PTL DEF Spec
=============================================================================
