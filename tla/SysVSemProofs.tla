--------------------------- MODULE SysVSemProofs ---------------------------
(***************************************************************************)
(* For any number of tracees, sets and operations: what is done to a       *)
(* semaphore set is exactly what callers are told (EffectIffToldSo), and   *)
(* the single pass of sysvipc_semop leaves no waiting call behind that     *)
(* could be executed (TakersServed).                                       *)
(*                                                                         *)
(* The inductive invariant Inv adds to the two that a waiting record is on *)
(* a set that exists, has done nothing, and names semaphores the set has   *)
(* (SleeperOK), and that an effect nobody was told of belongs to a set     *)
(* that exists and to a call about to report success (DoneOK).             *)
(*                                                                         *)
(* Three functions of the model are recursive: the sum of a set's values,  *)
(* the loop over the operations and the walk over the tracees.  Recursion  *)
(* and Induction, over 0 .. n, are proved once for all three.  CheckLess   *)
(* is why one pass is enough: operations that only take, and fail, also    *)
(* fail on smaller values, so that a call the walk has passed cannot be    *)
(* made possible by the calls the walk executes after it.  WalkOK is what  *)
(* holds of the walk after each tracee it visits.                          *)
(***************************************************************************)
EXTENDS SysVSem, TLAPS, WellFoundedInduction

(* The types of the sets and of the tracees' records.                      *)
Values == 0 .. MaxVal
SetType == [key : Keys \cup {IPC_PRIVATE}, generation : Nat, valid : BOOLEAN,
            sems : Seq(Values)]
WaitType == [wait_reason : {"WR_NOT_WAITING", "WR_WAIT_SEMOP"}, wait_state : WaitStates,
             chain_state : {"NOT_CHAINED"}, status_after_wait : Int,
             waiting_object_index : Nat]
ConfigType == [wait : WaitType, sops : Seq(Sembuf), effect : Int]

Lives == {"running", "killed", "freed"}

(* Types, and no assertion of PRoot failed.                                *)
TypePart ==
  /\ sets \in [Slots -> SetType]
  /\ num_sets \in 0 .. MaxSets
  /\ config \in [Tracees -> ConfigType]
  /\ life \in [Tracees -> Lives]
  /\ told \in [Slots -> Int]
  /\ excused \in [Slots -> BOOLEAN]
  /\ failed = "none"

(* The array ends at num_sets.                                             *)
SlotsPart == \A s \in Slots : s > num_sets => ~sets[s].valid

(* The operations name semaphores the set has.                             *)
Fits(sops, sems) == \A i \in DOMAIN sops : sops[i].num <= Len(sems)

(* A waiting tracee has done nothing, and waits on a set that exists, with *)
(* operations on semaphores that exist.  Unless the set is excused, they   *)
(* only take, and cannot be executed.                                      *)
SleeperOK(c, set, ex) ==
  /\ set.valid /\ c.effect = 0 /\ Fits(c.sops, set.sems)
  /\ ~ex => OnlyTakes(c.sops) /\ sysvipc_sem_check(c.sops, set.sems).status # 0

(* An effect that was not reported yet is on a set that still exists, and  *)
(* is going to be reported as success.                                     *)
DoneOK(c, set) ==
  set.valid /\ c.wait.status_after_wait = 0 /\ c.wait.wait_state # "NOT_WAITING"

(* A tracee's record, given its life, the sets and who is excused.         *)
RecordOK(c, l, ss, ex) ==
  LET s == c.wait.waiting_object_index IN
  /\ WaitCoherent(c.wait)
  /\ l = "freed" => c = InitConfig
  /\ c.wait.wait_reason = "WR_WAIT_SEMOP" => s \in Slots /\ SleeperOK(c, ss[s], ex[s])
  /\ c.effect # 0 => s \in Slots /\ DoneOK(c, ss[s])

RecordsPart == \A t \in Tracees : RecordOK(config[t], life[t], sets, excused)

(* The effects on set s that are not reported yet, of the records cfg.     *)
Shares(cfg, s) == Sum([t \in Tracees |-> Share(cfg[t], s)], NumTracees)

(* EffectIffToldSo, in these words.                                        *)
SumsPart == \A s \in Slots : sets[s].valid => Total(sets[s].sems) = told[s] + Shares(config, s)

(* The inductive invariant.                                                *)
Inv == TypePart /\ SlotsPart /\ RecordsPart /\ SumsPart

-----------------------------------------------------------------------------
(* Induction over 0 .. n, on the set of the numbers that have a property.  *)
LEMMA Induction ==
  ASSUME NEW n \in Nat, NEW S, 0 \in S, \A i \in 1 .. n : i - 1 \in S => i \in S
  PROVE  \A i \in 0 .. n : i \in S
<1> DEFINE Less == {ss \in Nat \X Nat : ss[1] < ss[2]}
<1> DEFINE T == {i \in 0 .. n : i \notin S}
<1>1. IsWellFoundedOn(Less, Nat)
  BY NatLessThanWellFounded DEF OpToRel
<1>2. SUFFICES ASSUME T # {} PROVE FALSE
  OBVIOUS
<1>3. T \subseteq Nat
  OBVIOUS
<1>4. PICK x \in T : \A y \in T : ~(<<y, x>> \in Less)
  <2> HIDE DEF Less, T
  <2> QED BY <1>1, <1>2, <1>3, WFMin
<1>5. x \in 0 .. n /\ x \notin S /\ x # 0
  OBVIOUS
<1>6. x \in 1 .. n
  BY <1>5
<1>7. x - 1 \notin S
  BY <1>5, <1>6
<1>8. x - 1 \in T
  BY <1>6, <1>7
<1>9. <<x - 1, x>> \in Less
  BY <1>6
<1> QED BY <1>4, <1>8, <1>9

(* g goes from x0 on by G.                                                 *)
IsRec(g, n, x0, G) == g[0] = x0 /\ \A i \in 1 .. n : g[i] = G[<<i, g[i - 1]>>]

(* A function on 0 .. n defined from each value to the next exists.        *)
LEMMA Recursion ==
  ASSUME NEW n \in Nat, NEW A, NEW x0 \in A, NEW G \in [(1 .. n) \X A -> A]
  PROVE  \E g \in [0 .. n -> A] : IsRec(g, n, x0, G)
<1> DEFINE Rec(g, k) == g[0] = x0 /\ \A i \in 1 .. k : g[i] = G[<<i, g[i - 1]>>]
<1> DEFINE S == {k \in 0 .. n : \E g \in [0 .. k -> A] : Rec(g, k)}
<1>1. 0 \in S
  <2> DEFINE g == [i \in 0 .. 0 |-> x0]
  <2>1. g \in [0 .. 0 -> A] /\ Rec(g, 0)
    OBVIOUS
  <2> HIDE DEF g, Rec
  <2> QED BY <2>1
<1>2. ASSUME NEW k \in 1 .. n, k - 1 \in S PROVE k \in S
  <2>1. PICK g \in [0 .. k - 1 -> A] : Rec(g, k - 1)
    BY <1>2
  <2> DEFINE v == G[<<k, g[k - 1]>>]
  <2>2. v \in A
    <3>1. g[k - 1] \in A
      BY <2>1
    <3>2. <<k, g[k - 1]>> \in (1 .. n) \X A
      BY <3>1
    <3> QED BY <3>2
  <2> DEFINE h == [i \in 0 .. k |-> IF i = k THEN v ELSE g[i]]
  <2>3. h \in [0 .. k -> A]
    <3> HIDE DEF v
    <3> QED BY <2>1, <2>2
  <2>4. Rec(h, k)
    <3>1. h[0] = x0
      BY <2>1
    <3>2. ASSUME NEW i \in 1 .. k - 1 PROVE h[i] = G[<<i, h[i - 1]>>]
      <4>1. h[i] = g[i] /\ h[i - 1] = g[i - 1]
        OBVIOUS
      <4> QED BY <4>1, <2>1
    <3>3. h[k] = G[<<k, h[k - 1]>>]
      <4>1. h[k] = v /\ h[k - 1] = g[k - 1]
        OBVIOUS
      <4> QED BY <4>1
    <3>4. \A i \in 1 .. k : i \in 1 .. k - 1 \/ i = k
      OBVIOUS
    <3> HIDE DEF h
    <3> QED BY <3>1, <3>2, <3>3, <3>4
  <2> HIDE DEF h, Rec
  <2> QED BY <2>3, <2>4
<1>3. n \in S
  <2> HIDE DEF S
  <2>1. \A i \in 0 .. n : i \in S
    BY <1>1, <1>2, Induction
  <2> QED BY <2>1
<1> QED BY <1>3 DEF IsRec

-----------------------------------------------------------------------------
(* Sum is the last of the partial sums.                                    *)
LEMMA SumIs ==
  ASSUME NEW n \in Nat, NEW f, \A i \in 1 .. n : f[i] \in Int
  PROVE  \E g \in [0 .. n -> Int] :
           g[0] = 0 /\ (\A i \in 1 .. n : g[i] = g[i - 1] + f[i]) /\ Sum(f, n) = g[n]
<1> DEFINE G == [p \in (1 .. n) \X Int |-> p[2] + f[p[1]]]
<1> DEFINE Step(a) == [i \in 0 .. n |-> IF i = 0 THEN 0 ELSE a[i - 1] + f[i]]
<1>1. G \in [(1 .. n) \X Int -> Int]
  OBVIOUS
<1>2. PICK g \in [0 .. n -> Int] :
        g[0] = 0 /\ \A i \in 1 .. n : g[i] = G[<<i, g[i - 1]>>]
  <2>1. 0 \in Int
    OBVIOUS
  <2> HIDE DEF G
  <2>2. \E g \in [0 .. n -> Int] : IsRec(g, n, 0, G)
    BY <1>1, <2>1, Recursion, Zenon
  <2> QED BY <2>2 DEF IsRec
<1>3. ASSUME NEW i \in 1 .. n PROVE g[i] = g[i - 1] + f[i]
  <2>1. <<i, g[i - 1]>> \in (1 .. n) \X Int
    BY <1>2
  <2>2. g[i] = G[<<i, g[i - 1]>>]
    BY <1>2
  <2> QED BY <2>1, <2>2
<1>4. g = Step(g)
  BY <1>2, <1>3
<1> DEFINE h == CHOOSE a : a = Step(a)
<1>5. h = Step(h)
  <2> HIDE DEF Step
  <2> QED BY <1>4
<1>6. Sum(f, n) = h[n]
  BY DEF Sum
<1>7. \A i \in 0 .. n : h[i] = g[i]
  <2> HIDE DEF h
  <2> DEFINE S == {i \in 0 .. n : h[i] = g[i]}
  <2>1. 0 \in S
    BY <1>2, <1>5
  <2>2. ASSUME NEW i \in 1 .. n, i - 1 \in S PROVE i \in S
    BY <2>2, <1>3, <1>5
  <2>3. \A i \in 0 .. n : i \in S
    <3> HIDE DEF S
    <3> QED BY <2>1, <2>2, Induction
  <2> QED BY <2>3
<1>8. Sum(f, n) = g[n]
  <2> HIDE DEF h
  <2> QED BY <1>6, <1>7
<1> QED BY <1>2, <1>3, <1>8

(* A sum of integers is one.                                               *)
LEMMA SumInt ==
  ASSUME NEW n \in Nat, NEW f, \A i \in 1 .. n : f[i] \in Int
  PROVE  Sum(f, n) \in Int
BY SumIs

(* A sum changes by what one of its terms changes.                         *)
LEMMA SumUpdate ==
  ASSUME NEW n \in Nat, NEW f, NEW g, NEW j \in 1 .. n,
         \A i \in 1 .. n : f[i] \in Int, g[j] \in Int,
         \A i \in 1 .. n : i # j => g[i] = f[i]
  PROVE  Sum(g, n) = Sum(f, n) + g[j] - f[j]
<1>1. PICK a \in [0 .. n -> Int] :
        a[0] = 0 /\ (\A i \in 1 .. n : a[i] = a[i - 1] + f[i]) /\ Sum(f, n) = a[n]
  BY SumIs
<1>2. \A i \in 1 .. n : g[i] \in Int
  OBVIOUS
<1>3. PICK b \in [0 .. n -> Int] :
        b[0] = 0 /\ (\A i \in 1 .. n : b[i] = b[i - 1] + g[i]) /\ Sum(g, n) = b[n]
  BY <1>2, SumIs
<1> DEFINE S == {i \in 0 .. n : b[i] = a[i] + (IF i < j THEN 0 ELSE g[j] - f[j])}
<1>4. 0 \in S
  BY <1>1, <1>3
<1>5. ASSUME NEW i \in 1 .. n, i - 1 \in S PROVE i \in S
  <2>1. b[i] = b[i - 1] + g[i] /\ a[i] = a[i - 1] + f[i]
    BY <1>1, <1>3
  <2>2. b[i - 1] \in Int /\ a[i - 1] \in Int /\ f[i] \in Int /\ g[i] \in Int /\ f[j] \in Int
    BY <1>2
  <2>3. b[i - 1] = a[i - 1] + (IF i - 1 < j THEN 0 ELSE g[j] - f[j])
    BY <1>5
  <2>4. CASE i = j
    BY <2>1, <2>2, <2>3, <2>4
  <2>5. CASE i # j
    <3>1. g[i] = f[i]
      BY <2>5
    <3>2. CASE i < j
      <4>1. b[i - 1] = a[i - 1]
        BY <2>2, <2>3, <3>2
      <4>2. b[i] = a[i]
        BY <2>1, <3>1, <4>1
      <4>3. a[i] \in Int
        OBVIOUS
      <4> QED BY <3>2, <4>2, <4>3
    <3>3. CASE i > j
      <4>1. b[i - 1] = a[i - 1] + (g[j] - f[j])
        BY <2>2, <2>3, <3>3
      <4>2. b[i] = a[i] + (g[j] - f[j])
        <5> DEFINE d == g[j] - f[j]
        <5>1. d \in Int
          <6>1. f[j] \in Int /\ g[j] \in Int
            BY <2>2
          <6>2. \A x, y \in Int : y - x \in Int
            OBVIOUS
          <6> QED BY <6>1, <6>2
        <5>2. b[i - 1] = a[i - 1] + d
          BY <4>1
        <5> HIDE DEF d
        <5>3. b[i] = b[i - 1] + f[i] /\ a[i] = a[i - 1] + f[i]
          BY <2>1, <3>1
        <5>4. \A x, y \in Int : (x + d) + y = (x + y) + d
          BY <5>1
        <5>5. b[i] = a[i] + d
          BY <2>2, <5>2, <5>3, <5>4
        <5> QED BY <5>5 DEF d
      <4>3. ~(i < j)
        BY <3>3
      <4> QED BY <4>2, <4>3
    <3> QED BY <2>5, <3>2, <3>3
  <2> QED BY <2>4, <2>5
<1>6. \A i \in 0 .. n : i \in S
  <2> HIDE DEF S
  <2> QED BY <1>4, <1>5, Induction
<1>7. b[n] = a[n] + (g[j] - f[j])
  BY <1>6
<1> QED BY <1>1, <1>3, <1>7

(* The sum of zeros.                                                       *)
LEMMA SumZero ==
  ASSUME NEW n \in Nat, NEW f, \A i \in 1 .. n : f[i] = 0
  PROVE  Sum(f, n) = 0
<1>1. PICK a \in [0 .. n -> Int] :
        a[0] = 0 /\ (\A i \in 1 .. n : a[i] = a[i - 1] + f[i]) /\ Sum(f, n) = a[n]
  <2>1. \A i \in 1 .. n : f[i] \in Int
    OBVIOUS
  <2> QED BY <2>1, SumIs
<1> DEFINE S == {i \in 0 .. n : a[i] = 0}
<1>2. 0 \in S
  BY <1>1
<1>3. ASSUME NEW i \in 1 .. n, i - 1 \in S PROVE i \in S
  <2>1. a[i] = a[i - 1] + f[i] /\ a[i - 1] = 0 /\ f[i] = 0
    BY <1>1, <1>3
  <2> QED BY <2>1
<1>4. \A i \in 0 .. n : i \in S
  <2> HIDE DEF S
  <2> QED BY <1>2, <1>3, Induction
<1> QED BY <1>1, <1>4

-----------------------------------------------------------------------------
(* The values of a set of m semaphores, and what the loop of               *)
(* sysvipc_sem_check keeps while it goes over the operations.              *)
Vec(m) == [1 .. m -> Values]
Acc(m) == [status : {0, 1, EAGAIN, ERANGE}, sems : Vec(m)]
Leq(p, q, m) == \A i \in 1 .. m : p[i] <= q[i]

(* A set's values as a sequence, and as a function.                        *)
LEMMA VecSeq ==
  ASSUME NEW m \in Nat, NEW q \in Vec(m)
  PROVE  q \in Seq(Values) /\ Len(q) = m
BY DEF Vec

LEMMA SeqVec ==
  ASSUME NEW q \in Seq(Values)
  PROVE  Len(q) \in Nat /\ q \in Vec(Len(q))
BY DEF Vec

LEMMA VecValue ==
  ASSUME NEW m \in Nat, NEW q \in Vec(m), NEW i \in 1 .. m
  PROVE  q[i] \in Int /\ 0 <= q[i] /\ q[i] <= MaxVal
BY SemAssumption DEF Vec, Values

(* The outcome of one operation: it goes on only if it can be executed.    *)
Possible(a, o) ==
  /\ a.status = 0
  /\ IF o.op = 0 THEN a.sems[o.num] = 0
     ELSE 0 <= a.sems[o.num] + o.op /\ a.sems[o.num] + o.op <= MaxVal

(* ApplyOp: the value of one semaphore, or the status, changes.            *)
LEMMA ApplyIs ==
  ASSUME NEW m \in Nat, NEW a \in Acc(m), NEW o \in Sembuf, o.num <= m
  PROVE  /\ ApplyOp(a, o) \in Acc(m)
         /\ ApplyOp(a, o).status = 0 <=> Possible(a, o)
         /\ Possible(a, o) =>
              ApplyOp(a, o).sems = [a.sems EXCEPT ![o.num] = a.sems[o.num] + o.op]
         /\ ~Possible(a, o) => ApplyOp(a, o).sems = a.sems
<1>1. /\ o.num \in 1 .. m /\ o.op \in Int /\ o.nowait \in BOOLEAN
      /\ a.sems \in Vec(m) /\ a.status \in {0, 1, EAGAIN, ERANGE}
      /\ a = [status |-> a.status, sems |-> a.sems]
  BY DEF Sembuf, Acc
<1>2. a.sems[o.num] \in Int /\ 0 <= a.sems[o.num] /\ a.sems[o.num] <= MaxVal
  BY <1>1, VecValue
<1> DEFINE v == a.sems[o.num] + o.op
<1>3. v \in Int
  BY <1>1, <1>2
<1>4. EAGAIN # 0 /\ ERANGE # 0
  BY DEF EAGAIN, ERANGE
<1>5. MaxVal \in Nat
  BY SemAssumption
<1>6. CASE a.status # 0
  <2>1. ApplyOp(a, o) = a
    BY <1>6 DEF ApplyOp
  <2> QED BY <2>1, <1>6 DEF Possible
<1>7. CASE a.status = 0 /\ ((o.op = 0 /\ a.sems[o.num] # 0) \/ (o.op # 0 /\ v < 0))
  <2>1. ApplyOp(a, o) = [a EXCEPT !.status = IF o.nowait THEN EAGAIN ELSE 1]
    BY <1>7 DEF ApplyOp
  <2>2. ~Possible(a, o)
    BY <1>1, <1>2, <1>3, <1>7 DEF Possible
  <2>3. (IF o.nowait THEN EAGAIN ELSE 1) \in {0, 1, EAGAIN, ERANGE} \ {0}
    BY <1>4
  <2> QED BY <1>1, <2>1, <2>2, <2>3 DEF Acc
<1>8. CASE a.status = 0 /\ o.op # 0 /\ ~(v < 0) /\ v > MaxVal
  <2>1. ApplyOp(a, o) = [a EXCEPT !.status = ERANGE]
    BY <1>8 DEF ApplyOp
  <2>2. ~Possible(a, o)
    BY <1>1, <1>2, <1>3, <1>5, <1>8 DEF Possible
  <2> QED BY <1>1, <1>4, <2>1, <2>2 DEF Acc
<1>9. CASE /\ a.status = 0 /\ ~(o.op = 0 /\ a.sems[o.num] # 0)
           /\ ~(o.op # 0 /\ v < 0) /\ ~(o.op # 0 /\ v > MaxVal)
  <2>1. ApplyOp(a, o) = [a EXCEPT !.sems[o.num] = v]
    BY <1>9 DEF ApplyOp
  <2>2. Possible(a, o)
    BY <1>1, <1>2, <1>3, <1>5, <1>9 DEF Possible
  <2>3. v \in Values
    BY <1>1, <1>2, <1>3, <1>5, <1>9 DEF Values
  <2>4. [a.sems EXCEPT ![o.num] = v] \in Vec(m)
    <3> HIDE DEF v
    <3> QED BY <1>1, <2>3 DEF Vec
  <2>5. ApplyOp(a, o) = [status |-> 0, sems |-> [a.sems EXCEPT ![o.num] = v]]
    <3> HIDE DEF v
    <3> QED BY <1>1, <1>9, <2>1
  <2> HIDE DEF v
  <2>6. ApplyOp(a, o) \in Acc(m)
    BY <2>4, <2>5 DEF Acc
  <2> QED BY <2>2, <2>5, <2>6 DEF v
<1> QED BY <1>3, <1>5, <1>6, <1>7, <1>8, <1>9

(* An executed operation adds itself to the values of the set.             *)
LEMMA ApplyTotal ==
  ASSUME NEW m \in Nat, NEW a \in Acc(m), NEW o \in Sembuf, o.num <= m,
         ApplyOp(a, o).status = 0
  PROVE  a.status = 0 /\ Sum(ApplyOp(a, o).sems, m) = Sum(a.sems, m) + o.op
<1> DEFINE g == [a.sems EXCEPT ![o.num] = a.sems[o.num] + o.op]
<1>1. Possible(a, o) /\ ApplyOp(a, o).sems = g
  BY ApplyIs
<1>2. o.num \in 1 .. m /\ o.op \in Int /\ a.sems \in Vec(m)
  BY DEF Sembuf, Acc
<1>3. \A i \in 1 .. m : a.sems[i] \in Int
  BY <1>2, VecValue
<1>4. g[o.num] = a.sems[o.num] + o.op /\ \A i \in 1 .. m : i # o.num => g[i] = a.sems[i]
  BY <1>2 DEF Vec
<1>5. g[o.num] \in Int
  BY <1>2, <1>3, <1>4
<1> HIDE DEF g
<1>6. Sum(g, m) = Sum(a.sems, m) + g[o.num] - a.sems[o.num]
  <2> DEFINE f == a.sems
             j == o.num
  <2>1. /\ j \in 1 .. m /\ g[j] \in Int /\ \A i \in 1 .. m : f[i] \in Int
        /\ \A i \in 1 .. m : i # j => g[i] = f[i]
    BY <1>2, <1>3, <1>4, <1>5
  <2> HIDE DEF f, j
  <2>2. Sum(g, m) = Sum(f, m) + g[j] - f[j]
    BY <2>1, SumUpdate
  <2> QED BY <2>2 DEF f, j
<1>7. Sum(a.sems, m) \in Int
  BY <1>3, SumInt
<1>8. Sum(g, m) = Sum(a.sems, m) + o.op
  BY <1>2, <1>3, <1>4, <1>6, <1>7
<1> QED BY <1>1, <1>8 DEF Possible

(* Taking leaves no more than there was, and what can be taken from less   *)
(* can be taken from more.                                                 *)
LEMMA ApplyTakes ==
  ASSUME NEW m \in Nat, NEW a \in Acc(m), NEW o \in Sembuf, o.num <= m, o.op < 0
  PROVE  Leq(ApplyOp(a, o).sems, a.sems, m)
<1>1. o.num \in 1 .. m /\ o.op \in Int /\ a.sems \in Vec(m)
  BY DEF Sembuf, Acc
<1>2. \A i \in 1 .. m : a.sems[i] \in Int
  BY <1>1, VecValue
<1>3. CASE Possible(a, o)
  <2>1. ApplyOp(a, o).sems = [a.sems EXCEPT ![o.num] = a.sems[o.num] + o.op]
    BY <1>3, ApplyIs
  <2>2. ASSUME NEW i \in 1 .. m PROVE ApplyOp(a, o).sems[i] <= a.sems[i]
    <3>1. CASE i = o.num
      <4>1. ApplyOp(a, o).sems[i] = a.sems[i] + o.op
        BY <1>1, <2>1, <3>1 DEF Vec
      <4> QED BY <1>1, <1>2, <4>1
    <3>2. CASE i # o.num
      <4>1. ApplyOp(a, o).sems[i] = a.sems[i]
        BY <1>1, <2>1, <3>2 DEF Vec
      <4> QED BY <1>2, <4>1
    <3> QED BY <3>1, <3>2
  <2> QED BY <2>2 DEF Leq
<1>4. CASE ~Possible(a, o)
  <2>1. ApplyOp(a, o).sems = a.sems
    BY <1>4, ApplyIs
  <2>2. \A i \in 1 .. m : a.sems[i] <= a.sems[i]
    BY <1>2
  <2> QED BY <2>1, <2>2 DEF Leq
<1> QED BY <1>3, <1>4

(* An operation that takes and fails also fails on smaller values, and     *)
(* one that succeeds keeps the order.                                      *)
LEMMA ApplyLess ==
  ASSUME NEW m \in Nat, NEW a \in Acc(m), NEW b \in Acc(m), NEW o \in Sembuf,
         o.num <= m, o.op < 0, a.status = 0, b.status = 0, Leq(b.sems, a.sems, m),
         ApplyOp(b, o).status = 0
  PROVE  ApplyOp(a, o).status = 0 /\ Leq(ApplyOp(b, o).sems, ApplyOp(a, o).sems, m)
<1>1. o.num \in 1 .. m /\ o.op \in Int /\ a.sems \in Vec(m) /\ b.sems \in Vec(m)
  BY DEF Sembuf, Acc
<1>2. \A i \in 1 .. m : /\ a.sems[i] \in Int /\ b.sems[i] \in Int
                        /\ a.sems[i] <= MaxVal /\ b.sems[i] <= a.sems[i]
  BY <1>1, VecValue DEF Leq
<1>3. Possible(b, o)
  BY ApplyIs
<1>4. Possible(a, o)
  <2>1. 0 <= b.sems[o.num] + o.op
    BY <1>1, <1>3 DEF Possible
  <2>2. 0 <= a.sems[o.num] + o.op /\ a.sems[o.num] + o.op <= MaxVal
    BY <1>1, <1>2, <2>1, SemAssumption
  <2> QED BY <1>1, <2>2 DEF Possible
<1>5. /\ ApplyOp(a, o).sems = [a.sems EXCEPT ![o.num] = a.sems[o.num] + o.op]
      /\ ApplyOp(b, o).sems = [b.sems EXCEPT ![o.num] = b.sems[o.num] + o.op]
      /\ ApplyOp(a, o).status = 0
  BY <1>3, <1>4, ApplyIs
<1>6. ASSUME NEW i \in 1 .. m PROVE ApplyOp(b, o).sems[i] <= ApplyOp(a, o).sems[i]
  <2>1. CASE i = o.num
    <3>1. /\ ApplyOp(a, o).sems[i] = a.sems[i] + o.op
          /\ ApplyOp(b, o).sems[i] = b.sems[i] + o.op
      BY <1>1, <1>5, <2>1 DEF Vec
    <3> QED BY <1>1, <1>2, <3>1
  <2>2. CASE i # o.num
    <3>1. /\ ApplyOp(a, o).sems[i] = a.sems[i]
          /\ ApplyOp(b, o).sems[i] = b.sems[i]
      BY <1>1, <1>5, <2>2 DEF Vec
    <3> QED BY <1>2, <3>1
  <2> QED BY <2>1, <2>2
<1> QED BY <1>5, <1>6 DEF Leq

-----------------------------------------------------------------------------
(* g is the run of the operations sops on the values sems.                 *)
IsRun(g, sops, sems) ==
  /\ g \in [0 .. Len(sops) -> Acc(Len(sems))]
  /\ g[0] = [status |-> 0, sems |-> sems]
  /\ \A i \in 1 .. Len(sops) : g[i] = ApplyOp(g[i - 1], sops[i])

(* RunOps is the last of the steps of its loop.                            *)
LEMMA RunIs ==
  ASSUME NEW sops \in Seq(Sembuf), NEW sems \in Seq(Values), Fits(sops, sems)
  PROVE  \E g : IsRun(g, sops, sems) /\ RunOps(sops, sems) = g[Len(sops)]
<1> DEFINE n == Len(sops)
           m == Len(sems)
           x0 == [status |-> 0, sems |-> sems]
           G == [p \in (1 .. n) \X Acc(m) |-> ApplyOp(p[2], sops[p[1]])]
           Step(a) == [i \in 0 .. n |-> IF i = 0 THEN x0 ELSE ApplyOp(a[i - 1], sops[i])]
<1>1. n \in Nat /\ m \in Nat /\ x0 \in Acc(m)
  <2>1. sems \in Vec(m) /\ m \in Nat
    BY SeqVec
  <2> QED BY <2>1 DEF Acc
<1>2. \A i \in 1 .. n : sops[i] \in Sembuf /\ sops[i].num <= m
  BY DEF Fits
<1>3. G \in [(1 .. n) \X Acc(m) -> Acc(m)]
  <2>1. ASSUME NEW p \in (1 .. n) \X Acc(m) PROVE ApplyOp(p[2], sops[p[1]]) \in Acc(m)
    <3>1. p[1] \in 1 .. n /\ p[2] \in Acc(m)
      OBVIOUS
    <3> QED BY <1>1, <1>2, <3>1, ApplyIs
  <2> QED BY <2>1
<1>4. PICK g \in [0 .. n -> Acc(m)] : IsRec(g, n, x0, G)
  <2> HIDE DEF n, m, x0, G
  <2> QED BY <1>1, <1>3, Recursion, Zenon
<1>5. ASSUME NEW i \in 1 .. n PROVE g[i] = ApplyOp(g[i - 1], sops[i])
  <2>1. i - 1 \in 0 .. n
    BY <1>1
  <2>2. <<i, g[i - 1]>> \in (1 .. n) \X Acc(m)
    BY <1>4, <2>1
  <2>3. g[i] = G[<<i, g[i - 1]>>]
    BY <1>4 DEF IsRec
  <2> QED BY <2>2, <2>3
<1>6. g[0] = x0
  BY <1>4 DEF IsRec
<1>7. g = Step(g)
  <2> HIDE DEF x0
  <2>1. \A i \in 0 .. n : i # 0 => i \in 1 .. n
    BY <1>1
  <2>2. \A i \in 0 .. n : g[i] = Step(g)[i]
    BY <1>5, <1>6, <2>1
  <2> QED BY <1>4, <2>2
<1> DEFINE h == CHOOSE a : a = Step(a)
<1>8. h = Step(h)
  <2> HIDE DEF Step
  <2> QED BY <1>7
<1>9. RunOps(sops, sems) = h[n]
  BY DEF RunOps
<1>10. \A i \in 0 .. n : h[i] = g[i]
  <2> HIDE DEF h, x0
  <2> DEFINE S == {i \in 0 .. n : h[i] = g[i]}
  <2>1. 0 \in S
    BY <1>1, <1>6, <1>8
  <2>2. ASSUME NEW i \in 1 .. n, i - 1 \in S PROVE i \in S
    <3>1. i \in 0 .. n /\ i # 0 /\ h[i - 1] = g[i - 1]
      BY <1>1, <2>2
    <3>2. h[i] = ApplyOp(h[i - 1], sops[i])
      BY <1>8, <3>1
    <3> QED BY <1>5, <3>1, <3>2
  <2>3. \A i \in 0 .. n : i \in S
    <3> HIDE DEF S, n
    <3> QED BY <1>1, <2>1, <2>2, Induction
  <2> QED BY <2>3
<1>11. IsRun(g, sops, sems)
  BY <1>4, <1>5, <1>6 DEF IsRun
<1>12. RunOps(sops, sems) = g[n]
  <2> HIDE DEF h
  <2>1. n \in 0 .. n
    BY <1>1
  <2> QED BY <1>9, <1>10, <2>1
<1> QED BY <1>11, <1>12

(* Each step of the loop is an ApplyOp on a semaphore of the set.          *)
LEMMA RunStep ==
  ASSUME NEW sops \in Seq(Sembuf), NEW sems, NEW g, IsRun(g, sops, sems)
  PROVE  /\ \A i \in 0 .. Len(sops) : g[i] \in Acc(Len(sems))
         /\ g[0] = [status |-> 0, sems |-> sems]
         /\ \A i \in 1 .. Len(sops) : i - 1 \in 0 .. Len(sops) /\ g[i] = ApplyOp(g[i - 1], sops[i])
<1> DEFINE n == Len(sops)
           A == Acc(Len(sems))
<1>1. n \in Nat
  OBVIOUS
<1>2. g \in [0 .. n -> A] /\ g[0] = [status |-> 0, sems |-> sems]
  BY DEF IsRun
<1>3. \A i \in 1 .. n : g[i] = ApplyOp(g[i - 1], sops[i])
  BY DEF IsRun
<1>4. \A i \in 1 .. n : i - 1 \in 0 .. n
  <2> HIDE DEF n
  <2> QED BY <1>1
<1>5. \A i \in 0 .. n : g[i] \in A
  <2> HIDE DEF n, A
  <2> QED BY <1>2
<1> QED BY <1>2, <1>3, <1>4, <1>5, Zenon

(* sysvipc_sem_check does all of the operations, or nothing.               *)
LEMMA CheckIs ==
  ASSUME NEW sops \in Seq(Sembuf), NEW sems \in Seq(Values), Fits(sops, sems)
  PROVE  LET r == sysvipc_sem_check(sops, sems) m == Len(sems) IN
         /\ r \in Acc(m)
         /\ r.status # 0 => r.sems = sems
         /\ r.status = 0 => Sum(r.sems, m) = Sum(sems, m) + Effect(sops)
         /\ OnlyTakes(sops) => Leq(r.sems, sems, m)
<1> DEFINE r == sysvipc_sem_check(sops, sems)
           m == Len(sems)
           n == Len(sops)
           ops == [i \in 1 .. n |-> sops[i].op]
<1>1. PICK g : IsRun(g, sops, sems) /\ RunOps(sops, sems) = g[n]
  BY RunIs
<1>2. n \in Nat /\ m \in Nat /\ sems \in Vec(m)
  BY SeqVec
<1>3. \A i \in 1 .. n : sops[i] \in Sembuf /\ sops[i].num <= m
  BY DEF Fits
<1>4. /\ \A i \in 0 .. n : g[i] \in Acc(m)
      /\ g[0] = [status |-> 0, sems |-> sems]
      /\ \A i \in 1 .. n : i - 1 \in 0 .. n /\ g[i] = ApplyOp(g[i - 1], sops[i])
  BY <1>1, <1>2, RunStep
<1>5. g[n] \in Acc(m)
  BY <1>2, <1>4
<1>6. \A i \in 1 .. n : ops[i] \in Int
  BY <1>3 DEF Sembuf
<1>7. PICK e \in [0 .. n -> Int] :
        e[0] = 0 /\ (\A i \in 1 .. n : e[i] = e[i - 1] + ops[i]) /\ Sum(ops, n) = e[n]
  <2> HIDE DEF ops, n
  <2> QED BY <1>2, <1>6, SumIs
<1>8. Sum(sems, m) \in Int
  <2>1. \A i \in 1 .. m : sems[i] \in Int
    BY <1>2, VecValue
  <2> HIDE DEF m
  <2> QED BY <1>2, <2>1, SumInt
<1>9. g[n].status = 0 => Sum(g[n].sems, m) = Sum(sems, m) + Sum(ops, n)
  <2> DEFINE S == {i \in 0 .. n : g[i].status = 0 => Sum(g[i].sems, m) = Sum(sems, m) + e[i]}
  <2>1. 0 \in S
    <3>1. g[0].sems = sems /\ Sum(sems, m) = Sum(sems, m) + e[0]
      BY <1>4, <1>7, <1>8
    <3> QED BY <1>2, <3>1
  <2>2. ASSUME NEW i \in 1 .. n, i - 1 \in S PROVE i \in S
    <3>1. SUFFICES ASSUME g[i].status = 0 PROVE Sum(g[i].sems, m) = Sum(sems, m) + e[i]
      BY <1>2
    <3>2. /\ g[i] = ApplyOp(g[i - 1], sops[i]) /\ g[i - 1] \in Acc(m)
          /\ sops[i] \in Sembuf /\ sops[i].num <= m
      BY <1>3, <1>4
    <3>3. g[i - 1].status = 0 /\ Sum(g[i].sems, m) = Sum(g[i - 1].sems, m) + sops[i].op
      <4> HIDE DEF m
      <4> QED BY <1>2, <3>1, <3>2, ApplyTotal
    <3>4. Sum(g[i - 1].sems, m) = Sum(sems, m) + e[i - 1]
      BY <2>2, <3>3
    <3>5. e[i] = e[i - 1] + sops[i].op /\ e[i - 1] \in Int /\ sops[i].op \in Int
      BY <1>6, <1>7
    <3>6. \A x, y, z \in Int : (x + y) + z = x + (y + z)
      OBVIOUS
    <3> QED BY <1>8, <3>3, <3>4, <3>5, <3>6
  <2>3. \A i \in 0 .. n : i \in S
    <3> HIDE DEF S, n
    <3> QED BY <1>2, <2>1, <2>2, Induction
  <2>4. n \in S
    BY <1>2, <2>3
  <2> QED BY <1>7, <2>4
<1>10. OnlyTakes(sops) => Leq(g[n].sems, sems, m)
  <2> SUFFICES ASSUME OnlyTakes(sops) PROVE Leq(g[n].sems, sems, m)
    OBVIOUS
  <2> DEFINE S == {i \in 0 .. n : Leq(g[i].sems, sems, m)}
  <2>1. 0 \in S
    <3>1. g[0].sems = sems /\ \A i \in 1 .. m : sems[i] <= sems[i]
      BY <1>2, <1>4, VecValue
    <3> QED BY <1>2, <3>1 DEF Leq
  <2>2. ASSUME NEW i \in 1 .. n, i - 1 \in S PROVE i \in S
    <3>1. /\ g[i] = ApplyOp(g[i - 1], sops[i]) /\ g[i - 1] \in Acc(m) /\ g[i] \in Acc(m)
          /\ sops[i] \in Sembuf /\ sops[i].num <= m /\ sops[i].op < 0
      BY <1>3, <1>4 DEF OnlyTakes
    <3>2. Leq(g[i].sems, g[i - 1].sems, m)
      <4> HIDE DEF m
      <4> QED BY <1>2, <3>1, ApplyTakes
    <3>3. Leq(g[i - 1].sems, sems, m)
      BY <2>2
    <3>4. g[i].sems \in Vec(m) /\ g[i - 1].sems \in Vec(m)
      BY <3>1 DEF Acc
    <3>5. ASSUME NEW j \in 1 .. m PROVE g[i].sems[j] <= sems[j]
      <4>1. g[i].sems[j] <= g[i - 1].sems[j] /\ g[i - 1].sems[j] <= sems[j]
        BY <3>2, <3>3 DEF Leq
      <4>2. g[i].sems[j] \in Int /\ g[i - 1].sems[j] \in Int /\ sems[j] \in Int
        BY <1>2, <3>4, VecValue
      <4> QED BY <4>1, <4>2
    <3> QED BY <1>2, <3>5 DEF Leq
  <2>3. \A i \in 0 .. n : i \in S
    <3> HIDE DEF S, n
    <3> QED BY <1>2, <2>1, <2>2, Induction
  <2> QED BY <1>2, <2>3
<1>11. Effect(sops) = Sum(ops, n)
  BY DEF Effect
<1>12. CASE g[n].status = 0
  <2>1. r = g[n]
    BY <1>1, <1>12 DEF sysvipc_sem_check
  <2> QED BY <1>5, <1>9, <1>10, <1>11, <1>12, <2>1
<1>13. CASE g[n].status # 0
  <2>1. r = [g[n] EXCEPT !.sems = sems]
    BY <1>1, <1>13 DEF sysvipc_sem_check
  <2>2. r \in Acc(m) /\ r.status # 0 /\ r.sems = sems
    BY <1>2, <1>5, <1>13, <2>1 DEF Acc
  <2>3. Leq(sems, sems, m)
    BY <1>2, VecValue DEF Leq
  <2> QED BY <2>2, <2>3
<1> QED BY <1>12, <1>13

(* What cannot be taken from more cannot be taken from less.               *)
LEMMA CheckLess ==
  ASSUME NEW sops \in Seq(Sembuf), OnlyTakes(sops),
         NEW more \in Seq(Values), NEW less \in Seq(Values), Len(less) = Len(more),
         Fits(sops, more), Leq(less, more, Len(more)),
         sysvipc_sem_check(sops, more).status # 0
  PROVE  sysvipc_sem_check(sops, less).status # 0
<1> DEFINE n == Len(sops)
           m == Len(more)
<1>1. n \in Nat /\ m \in Nat /\ more \in Vec(m) /\ less \in Vec(m) /\ Fits(sops, less)
  BY SeqVec DEF Fits
<1>2. \A i \in 1 .. n : sops[i] \in Sembuf /\ sops[i].num <= m /\ sops[i].op < 0
  BY DEF Fits, OnlyTakes
<1>3. PICK a : IsRun(a, sops, more) /\ RunOps(sops, more) = a[n]
  BY RunIs
<1>4. PICK b : IsRun(b, sops, less) /\ RunOps(sops, less) = b[n]
  BY <1>1, RunIs
<1>5. /\ \A i \in 0 .. n : a[i] \in Acc(m) /\ b[i] \in Acc(m)
      /\ a[0] = [status |-> 0, sems |-> more] /\ b[0] = [status |-> 0, sems |-> less]
      /\ \A i \in 1 .. n : /\ i - 1 \in 0 .. n /\ a[i] = ApplyOp(a[i - 1], sops[i])
                           /\ b[i] = ApplyOp(b[i - 1], sops[i])
  BY <1>1, <1>3, <1>4, RunStep
<1>6. a[n].status # 0
  <2>1. CASE a[n].status = 0
    <3>1. sysvipc_sem_check(sops, more) = a[n]
      BY <1>3, <2>1 DEF sysvipc_sem_check
    <3> QED BY <2>1, <3>1
  <2> QED BY <2>1
<1> DEFINE S == {i \in 0 .. n : b[i].status = 0 => a[i].status = 0 /\ Leq(b[i].sems, a[i].sems, m)}
<1>7. 0 \in S
  BY <1>1, <1>5
<1>8. ASSUME NEW i \in 1 .. n, i - 1 \in S PROVE i \in S
  <2>1. SUFFICES ASSUME b[i].status = 0
                 PROVE  a[i].status = 0 /\ Leq(b[i].sems, a[i].sems, m)
    BY <1>1
  <2>2. /\ a[i] = ApplyOp(a[i - 1], sops[i]) /\ b[i] = ApplyOp(b[i - 1], sops[i])
        /\ a[i - 1] \in Acc(m) /\ b[i - 1] \in Acc(m)
        /\ sops[i] \in Sembuf /\ sops[i].num <= m /\ sops[i].op < 0
    BY <1>2, <1>5
  <2> HIDE DEF m
  <2>3. b[i - 1].status = 0
    BY <1>1, <2>1, <2>2, ApplyTotal
  <2>4. a[i - 1].status = 0 /\ Leq(b[i - 1].sems, a[i - 1].sems, m)
    BY <1>8, <2>3
  <2> QED BY <1>1, <2>1, <2>2, <2>3, <2>4, ApplyLess
<1>9. \A i \in 0 .. n : i \in S
  <2> HIDE DEF S, n
  <2> QED BY <1>1, <1>7, <1>8, Induction
<1>10. b[n].status # 0
  <2>1. n \in S
    BY <1>1, <1>9
  <2> QED BY <1>6, <2>1
<1>11. sysvipc_sem_check(sops, less) = [b[n] EXCEPT !.sems = less]
  BY <1>4, <1>10 DEF sysvipc_sem_check
<1>12. b[n] \in Acc(m)
  BY <1>1, <1>5
<1> QED BY <1>10, <1>11, <1>12 DEF Acc

-----------------------------------------------------------------------------
(* The shares of the tracees in a set: integers, and how one record's      *)
(* change shows in their sum.                                              *)
LEMMA SumsPartIs == EffectIffToldSo <=> SumsPart
BY DEF EffectIffToldSo, SumsPart, Shares

LEMMA ShareInt ==
  ASSUME NEW c \in ConfigType, NEW s
  PROVE  Share(c, s) \in Int
BY DEF Share, ConfigType

LEMMA SharesInt ==
  ASSUME NEW cfg \in [Tracees -> ConfigType], NEW s
  PROVE  Shares(cfg, s) \in Int
<1> DEFINE f == [t \in Tracees |-> Share(cfg[t], s)]
<1>1. \A i \in 1 .. NumTracees : f[i] \in Int
  BY ShareInt DEF Tracees
<1>2. NumTracees \in Nat
  BY SemAssumption
<1> HIDE DEF f
<1>3. Sum(f, NumTracees) \in Int
  BY <1>1, <1>2, SumInt
<1> QED BY <1>3 DEF f, Shares

LEMMA SharesUpdate ==
  ASSUME NEW cfg \in [Tracees -> ConfigType], NEW t \in Tracees, NEW d \in ConfigType, NEW s
  PROVE  Shares([cfg EXCEPT ![t] = d], s) = Shares(cfg, s) + Share(d, s) - Share(cfg[t], s)
<1> DEFINE new == [cfg EXCEPT ![t] = d]
           f == [u \in Tracees |-> Share(cfg[u], s)]
           g == [u \in Tracees |-> Share(new[u], s)]
<1>1. NumTracees \in Nat /\ t \in 1 .. NumTracees
  BY SemAssumption DEF Tracees
<1>2. \A u \in Tracees : f[u] = Share(cfg[u], s) /\ g[u] = Share(new[u], s)
  OBVIOUS
<1>3. new[t] = d /\ \A u \in Tracees : u # t => new[u] = cfg[u]
  OBVIOUS
<1>4. \A i \in 1 .. NumTracees : f[i] \in Int
  BY <1>2, ShareInt DEF Tracees
<1>5. g[t] = Share(d, s) /\ g[t] \in Int /\ f[t] = Share(cfg[t], s)
  BY <1>2, <1>3, ShareInt
<1>6. \A i \in 1 .. NumTracees : i # t => g[i] = f[i]
  BY <1>2, <1>3 DEF Tracees
<1>7. Shares(new, s) = Sum(g, NumTracees) /\ Shares(cfg, s) = Sum(f, NumTracees)
  BY DEF Shares
<1> HIDE DEF f, g, new
<1>8. Sum(g, NumTracees) = Sum(f, NumTracees) + g[t] - f[t]
  BY <1>1, <1>4, <1>5, <1>6, SumUpdate
<1>9. Shares(new, s) = Shares(cfg, s) + Share(d, s) - Share(cfg[t], s)
  BY <1>5, <1>7, <1>8
<1> QED BY <1>9 DEF new

LEMMA SharesSame ==
  ASSUME NEW cfg, NEW new, NEW s, \A u \in Tracees : Share(new[u], s) = Share(cfg[u], s)
  PROVE  Shares(new, s) = Shares(cfg, s)
<1>1. [u \in Tracees |-> Share(new[u], s)] = [u \in Tracees |-> Share(cfg[u], s)]
  OBVIOUS
<1> QED BY <1>1 DEF Shares

-----------------------------------------------------------------------------
(* A tracee that neither waits nor has anything to report.                 *)
Idle(c) == c.effect = 0 /\ c.wait.wait_reason = "WR_NOT_WAITING" /\ WaitCoherent(c.wait)

(* The record of such a tracee is in order whatever the sets are.          *)
LEMMA IdleOK ==
  ASSUME NEW c, Idle(c), NEW l, l # "freed", NEW ss, NEW ex
  PROVE  RecordOK(c, l, ss, ex)
BY DEF Idle, RecordOK

(* Tidy keeps the wait, and drops an effect only where it is over.         *)
LEMMA TidyOK ==
  ASSUME NEW c \in ConfigType
  PROVE  /\ Tidy(c) \in ConfigType
         /\ Tidy(c) = c \/ Tidy(c).effect = 0
         /\ Tidy(c).wait.wait_reason = c.wait.wait_reason
         /\ Tidy(c).wait.wait_state = c.wait.wait_state
         /\ c.wait.wait_state = "NOT_WAITING" => Tidy(c).effect = 0
<1>1. /\ c.wait \in WaitType
      /\ [c.wait EXCEPT !.status_after_wait = 0, !.waiting_object_index = 0] \in WaitType
  <2>1. c.wait \in WaitType
    BY DEF ConfigType
  <2> DEFINE v == c.wait
  <2> HIDE DEF v
  <2>2. ASSUME v \in WaitType
        PROVE  [v EXCEPT !.status_after_wait = 0, !.waiting_object_index = 0] \in WaitType
    <3> DEFINE x == [v EXCEPT !.status_after_wait = 0]
               y == [x EXCEPT !.waiting_object_index = 0]
    <3>1. x \in WaitType
      BY <2>2 DEF WaitType
    <3>2. [v EXCEPT !.status_after_wait = 0, !.waiting_object_index = 0] = y
      OBVIOUS
    <3> HIDE DEF x
    <3>3. y \in WaitType
      BY <3>1 DEF WaitType
    <3> HIDE DEF y
    <3> QED BY <3>2, <3>3
  <2> QED BY <2>1, <2>2 DEF v
<1>2. <<>> \in Seq(Sembuf)
  OBVIOUS
<1> DEFINE w == [c.wait EXCEPT !.status_after_wait = 0, !.waiting_object_index = 0]
<1>3. w.wait_reason = c.wait.wait_reason /\ w.wait_state = c.wait.wait_state /\ w \in WaitType
  BY <1>1 DEF WaitType
<1>4. CASE \/ c.wait.wait_state = "NOT_WAITING"
           \/ c.wait.wait_state = "ENTERED_GETPID" /\ c.effect = 0
  <2>1. Tidy(c) = [wait |-> w, sops |-> <<>>, effect |-> 0]
    BY <1>4 DEF Tidy
  <2> HIDE DEF w
  <2> QED BY <1>2, <1>3, <2>1 DEF ConfigType
<1>5. CASE ~(\/ c.wait.wait_state = "NOT_WAITING"
             \/ c.wait.wait_state = "ENTERED_GETPID" /\ c.effect = 0)
  BY <1>5 DEF Tidy
<1> QED BY <1>4, <1>5

(* A call that is answered at once leaves an idle record.                  *)
LEMMA AnswerOK ==
  ASSUME NEW c \in ConfigType, InUserCode(c.wait), NEW l, NEW ss, NEW ex, RecordOK(c, l, ss, ex),
         NEW st \in Int, NEW b \in BOOLEAN
  PROVE  LET d == Tidy([c EXCEPT !.wait = sysvipc_syscall_common(@, st, b)])
         IN  d \in ConfigType /\ Idle(d) /\ c.effect = 0
<1>1. /\ c.wait.wait_state = "NOT_WAITING" /\ c.wait.wait_reason = "WR_NOT_WAITING"
      /\ c.effect = 0 /\ c.wait \in WaitType
  BY DEF InUserCode, RecordOK, WaitCoherent, DoneOK, ConfigType, WaitType
<1> DEFINE w == sysvipc_syscall_common(c.wait, st, b)
           e == [c EXCEPT !.wait = w]
<1>2. /\ w \in WaitType /\ w.wait_reason = "WR_NOT_WAITING"
      /\ w.wait_state \in {"NOT_WAITING", "ENTERED_GETPID"}
  BY <1>1 DEF sysvipc_syscall_common, WaitType, WaitStates
<1> HIDE DEF w
<1>3. e \in ConfigType /\ e.effect = 0 /\ e.wait = w
  BY <1>1, <1>2 DEF ConfigType
<1> HIDE DEF e
<1>4. /\ Tidy(e) \in ConfigType /\ Tidy(e).effect = 0
      /\ Tidy(e).wait.wait_reason = "WR_NOT_WAITING"
      /\ Tidy(e).wait.wait_state \in {"NOT_WAITING", "ENTERED_GETPID"}
  BY <1>2, <1>3, TidyOK
<1>5. Idle(Tidy(e))
  BY <1>4 DEF Idle, WaitCoherent
<1> QED BY <1>1, <1>4, <1>5 DEF e, w

(* The record of a new tracee is idle.                                     *)
LEMMA InitConfigOK == InitConfig \in ConfigType /\ Idle(InitConfig)
<1>1. InitWait \in WaitType
  BY DEF InitWait, WaitType, WaitStates
<1> QED BY <1>1 DEF InitConfig, ConfigType, Idle, WaitCoherent, InitWait

-----------------------------------------------------------------------------
(* A step that changes one record, and no set.                             *)
OneChange(t, d) ==
  /\ config' = [config EXCEPT ![t] = d]
  /\ sets' = sets /\ num_sets' = num_sets /\ excused' = excused /\ failed' = failed
  /\ life' \in [Tracees -> Lives] /\ \A u \in Tracees : u # t => life'[u] = life[u]
  /\ told' \in [Slots -> Int]
  /\ \A s \in Slots : told'[s] + Share(d, s) = told[s] + Share(config[t], s)
  /\ RecordOK(d, life'[t], sets, excused)

(* Such a step keeps the invariant, if what is told makes up for what the  *)
(* record's share loses.                                                   *)
LEMMA OneRecord ==
  ASSUME Inv, NEW t \in Tracees, NEW d \in ConfigType, OneChange(t, d)
  PROVE  Inv'
<1> USE DEF OneChange
<1>1. TypePart /\ RecordsPart /\ SumsPart
  BY DEF Inv
<1>2. config \in [Tracees -> ConfigType] /\ told \in [Slots -> Int]
  BY <1>1 DEF TypePart
<1>3. config'[t] = d /\ \A u \in Tracees : u # t => config'[u] = config[u]
  BY <1>2
<1>4. TypePart'
  BY <1>1 DEF TypePart
<1>5. SlotsPart'
  BY DEF Inv, SlotsPart
<1>6. RecordsPart'
  BY <1>1, <1>3 DEF RecordsPart
<1>7. SumsPart'
  <2> SUFFICES ASSUME NEW s \in Slots, sets[s].valid
               PROVE  Total(sets[s].sems) = told'[s] + Shares(config', s)
    BY DEF SumsPart
  <2>1. Total(sets[s].sems) = told[s] + Shares(config, s)
    BY <1>1 DEF SumsPart
  <2>2. Shares(config', s) = Shares(config, s) + Share(d, s) - Share(config[t], s)
    BY <1>2, SharesUpdate
  <2>3. /\ Shares(config, s) \in Int /\ Share(d, s) \in Int /\ Share(config[t], s) \in Int
        /\ told[s] \in Int /\ told'[s] \in Int
    BY <1>2, SharesInt, ShareInt
  <2>4. told'[s] + Share(d, s) = told[s] + Share(config[t], s)
    BY DEF OneChange
  <2> QED BY <2>1, <2>2, <2>3, <2>4
<1> QED BY <1>4, <1>5, <1>6, <1>7 DEF Inv

(* The invariant, for one tracee.                                          *)
LEMMA InvAt ==
  ASSUME Inv, NEW t \in Tracees
  PROVE  /\ config[t] \in ConfigType /\ life[t] \in Lives
         /\ RecordOK(config[t], life[t], sets, excused)
BY DEF Inv, TypePart, RecordsPart

(* A record without an effect has no share.                                *)
LEMMA IdleShare ==
  ASSUME NEW c, c.effect = 0, NEW s
  PROVE  Share(c, s) = 0
BY DEF Share

(* A call that is answered and changes nothing else.                       *)
LEMMA JustAnswered ==
  ASSUME Inv, NEW t \in Tracees, Ready(t), NEW st \in Int, Answer(t, config[t], st),
         UNCHANGED <<sets, num_sets, life, told, excused, failed>>
  PROVE  Inv'
<1> DEFINE D(b) == Tidy([config[t] EXCEPT !.wait = sysvipc_syscall_common(@, st, b)])
<1>1. PICK b \in BOOLEAN : config' = [config EXCEPT ![t] = D(b)]
  BY DEF Answer
<1>2. config[t] \in ConfigType /\ RecordOK(config[t], life[t], sets, excused)
  BY InvAt
<1>3. InUserCode(config[t].wait) /\ life[t] = "running"
  BY DEF Ready
<1>4. D(b) \in ConfigType /\ Idle(D(b)) /\ config[t].effect = 0
  BY <1>2, <1>3, AnswerOK
<1> DEFINE d == D(b)
<1>5. config' = [config EXCEPT ![t] = d] /\ d \in ConfigType /\ Idle(d)
  BY <1>1, <1>4
<1> HIDE DEF d, D
<1>6. RecordOK(d, life'[t], sets, excused)
  BY <1>3, <1>5, IdleOK
<1>7. \A s \in Slots : told'[s] + Share(d, s) = told[s] + Share(config[t], s)
  BY <1>4, <1>5, IdleShare DEF Idle
<1>8. told' \in [Slots -> Int] /\ life' \in [Tracees -> Lives]
  BY DEF Inv, TypePart
<1>9. OneChange(t, d)
  BY <1>5, <1>6, <1>7, <1>8 DEF OneChange
<1> QED BY <1>5, <1>9, OneRecord

(* The calls that are only answered.                                       *)
LEMMA SemOpRefusedOK ==
  ASSUME Inv, NEW t \in Tracees, SemOpRefused(t)
  PROVE  Inv'
<1>1. EINVAL \in Int
  BY DEF EINVAL
<1> QED BY <1>1, JustAnswered DEF SemOpRefused

LEMMA SemCtlOtherOK ==
  ASSUME Inv, NEW t \in Tracees, SemCtlOther(t)
  PROVE  Inv'
<1>1. EINVAL \in Int /\ 0 \in Int
  BY DEF EINVAL
<1>2. PICK st \in {0, EINVAL} : Answer(t, config[t], st)
  BY DEF SemCtlOther
<1>3. st \in Int
  BY <1>1, <1>2
<1> QED BY <1>2, <1>3, JustAnswered DEF SemCtlOther

(* A cancelled call comes back as a ppoll: the wait goes on.               *)
LEMMA ReenterPpollOK ==
  ASSUME Inv, NEW t \in Tracees, ReenterPpoll(t)
  PROVE  Inv'
<1> DEFINE c == config[t]
           w == EnterPpoll(c.wait)
           d == [c EXCEPT !.wait = w]
<1>1. c \in ConfigType /\ RecordOK(c, life[t], sets, excused) /\ life[t] = "running"
  BY InvAt DEF ReenterPpoll
<1>2. c.wait.wait_state = "RESTARTED_INTO_PPOLL" /\ c.wait \in WaitType
  BY <1>1 DEF ReenterPpoll, ConfigType
<1>3. config' = [config EXCEPT ![t] = d]
  <2>1. config \in [Tracees -> ConfigType]
    BY DEF Inv, TypePart
  <2> QED BY <2>1 DEF ReenterPpoll
<1>4. /\ w \in WaitType /\ w.wait_state = "ENTERED_PPOLL" /\ w.wait_reason = c.wait.wait_reason
      /\ w.status_after_wait = c.wait.status_after_wait
      /\ w.waiting_object_index = c.wait.waiting_object_index
  BY <1>2 DEF EnterPpoll, WaitType, WaitStates
<1> HIDE DEF w, c
<1>5. d \in ConfigType /\ d.wait = w /\ d.sops = c.sops /\ d.effect = c.effect
  BY <1>1, <1>4 DEF ConfigType
<1> HIDE DEF d
<1>6. c.effect = 0 /\ c.wait.wait_reason = "WR_WAIT_SEMOP"
  BY <1>1, <1>2 DEF RecordOK, SleeperOK, WaitCoherent, WaitType
<1>7. RecordOK(d, life'[t], sets, excused)
  BY <1>1, <1>2, <1>4, <1>5, <1>6 DEF RecordOK, SleeperOK, WaitCoherent, ReenterPpoll
<1>8. \A s \in Slots : told'[s] + Share(d, s) = told[s] + Share(config[t], s)
  BY <1>5, <1>6, IdleShare DEF ReenterPpoll, c
<1>9. told' \in [Slots -> Int] /\ life' \in [Tracees -> Lives]
  BY DEF Inv, TypePart, ReenterPpoll
<1>10. UNCHANGED <<sets, num_sets, excused, failed>> /\ \A u \in Tracees : life'[u] = life[u]
  BY DEF ReenterPpoll
<1>11. OneChange(t, d)
  BY <1>3, <1>5, <1>7, <1>8, <1>9, <1>10 DEF OneChange
<1> QED BY <1>5, <1>11, OneRecord

(* A signal or a timeout ends a wait: nothing was done, nothing is told.   *)
LEMMA PpollInterruptedOK ==
  ASSUME Inv, NEW t \in Tracees, PpollInterrupted(t)
  PROVE  Inv'
<1> DEFINE c == config[t]
           w == AbandonWait(c.wait)
           e == [c EXCEPT !.wait = w, !.sops = <<>>]
           d == Tidy(e)
<1>1. c \in ConfigType /\ RecordOK(c, life[t], sets, excused) /\ life[t] = "running"
  BY InvAt DEF PpollInterrupted
<1>2. c.wait.wait_state = "ENTERED_PPOLL" /\ c.wait \in WaitType
  BY <1>1 DEF PpollInterrupted, ConfigType
<1>3. c.effect = 0 /\ c.wait.wait_reason = "WR_WAIT_SEMOP"
  BY <1>1, <1>2 DEF RecordOK, SleeperOK, WaitCoherent, WaitType
<1>4. config' = [config EXCEPT ![t] = d]
  <2>1. config \in [Tracees -> ConfigType]
    BY DEF Inv, TypePart
  <2> QED BY <2>1 DEF PpollInterrupted
<1>5. w \in WaitType /\ w.wait_state = "NOT_WAITING" /\ w.wait_reason = "WR_NOT_WAITING"
  <2> DEFINE x == [c.wait EXCEPT !.wait_state = "NOT_WAITING"]
  <2>1. x \in WaitType /\ x.wait_state = "NOT_WAITING"
    BY <1>2 DEF WaitType, WaitStates
  <2>2. w = [x EXCEPT !.wait_reason = "WR_NOT_WAITING"]
    BY DEF AbandonWait
  <2> HIDE DEF x, w
  <2> QED BY <2>1, <2>2 DEF WaitType
<1> HIDE DEF w, c
<1>6. e \in ConfigType /\ e.wait = w /\ e.effect = 0
  <2> DEFINE x == [c EXCEPT !.wait = w]
  <2>1. x \in ConfigType /\ x.wait = w /\ x.effect = 0
    BY <1>1, <1>3, <1>5 DEF ConfigType
  <2>2. <<>> \in Seq(Sembuf)
    OBVIOUS
  <2>3. e = [x EXCEPT !.sops = <<>>]
    OBVIOUS
  <2> HIDE DEF x, e
  <2> QED BY <2>1, <2>2, <2>3 DEF ConfigType
<1> HIDE DEF e
<1>7. d \in ConfigType /\ Idle(d)
  BY <1>5, <1>6, TidyOK DEF Idle, WaitCoherent
<1> HIDE DEF d
<1>8. RecordOK(d, life'[t], sets, excused)
  <2>1. life'[t] # "freed"
    BY <1>1 DEF PpollInterrupted
  <2> QED BY <1>7, <2>1, IdleOK
<1>9. \A s \in Slots : told'[s] + Share(d, s) = told[s] + Share(config[t], s)
  BY <1>3, <1>7, IdleShare DEF PpollInterrupted, c, Idle
<1>10. told' \in [Slots -> Int] /\ life' \in [Tracees -> Lives]
  BY DEF Inv, TypePart, PpollInterrupted
<1>11. failed' = "none" /\ failed = "none"
  BY <1>3 DEF PpollInterrupted, c
<1>12. UNCHANGED <<sets, num_sets, excused>> /\ \A u \in Tracees : life'[u] = life[u]
  BY DEF PpollInterrupted
<1>13. OneChange(t, d)
  BY <1>4, <1>7, <1>8, <1>9, <1>10, <1>11, <1>12 DEF OneChange
<1> QED BY <1>7, <1>13, OneRecord

(* The call of a woken tracee ends: its effect is told, and no more due.   *)
LEMMA ParkedCallEndsOK ==
  ASSUME Inv, NEW t \in Tracees, ParkedCallEnds(t)
  PROVE  Inv'
<1> DEFINE c == config[t]
           o == c.wait.waiting_object_index
           w == EndWait(c.wait)
           e == [c EXCEPT !.wait = w]
           d == Tidy(e)
<1>1. c \in ConfigType /\ RecordOK(c, life[t], sets, excused) /\ life[t] = "running"
  BY InvAt DEF ParkedCallEnds
<1>2. /\ c.wait.wait_state \in {"RESTARTED_INTO_PPOLL_CANCELED", "SIGNALED_PPOLL", "ENTERED_GETPID"}
      /\ c.wait \in WaitType /\ c.effect \in Int /\ o \in Nat
  BY <1>1 DEF ParkedCallEnds, ConfigType, WaitType
<1>3. c.wait.wait_reason = "WR_NOT_WAITING"
  BY <1>1, <1>2 DEF RecordOK, WaitCoherent, WaitType
<1>4. config' = [config EXCEPT ![t] = d]
  <2>1. config \in [Tracees -> ConfigType]
    BY DEF Inv, TypePart
  <2> QED BY <2>1 DEF ParkedCallEnds
<1>5. w \in WaitType /\ w.wait_state = "NOT_WAITING" /\ w.wait_reason = "WR_NOT_WAITING"
  BY <1>2, <1>3 DEF WaitType, WaitStates, EndWait
<1>6. told' = IF c.wait.status_after_wait = 0 /\ o \in Slots
              THEN [told EXCEPT ![o] = @ + c.effect] ELSE told
  BY DEF ParkedCallEnds
<1>7. failed' = "none" /\ failed = "none"
  BY <1>3 DEF ParkedCallEnds
<1>8. c.effect # 0 => o \in Slots /\ c.wait.status_after_wait = 0
  BY <1>1 DEF RecordOK, DoneOK
<1>9. told \in [Slots -> Int]
  BY DEF Inv, TypePart
<1> HIDE DEF w, o
<1>10. e \in ConfigType /\ e.wait = w
  BY <1>1, <1>5 DEF ConfigType
<1> HIDE DEF e
<1>11. d \in ConfigType /\ Idle(d)
  BY <1>5, <1>10, TidyOK DEF Idle, WaitCoherent
<1> HIDE DEF d
<1>12. RecordOK(d, life'[t], sets, excused)
  <2>1. life'[t] # "freed"
    BY <1>1 DEF ParkedCallEnds
  <2> QED BY <1>11, <2>1, IdleOK
<1>13. told' \in [Slots -> Int]
  <2>1. \A s \in Slots : told[s] + c.effect \in Int
    BY <1>2, <1>9
  <2> QED BY <1>6, <1>9, <2>1
<1>14. ASSUME NEW s \in Slots PROVE told'[s] + Share(d, s) = told[s] + Share(config[t], s)
  <2>1. Share(d, s) = 0 /\ told[s] \in Int /\ told'[s] \in Int
    BY <1>9, <1>11, <1>13, IdleShare DEF Idle
  <2>2. Share(config[t], s) = IF o = s THEN c.effect ELSE 0
    BY DEF Share, o
  <2>3. told'[s] = told[s] + (IF o = s THEN c.effect ELSE 0)
    <3>1. CASE o = s /\ c.effect # 0
      BY <1>6, <1>8, <1>9, <3>1
    <3>2. CASE o = s /\ c.effect = 0
      BY <1>6, <1>9, <2>1, <3>2
    <3>3. CASE o # s
      BY <1>6, <1>9, <2>1, <3>3
    <3> QED BY <3>1, <3>2, <3>3
  <2> QED BY <1>2, <2>1, <2>2, <2>3
<1>15. UNCHANGED <<sets, num_sets, excused, life>> /\ life' \in [Tracees -> Lives]
  BY DEF ParkedCallEnds, Inv, TypePart
<1>16. \A u \in Tracees : life'[u] = life[u]
  BY <1>15
<1> HIDE DEF c
<1>17. OneChange(t, d)
  BY <1>4, <1>7, <1>11, <1>12, <1>13, <1>14, <1>15, <1>16 DEF OneChange
<1> QED BY <1>11, <1>17, OneRecord

(* A killed tracee's record stays, and may still be woken.                 *)
LEMMA KillOK ==
  ASSUME Inv, NEW t \in Tracees, Kill(t)
  PROVE  Inv'
<1>1. life \in [Tracees -> Lives] /\ life' = [life EXCEPT ![t] = "killed"]
  BY DEF Inv, TypePart, Kill
<1>2. UNCHANGED <<sets, num_sets, config, told, excused, failed>>
  BY DEF Kill
<1>3. TypePart'
  BY <1>1, <1>2 DEF Inv, TypePart, Lives
<1>4. SlotsPart'
  BY <1>2 DEF Inv, SlotsPart
<1>5. RecordsPart'
  <2> SUFFICES ASSUME NEW u \in Tracees PROVE RecordOK(config[u], life'[u], sets, excused)
    BY <1>2 DEF RecordsPart
  <2>1. RecordOK(config[u], life[u], sets, excused)
    BY InvAt
  <2>2. life'[u] = "freed" => life[u] = "freed"
    BY <1>1
  <2> QED BY <2>1, <2>2 DEF RecordOK
<1>6. SumsPart'
  BY <1>2 DEF Inv, SumsPart
<1> QED BY <1>3, <1>4, <1>5, <1>6 DEF Inv

(* A freed tracee's effect stays done and leaves the account as told.      *)
LEMMA ReapOK ==
  ASSUME Inv, NEW t \in Tracees, Reap(t)
  PROVE  Inv'
<1> DEFINE c == config[t]
           o == c.wait.waiting_object_index
<1>1. c \in ConfigType /\ RecordOK(c, life[t], sets, excused)
  BY InvAt
<1>2. c.effect \in Int /\ o \in Nat
  BY <1>1 DEF ConfigType, WaitType
<1>3. config' = [config EXCEPT ![t] = InitConfig] /\ life' = [life EXCEPT ![t] = "freed"]
  BY DEF Reap
<1>4. told' = IF o \in Slots THEN [told EXCEPT ![o] = @ + c.effect] ELSE told
  BY DEF Reap
<1>5. c.effect # 0 => o \in Slots
  BY <1>1 DEF RecordOK
<1>6. told \in [Slots -> Int] /\ life \in [Tracees -> Lives]
  BY DEF Inv, TypePart
<1>7. InitConfig \in ConfigType /\ Idle(InitConfig)
  BY InitConfigOK
<1>8. RecordOK(InitConfig, "freed", sets, excused)
  BY <1>7 DEF RecordOK, Idle
<1> HIDE DEF o
<1>9. told' \in [Slots -> Int]
  <2>1. \A s \in Slots : told[s] + c.effect \in Int
    BY <1>2, <1>6
  <2> QED BY <1>4, <1>6, <2>1
<1>10. ASSUME NEW s \in Slots
       PROVE  told'[s] + Share(InitConfig, s) = told[s] + Share(config[t], s)
  <2>1. Share(InitConfig, s) = 0 /\ told[s] \in Int /\ told'[s] \in Int
    BY <1>6, <1>7, <1>9, IdleShare DEF Idle
  <2>2. Share(config[t], s) = IF o = s THEN c.effect ELSE 0
    BY DEF Share, o
  <2>3. told'[s] = told[s] + (IF o = s THEN c.effect ELSE 0)
    <3>1. CASE o = s
      BY <1>4, <1>6, <3>1
    <3>2. CASE o # s
      BY <1>4, <1>6, <2>1, <3>2
    <3> QED BY <3>1, <3>2
  <2> QED BY <1>2, <2>1, <2>2, <2>3
<1>11. UNCHANGED <<sets, num_sets, excused, failed>>
  BY DEF Reap
<1>12. life'[t] = "freed" /\ life' \in [Tracees -> Lives]
       /\ \A u \in Tracees : u # t => life'[u] = life[u]
  BY <1>3, <1>6 DEF Lives
<1>13. OneChange(t, InitConfig)
  BY <1>3, <1>7, <1>8, <1>9, <1>10, <1>11, <1>12 DEF OneChange
<1> QED BY <1>7, <1>13, OneRecord

-----------------------------------------------------------------------------
(* The loops of semget stop at the first match.                            *)
LEMMA LeastInSet ==
  ASSUME NEW S \in SUBSET Nat, S # {}
  PROVE  Least(S) \in S
<1> DEFINE Less == {ss \in Nat \X Nat : ss[1] < ss[2]}
<1>1. IsWellFoundedOn(Less, Nat)
  BY NatLessThanWellFounded DEF OpToRel
<1>2. PICK x \in S : \A y \in S : ~(<<y, x>> \in Less)
  <2> HIDE DEF Less
  <2> QED BY <1>1, WFMin
<1>3. ASSUME NEW y \in S PROVE x <= y
  <2>1. x \in Nat /\ y \in Nat
    OBVIOUS
  <2>2. y < x => <<y, x>> \in Less
    BY <2>1
  <2> QED BY <1>2, <2>1, <2>2
<1> QED BY <1>2, <1>3 DEF Least

(* Nobody has anything to do with a slot that is not in use.               *)
LEMMA UnusedSlot ==
  ASSUME Inv, NEW s \in Slots, ~sets[s].valid, NEW u \in Tracees
  PROVE  /\ Share(config[u], s) = 0
         /\ config[u].wait.wait_reason = "WR_WAIT_SEMOP" => config[u].wait.waiting_object_index # s
         /\ config[u].effect # 0 => config[u].wait.waiting_object_index # s
<1>1. RecordOK(config[u], life[u], sets, excused)
  BY InvAt
<1>2. config[u].effect # 0 => config[u].wait.waiting_object_index # s
  BY <1>1 DEF RecordOK, DoneOK
<1>3. config[u].wait.wait_reason = "WR_WAIT_SEMOP" => config[u].wait.waiting_object_index # s
  BY <1>1 DEF RecordOK, SleeperOK
<1>4. Share(config[u], s) = 0
  BY <1>2 DEF Share
<1> QED BY <1>2, <1>3, <1>4

(* A record is still in order when only a slot that is not its own changed.*)
LEMMA OtherSlot ==
  ASSUME NEW c, NEW l, NEW ss, NEW ex, NEW ss2, NEW ex2, RecordOK(c, l, ss, ex), NEW s,
         \A x \in Slots : x # s => ss2[x] = ss[x] /\ ex2[x] = ex[x],
         (c.wait.wait_reason = "WR_WAIT_SEMOP" \/ c.effect # 0) => c.wait.waiting_object_index # s
  PROVE  RecordOK(c, l, ss2, ex2)
BY DEF RecordOK

(* Nobody has a share: the sum is zero.                                    *)
LEMMA SharesZero ==
  ASSUME NEW cfg, NEW s, \A u \in Tracees : Share(cfg[u], s) = 0
  PROVE  Shares(cfg, s) = 0
<1> DEFINE f == [u \in Tracees |-> Share(cfg[u], s)]
<1>1. \A i \in 1 .. NumTracees : f[i] = 0
  BY DEF Tracees
<1>2. NumTracees \in Nat
  BY SemAssumption
<1> HIDE DEF f
<1>3. Sum(f, NumTracees) = 0
  BY <1>1, <1>2, SumZero
<1> QED BY <1>3 DEF f, Shares

(* The same across a step.                                                 *)
LEMMA OtherSlotNext ==
  ASSUME NEW u \in Tracees, RecordOK(config[u], life[u], sets, excused), NEW s,
         \A x \in Slots : x # s => sets'[x] = sets[x] /\ excused'[x] = excused[x],
         (config[u].wait.wait_reason = "WR_WAIT_SEMOP" \/ config[u].effect # 0)
            => config[u].wait.waiting_object_index # s
  PROVE  RecordOK(config[u], life[u], sets', excused')
<1> DEFINE c == config[u]
           l == life[u]
           ss2 == sets'
           ex2 == excused'
<1>1. /\ RecordOK(c, l, sets, excused)
      /\ \A x \in Slots : x # s => ss2[x] = sets[x] /\ ex2[x] = excused[x]
      /\ (c.wait.wait_reason = "WR_WAIT_SEMOP" \/ c.effect # 0) => c.wait.waiting_object_index # s
  OBVIOUS
<1> HIDE DEF c, l, ss2, ex2
<1>2. RecordOK(c, l, ss2, ex2)
  BY <1>1, OtherSlot
<1> QED BY <1>2 DEF c, l, ss2, ex2

(* semget creates a set: in a slot nobody has anything to do with.         *)
LEMMA CreateOK ==
  ASSUME Inv, NEW t \in Tracees, Ready(t), NEW s \in Slots, ~sets[s].valid,
         NEW key \in Keys, NEW n \in Nat, Answer(t, config[t], s),
         num_sets' = IF s > num_sets THEN s ELSE num_sets,
         sets' = [sets EXCEPT ![s] = [@ EXCEPT !.key = key, !.valid = TRUE,
                                               !.sems = [i \in 1 .. n |-> 0]]],
         told' = [told EXCEPT ![s] = 0], excused' = [excused EXCEPT ![s] = FALSE],
         UNCHANGED <<life, failed>>
  PROVE  Inv'
<1> DEFINE D(b) == Tidy([config[t] EXCEPT !.wait = sysvipc_syscall_common(@, s, b)])
           zeros == [i \in 1 .. n |-> 0]
<1>1. TypePart /\ SlotsPart /\ RecordsPart /\ SumsPart
  BY DEF Inv
<1>2. /\ sets \in [Slots -> SetType] /\ num_sets \in 0 .. MaxSets
      /\ config \in [Tracees -> ConfigType] /\ told \in [Slots -> Int]
      /\ excused \in [Slots -> BOOLEAN] /\ s \in 1 .. MaxSets /\ MaxSets \in Nat
  BY <1>1, SemAssumption DEF TypePart, Slots
<1>3. PICK b \in BOOLEAN : config' = [config EXCEPT ![t] = D(b)]
  BY DEF Answer
<1>4. config[t] \in ConfigType /\ RecordOK(config[t], life[t], sets, excused)
  BY InvAt
<1>5. InUserCode(config[t].wait) /\ life[t] = "running"
  BY DEF Ready
<1>6. D(b) \in ConfigType /\ Idle(D(b)) /\ config[t].effect = 0
  <2>1. s \in Int
    BY <1>2
  <2> QED BY <1>4, <1>5, <2>1, AnswerOK
<1> DEFINE d == D(b)
<1>7. config' = [config EXCEPT ![t] = d] /\ d \in ConfigType /\ Idle(d)
  BY <1>3, <1>6
<1> HIDE DEF d, D
<1>8. config'[t] = d /\ \A u \in Tracees : u # t => config'[u] = config[u]
  BY <1>2, <1>7
<1>9. zeros \in Vec(n)
  BY SemAssumption DEF Vec, Values
<1>10. zeros \in Seq(Values) /\ Len(zeros) = n
  <2> HIDE DEF zeros
  <2> QED BY <1>9, VecSeq
<1>11. /\ sets'[s].valid /\ sets'[s].sems = zeros /\ sets'[s] \in SetType
       /\ \A x \in Slots : x # s => sets'[x] = sets[x]
       /\ sets' \in [Slots -> SetType]
  <2> DEFINE new == [sets[s] EXCEPT !.key = key, !.valid = TRUE, !.sems = zeros]
  <2>1. sets[s] \in SetType /\ sets' = [sets EXCEPT ![s] = new]
    BY <1>2
  <2> HIDE DEF zeros
  <2> DEFINE x == [sets[s] EXCEPT !.key = key]
             y == [x EXCEPT !.valid = TRUE]
  <2>2. x \in SetType
    BY <2>1 DEF SetType
  <2>3. new = [y EXCEPT !.sems = zeros]
    OBVIOUS
  <2> HIDE DEF x, new
  <2>4. y \in SetType /\ y.valid
    BY <2>2 DEF SetType
  <2> HIDE DEF y
  <2>5. new \in SetType /\ new.valid /\ new.sems = zeros
    BY <2>3, <2>4, <1>10 DEF SetType
  <2> QED BY <1>2, <2>1, <2>5
<1>12. num_sets' \in 0 .. MaxSets
  BY <1>2
<1>13. TypePart'
  <2>1. config' \in [Tracees -> ConfigType]
    BY <1>2, <1>7
  <2>2. told' \in [Slots -> Int] /\ excused' \in [Slots -> BOOLEAN]
    BY <1>2
  <2> QED BY <1>1, <1>11, <1>12, <2>1, <2>2 DEF TypePart
<1>14. SlotsPart'
  <2> SUFFICES ASSUME NEW x \in Slots, x > num_sets' PROVE ~sets'[x].valid
    BY DEF SlotsPart
  <2>1. x # s /\ x > num_sets
    BY <1>2 DEF Slots
  <2> QED BY <1>1, <1>11, <2>1 DEF SlotsPart
<1>15. RecordsPart'
  <2> SUFFICES ASSUME NEW u \in Tracees PROVE RecordOK(config'[u], life[u], sets', excused')
    BY DEF RecordsPart
  <2>1. CASE u = t
    BY <1>5, <1>7, <1>8, <2>1, IdleOK
  <2>2. CASE u # t
    <3>1. RecordOK(config[u], life[u], sets, excused) /\ config'[u] = config[u]
      BY <1>8, <2>2, InvAt
    <3>2. \A x \in Slots : x # s => sets'[x] = sets[x] /\ excused'[x] = excused[x]
      BY <1>2, <1>11
    <3>3. (config[u].wait.wait_reason = "WR_WAIT_SEMOP" \/ config[u].effect # 0)
            => config[u].wait.waiting_object_index # s
      BY UnusedSlot
    <3>4. RecordOK(config[u], life[u], sets', excused')
      BY <3>1, <3>2, <3>3, OtherSlotNext
    <3> QED BY <3>1, <3>4
  <2> QED BY <2>1, <2>2
<1>16. SumsPart'
  <2> SUFFICES ASSUME NEW x \in Slots, sets'[x].valid
               PROVE  Total(sets'[x].sems) = told'[x] + Shares(config', x)
    BY DEF SumsPart
  <2>1. CASE x = s
    <3>1. \A u \in Tracees : Share(config'[u], s) = 0
      BY <1>7, <1>8, UnusedSlot, IdleShare DEF Idle
    <3>2. Shares(config', s) = 0
      BY <3>1, SharesZero
    <3>3. told'[s] = 0
      BY <1>2
    <3>4. Sum(zeros, n) = 0
      <4>1. \A i \in 1 .. n : zeros[i] = 0
        OBVIOUS
      <4> HIDE DEF zeros
      <4> QED BY <4>1, SumZero
    <3> QED BY <1>10, <1>11, <2>1, <3>2, <3>3, <3>4 DEF Total
  <2>2. CASE x # s
    <3>1. sets'[x] = sets[x] /\ told'[x] = told[x]
      BY <1>2, <1>11, <2>2
    <3>2. Shares(config', x) = Shares(config, x) + Share(d, x) - Share(config[t], x)
      BY <1>2, <1>7, SharesUpdate
    <3>3. Share(d, x) = 0 /\ Share(config[t], x) = 0
      BY <1>6, <1>7, IdleShare DEF Idle
    <3>4. Shares(config, x) \in Int
      BY <1>2, SharesInt
    <3>5. Shares(config', x) = Shares(config, x)
      BY <3>2, <3>3, <3>4
    <3> QED BY <1>1, <3>1, <3>5 DEF SumsPart
  <2> QED BY <2>1, <2>2
<1> QED BY <1>13, <1>14, <1>15, <1>16 DEF Inv

(* sysvipc_semget: an answer, or a new set.                                *)
LEMMA SemGetOK ==
  ASSUME Inv, NEW t \in Tracees, NEW key \in Keys, NEW n \in SetSizes,
         NEW creat \in BOOLEAN, NEW excl \in BOOLEAN, SemGet(t, key, n, creat, excl)
  PROVE  Inv'
<1>1. Ready(t) /\ UNCHANGED <<life, failed>>
  BY DEF SemGet
<1>2. /\ num_sets \in 0 .. MaxSets /\ MaxSets \in Nat
      /\ Matching(key) \subseteq 1 .. num_sets /\ Unused \subseteq 1 .. num_sets
  BY SemAssumption DEF Inv, TypePart, Matching, Unused
<1>3. n \in Nat
  BY SemAssumption
<1>4. EEXIST \in Int /\ EINVAL \in Int /\ ENOENT \in Int
  BY DEF EEXIST, EINVAL, ENOENT
<1>5. CASE Matching(key) # {}
  <2> DEFINE s == Least(Matching(key))
             st == IF creat /\ excl THEN EEXIST
                   ELSE IF Len(sets[s].sems) < n THEN EINVAL ELSE s
  <2>1. s \in 1 .. num_sets
    <3>1. Matching(key) \in SUBSET Nat
      BY <1>2
    <3>2. Least(Matching(key)) \in Matching(key)
      BY <1>5, <3>1, LeastInSet
    <3> QED BY <1>2, <3>2
  <2>2. st \in Int
    <3> HIDE DEF s
    <3> QED BY <1>2, <1>4, <2>1
  <2>3. Answer(t, config[t], st) /\ UNCHANGED <<sets, num_sets, told, excused>>
    BY <1>5 DEF SemGet
  <2> HIDE DEF st
  <2> QED BY <1>1, <2>2, <2>3, JustAnswered
<1>6. CASE Matching(key) = {} /\ (~creat \/ (Unused = {} /\ num_sets >= MaxSets))
  <2>1. Answer(t, config[t], ENOENT) /\ UNCHANGED <<sets, num_sets, told, excused>>
    BY <1>6 DEF SemGet
  <2> QED BY <1>1, <1>4, <2>1, JustAnswered
<1>7. CASE Matching(key) = {} /\ ~(~creat \/ (Unused = {} /\ num_sets >= MaxSets))
  <2> DEFINE s == IF Unused # {} THEN Least(Unused) ELSE num_sets + 1
  <2>1. /\ num_sets' = IF s > num_sets THEN s ELSE num_sets
        /\ sets' = [sets EXCEPT ![s] = [@ EXCEPT !.key = key, !.valid = TRUE,
                                                 !.sems = [i \in 1 .. n |-> 0]]]
        /\ told' = [told EXCEPT ![s] = 0]
        /\ excused' = [excused EXCEPT ![s] = FALSE]
        /\ Answer(t, config[t], s)
    BY <1>7 DEF SemGet
  <2>2. s \in Slots /\ ~sets[s].valid
    <3>1. CASE Unused # {}
      <4>1. Unused \in SUBSET Nat
        BY <1>2
      <4>2. Least(Unused) \in Unused
        BY <3>1, <4>1, LeastInSet
      <4>3. s = Least(Unused)
        BY <3>1
      <4>4. s \in 1 .. num_sets /\ ~sets[s].valid
        BY <4>2, <4>3 DEF Unused
      <4>5. 1 .. num_sets \subseteq Slots
        BY <1>2 DEF Slots
      <4> QED BY <4>4, <4>5
    <3>2. CASE Unused = {}
      <4>1. s = num_sets + 1
        BY <3>2
      <4>2. s \in Slots /\ s > num_sets
        BY <1>2, <1>7, <3>2, <4>1 DEF Slots
      <4> QED BY <4>2 DEF Inv, SlotsPart
    <3> QED BY <3>1, <3>2
  <2> HIDE DEF s
  <2> QED BY <1>1, <1>3, <2>1, <2>2, CreateOK
<1> QED BY <1>5, <1>6, <1>7

-----------------------------------------------------------------------------
(* Whoever has a reason to wait is found by the walk over the tracees.     *)
LEMMA SleepersAre ==
  ASSUME Inv, NEW u \in Tracees, NEW s
  PROVE  u \in Sleepers(s) <=> /\ config[u].wait.wait_reason = "WR_WAIT_SEMOP"
                               /\ config[u].wait.waiting_object_index = s
<1>1. RecordOK(config[u], life[u], sets, excused)
  BY InvAt
<1>2. config[u].wait.wait_reason = "WR_WAIT_SEMOP" => life[u] # "freed"
  BY <1>1 DEF RecordOK, InitConfig, InitWait
<1> QED BY <1>2 DEF Sleepers, WaitingOn, InList

(* SETVAL: the difference is told, and waiters make the set excused.       *)
LEMMA SemSetValOK ==
  ASSUME Inv, NEW t \in Tracees, NEW id \in Ids, NEW num \in 1 .. MaxSize, NEW val \in SetVals,
         SemSetVal(t, id, num, val)
  PROVE  Inv'
<1> DEFINE s == id[1]
           q == sets[s].sems
           D(b) == Tidy([config[t] EXCEPT !.wait = sysvipc_syscall_common(@, 0, b)])
<1>1. Ready(t) /\ UNCHANGED <<num_sets, life, failed>> /\ sets[s].valid
  BY DEF SemSetVal, LookupOk
<1>2. TypePart /\ SlotsPart /\ RecordsPart /\ SumsPart
  BY DEF Inv
<1>3. /\ sets \in [Slots -> SetType] /\ config \in [Tracees -> ConfigType]
      /\ told \in [Slots -> Int] /\ excused \in [Slots -> BOOLEAN]
  BY <1>2 DEF TypePart
<1>4. s \in Slots /\ num \in Int /\ 1 <= num /\ val \in Nat
  BY SemAssumption DEF Ids
<1>5. sets[s] \in SetType /\ q \in Seq(Values) /\ q \in Vec(Len(q)) /\ Len(q) \in Nat
  <2>1. sets[s] \in SetType /\ q \in Seq(Values)
    BY <1>3, <1>4 DEF SetType
  <2> QED BY <2>1, SeqVec
<1>6. CASE val > MaxVal \/ num > Len(q)
  <2>1. Answer(t, config[t], ERANGE) /\ UNCHANGED <<sets, told, excused>>
    BY <1>6 DEF SemSetVal
  <2>2. ERANGE \in Int
    BY DEF ERANGE
  <2> QED BY <1>1, <2>1, <2>2, JustAnswered
<1>7. CASE ~(val > MaxVal \/ num > Len(q))
  <2> DEFINE m == Len(q)
             new == [q EXCEPT ![num] = val]
  <2>1. /\ Answer(t, config[t], 0)
        /\ sets' = [sets EXCEPT ![s].sems[num] = val]
        /\ told' = [told EXCEPT ![s] = @ + val - q[num]]
        /\ excused' = [excused EXCEPT ![s] = @ \/ Sleepers(s) # {}]
    BY <1>7 DEF SemSetVal
  <2>2. num \in 1 .. m /\ val \in Values
    BY <1>4, <1>5, <1>7, SemAssumption DEF Values
  <2>3. new \in Vec(m) /\ new[num] = val /\ \A i \in 1 .. m : i # num => new[i] = q[i]
    <3> HIDE DEF q
    <3> QED BY <1>5, <2>2 DEF Vec
  <2>4. new \in Seq(Values) /\ Len(new) = m
    <3> HIDE DEF new, m
    <3> QED BY <1>5, <2>3, VecSeq DEF m
  <2>5. sets' = [sets EXCEPT ![s] = [sets[s] EXCEPT !.sems = new]]
    BY <1>3, <1>4, <2>1
  <2> DEFINE set == [sets[s] EXCEPT !.sems = new]
  <2>6. set \in SetType /\ set.valid /\ set.sems = new
    <3> HIDE DEF new
    <3> QED BY <1>1, <1>5, <2>4 DEF SetType
  <2> HIDE DEF set, new
  <2>7. /\ sets' = [sets EXCEPT ![s] = set] /\ sets'[s] = set
        /\ \A x \in Slots : x # s => sets'[x] = sets[x]
        /\ sets' \in [Slots -> SetType]
    <3>1. sets' = [sets EXCEPT ![s] = set]
      BY <2>5 DEF set
    <3> HIDE DEF s
    <3> QED BY <1>3, <1>4, <2>6, <3>1
  <2>8. PICK b \in BOOLEAN : config' = [config EXCEPT ![t] = D(b)]
    BY <2>1 DEF Answer
  <2>9. InUserCode(config[t].wait) /\ life[t] = "running"
    BY <1>1 DEF Ready
  <2>10. D(b) \in ConfigType /\ Idle(D(b)) /\ config[t].effect = 0
    <3>1. config[t] \in ConfigType /\ RecordOK(config[t], life[t], sets, excused) /\ 0 \in Int
      BY InvAt
    <3> QED BY <2>9, <3>1, AnswerOK
  <2> DEFINE d == D(b)
  <2>11. config' = [config EXCEPT ![t] = d] /\ d \in ConfigType /\ Idle(d)
    BY <2>8, <2>10
  <2> HIDE DEF d, D
  <2>12. config'[t] = d /\ \A u \in Tracees : u # t => config'[u] = config[u]
    BY <1>3, <2>11
  <2>13. q[num] \in Int /\ \A i \in 1 .. m : q[i] \in Int
    <3> HIDE DEF q
    <3> QED BY <1>5, <2>2, VecValue
  <2>14. told' \in [Slots -> Int] /\ told'[s] = told[s] + val - q[num]
         /\ \A x \in Slots : x # s => told'[x] = told[x]
    <3> DEFINE v == told[s] + val - q[num]
    <3>1. v \in Int
      BY <1>3, <1>4, <2>13
    <3>2. told' = [told EXCEPT ![s] = v]
      BY <2>1
    <3> HIDE DEF v, s
    <3>3. told' \in [Slots -> Int] /\ told'[s] = v /\ \A x \in Slots : x # s => told'[x] = told[x]
      BY <1>3, <1>4, <3>1, <3>2
    <3> QED BY <3>3 DEF v
  <2>15. excused' \in [Slots -> BOOLEAN] /\ (Sleepers(s) # {} => excused'[s])
         /\ \A x \in Slots : x # s => excused'[x] = excused[x]
    <3> HIDE DEF s
    <3> QED BY <1>3, <1>4, <2>1
  <2>16. TypePart'
    <3>1. config' \in [Tracees -> ConfigType]
      BY <1>3, <2>11
    <3> QED BY <1>1, <1>2, <2>7, <2>14, <2>15, <3>1 DEF TypePart
  <2>17. SlotsPart'
    <3> SUFFICES ASSUME NEW x \in Slots, x > num_sets PROVE ~sets'[x].valid
      BY <1>1 DEF SlotsPart
    <3>1. ~sets[x].valid /\ x # s
      BY <1>1, <1>2 DEF SlotsPart
    <3> QED BY <2>7, <3>1
  <2>18. RecordsPart'
    <3> SUFFICES ASSUME NEW u \in Tracees PROVE RecordOK(config'[u], life[u], sets', excused')
      BY <1>1 DEF RecordsPart
    <3>1. CASE u = t
      BY <2>9, <2>11, <2>12, <3>1, IdleOK
    <3>2. CASE u # t
      <4> DEFINE c == config[u]
                 o == c.wait.waiting_object_index
      <4>1. RecordOK(c, life[u], sets, excused) /\ config'[u] = c
        BY <2>12, <3>2, InvAt
      <4>2. CASE o # s
        <5>1. /\ \A x \in Slots : x # s => sets'[x] = sets[x] /\ excused'[x] = excused[x]
              /\ RecordOK(config[u], life[u], sets, excused)
              /\ config[u].wait.waiting_object_index # s
          BY <2>7, <2>15, <4>1, <4>2
        <5> HIDE DEF s, c
        <5>2. RecordOK(config[u], life[u], sets', excused')
          BY <5>1, OtherSlotNext
        <5> QED BY <4>1, <5>2 DEF c
      <4>3. CASE o = s
        <5>1. WaitCoherent(c.wait) /\ (life[u] = "freed" => c = InitConfig)
          BY <4>1 DEF RecordOK
        <5>2. c.effect # 0 => o \in Slots /\ DoneOK(c, sets'[o])
          BY <2>6, <2>7, <4>1, <4>3 DEF RecordOK, DoneOK
        <5>3. ASSUME c.wait.wait_reason = "WR_WAIT_SEMOP"
              PROVE  o \in Slots /\ SleeperOK(c, sets'[o], excused'[o])
          <6>1. u \in Sleepers(s)
            BY <4>3, <5>3, SleepersAre
          <6>2. excused'[s]
            BY <2>15, <6>1
          <6>3. c.effect = 0 /\ Fits(c.sops, q)
            BY <4>1, <4>3, <5>3 DEF RecordOK, SleeperOK
          <6>4. Fits(c.sops, new)
            BY <2>4, <6>3 DEF Fits
          <6>5. SleeperOK(c, set, excused'[s])
            BY <2>6, <6>2, <6>3, <6>4 DEF SleeperOK
          <6> QED BY <1>4, <2>7, <4>3, <6>5
        <5>4. RecordOK(c, life[u], sets', excused')
          BY <5>1, <5>2, <5>3 DEF RecordOK
        <5> QED BY <4>1, <5>4
      <4> QED BY <4>2, <4>3
    <3> QED BY <3>1, <3>2
  <2>19. SumsPart'
    <3> SUFFICES ASSUME NEW x \in Slots, sets'[x].valid
                 PROVE  Total(sets'[x].sems) = told'[x] + Shares(config', x)
      BY DEF SumsPart
    <3>1. Shares(config', x) = Shares(config, x) /\ Shares(config, x) \in Int
      <4>1. Shares(config', x) = Shares(config, x) + Share(d, x) - Share(config[t], x)
        BY <1>3, <2>11, SharesUpdate
      <4>2. Share(d, x) = 0 /\ Share(config[t], x) = 0
        BY <2>10, <2>11, IdleShare DEF Idle
      <4>3. Shares(config, x) \in Int
        BY <1>3, SharesInt
      <4> QED BY <4>1, <4>2, <4>3
    <3>2. CASE x # s
      <4>1. sets'[x] = sets[x] /\ told'[x] = told[x]
        BY <2>7, <2>14, <3>2
      <4> QED BY <1>2, <3>1, <4>1 DEF SumsPart
    <3>3. CASE x = s
      <4>1. Sum(q, m) = told[s] + Shares(config, s)
        BY <1>1, <1>2, <1>4 DEF SumsPart, Total
      <4>2. Sum(new, m) = Sum(q, m) + new[num] - q[num]
        <5>1. new[num] \in Int
          BY <1>4, <2>3
        <5> HIDE DEF q, m
        <5> QED BY <1>5, <2>2, <2>3, <2>13, <5>1, SumUpdate DEF m
      <4>3. Total(sets'[s].sems) = Sum(new, m)
        BY <2>4, <2>6, <2>7 DEF Total
      <4>4. told[s] \in Int
        BY <1>3, <1>4
      <4>5. \A a, z, v, w \in Int : (a + z) + v - w = (a + v - w) + z
        OBVIOUS
      <4>6. Sum(new, m) = (told[s] + val - q[num]) + Shares(config, s)
        BY <1>4, <2>3, <2>13, <3>1, <3>3, <4>1, <4>2, <4>4, <4>5
      <4> QED BY <2>14, <3>1, <3>3, <4>3, <4>6
    <3> QED BY <3>2, <3>3
  <2> QED BY <2>16, <2>17, <2>18, <2>19 DEF Inv
<1> QED BY <1>6, <1>7

(* IPC_RMID: everyone who waits on the set is woken, and the set is gone.  *)
LEMMA WakeOK ==
  ASSUME NEW c \in ConfigType, WaitCoherent(c.wait), c.wait.wait_reason = "WR_WAIT_SEMOP",
         NEW st \in Int
  PROVE  LET w == sysvipc_wake_tracee(c.wait, st) IN
         /\ CanWake(c.wait) /\ w \in WaitType /\ w.wait_reason = "WR_NOT_WAITING"
         /\ w.wait_state \in {"SIGNALED_PPOLL", "RESTARTED_INTO_PPOLL_CANCELED"}
         /\ w.status_after_wait = st /\ w.waiting_object_index = c.wait.waiting_object_index
<1> DEFINE v == c.wait
           x == [v EXCEPT !.wait_reason = "WR_NOT_WAITING"]
           y == [x EXCEPT !.status_after_wait = st]
           z == IF v.wait_state = "ENTERED_PPOLL" THEN "SIGNALED_PPOLL"
                ELSE "RESTARTED_INTO_PPOLL_CANCELED"
           w == [y EXCEPT !.wait_state = z]
<1>1. v \in WaitType /\ CanWake(v)
  BY DEF ConfigType, CanWake, WaitCoherent
<1>2. sysvipc_wake_tracee(c.wait, st) = w
  BY DEF sysvipc_wake_tracee
<1> HIDE DEF v
<1>3. x \in WaitType /\ x.wait_reason = "WR_NOT_WAITING" /\ x.waiting_object_index = v.waiting_object_index
  BY <1>1 DEF WaitType
<1> HIDE DEF x
<1>4. /\ y \in WaitType /\ y.wait_reason = "WR_NOT_WAITING" /\ y.status_after_wait = st
      /\ y.waiting_object_index = v.waiting_object_index
  BY <1>3 DEF WaitType
<1>5. z \in {"SIGNALED_PPOLL", "RESTARTED_INTO_PPOLL_CANCELED"} /\ z \in WaitStates
  BY DEF WaitStates
<1> HIDE DEF y, z
<1>6. /\ w \in WaitType /\ w.wait_reason = "WR_NOT_WAITING" /\ w.status_after_wait = st
      /\ w.waiting_object_index = v.waiting_object_index /\ w.wait_state = z
  BY <1>4, <1>5 DEF WaitType
<1> HIDE DEF w
<1> QED BY <1>1, <1>2, <1>5, <1>6 DEF v

(* IPC_RMID: every record on the set is idle after it.                     *)
LEMMA SemRmidOK ==
  ASSUME Inv, NEW t \in Tracees, NEW id \in Ids, SemRmid(t, id)
  PROVE  Inv'
<1> DEFINE s == id[1]
           C(u) == config'[u]
<1>1. TypePart /\ SlotsPart /\ RecordsPart /\ SumsPart
  BY DEF Inv
<1>2. /\ sets \in [Slots -> SetType] /\ config \in [Tracees -> ConfigType]
      /\ told \in [Slots -> Int] /\ excused \in [Slots -> BOOLEAN]
  BY <1>1 DEF TypePart
<1>3. Ready(t) /\ sets[s].valid /\ UNCHANGED <<num_sets, life>> /\ s \in Slots
  BY DEF SemRmid, LookupOk, Ids
<1>4. /\ sets' = [sets EXCEPT ![s] = [Empty EXCEPT !.generation = sets[s].generation + 1]]
      /\ told' = [told EXCEPT ![s] = 0]
      /\ excused' = [excused EXCEPT ![s] = FALSE]
      /\ failed' = IF \A u \in Sleepers(s) : CanWake(config[u].wait) THEN "none" ELSE "wake"
  BY DEF SemRmid, Sleepers
<1>5. PICK b \in BOOLEAN :
        config' = [u \in Tracees |->
            IF u \in Sleepers(s) THEN [config[u] EXCEPT !.wait = sysvipc_wake_tracee(@, EIDRM)]
            ELSE IF u = t
            THEN Tidy([config[u] EXCEPT !.wait = sysvipc_syscall_common(@, 0, b)])
            ELSE IF config[u].wait.waiting_object_index = s
            THEN [config[u] EXCEPT !.effect = 0]
            ELSE config[u]]
  BY DEF SemRmid, Sleepers
<1> HIDE DEF s
<1>6. InUserCode(config[t].wait) /\ life[t] = "running"
  BY <1>3 DEF Ready
(* Every record is idle, or not on this set and unchanged.                 *)
<1>7. ASSUME NEW u \in Tracees
      PROVE  /\ C(u) \in ConfigType
             /\ \/ Idle(C(u)) /\ life[u] # "freed"
                \/ C(u) = config[u] /\ config[u].wait.waiting_object_index # s
                \/ Idle(C(u)) /\ C(u) = config[u]
             /\ \A x \in Slots : x # s => Share(C(u), x) = Share(config[u], x)
  <2>1. config[u] \in ConfigType /\ RecordOK(config[u], life[u], sets, excused)
    BY InvAt
  <2>2. CASE u \in Sleepers(s)
    <3> DEFINE w == sysvipc_wake_tracee(config[u].wait, EIDRM)
    <3>1. C(u) = [config[u] EXCEPT !.wait = w]
      BY <1>5, <2>2
    <3>2. /\ config[u].wait.wait_reason = "WR_WAIT_SEMOP" /\ config[u].wait.waiting_object_index = s
          /\ life[u] # "freed"
      BY <2>2 DEF Sleepers, WaitingOn, InList
    <3>3. EIDRM \in Int
      BY DEF EIDRM
    <3>4. /\ w \in WaitType /\ w.wait_reason = "WR_NOT_WAITING"
          /\ w.wait_state \in {"SIGNALED_PPOLL", "RESTARTED_INTO_PPOLL_CANCELED"}
      BY <2>1, <3>2, <3>3, WakeOK DEF RecordOK
    <3>5. config[u].effect = 0
      BY <2>1, <3>2 DEF RecordOK, SleeperOK
    <3> HIDE DEF w
    <3>6. C(u) \in ConfigType /\ C(u).wait = w /\ C(u).effect = 0
      BY <2>1, <3>1, <3>4, <3>5 DEF ConfigType
    <3>7. Idle(C(u))
      BY <3>4, <3>6 DEF Idle, WaitCoherent
    <3> QED BY <3>2, <3>5, <3>6, <3>7, IdleShare
  <2>3. CASE u \notin Sleepers(s) /\ u = t
    <3>1. C(u) = Tidy([config[u] EXCEPT !.wait = sysvipc_syscall_common(@, 0, b)])
      BY <1>5, <2>3
    <3>2. 0 \in Int
      OBVIOUS
    <3>3. C(u) \in ConfigType /\ Idle(C(u)) /\ config[u].effect = 0
      BY <1>6, <2>1, <2>3, <3>1, <3>2, AnswerOK
    <3> QED BY <1>6, <2>3, <3>3, IdleShare DEF Idle
  <2>4. CASE u \notin Sleepers(s) /\ u # t /\ config[u].wait.waiting_object_index = s
    <3>1. C(u) = [config[u] EXCEPT !.effect = 0]
      BY <1>5, <2>4
    <3>2. config[u].wait.wait_reason = "WR_NOT_WAITING"
      BY <2>1, <2>4, SleepersAre DEF ConfigType, WaitType
    <3>3. C(u) \in ConfigType /\ C(u).wait = config[u].wait /\ C(u).effect = 0
      BY <2>1, <3>1 DEF ConfigType
    <3>4. Idle(C(u))
      BY <2>1, <3>2, <3>3 DEF Idle, RecordOK
    <3>5. \A x \in Slots : x # s => Share(C(u), x) = Share(config[u], x)
      BY <2>4, <3>3 DEF Share
    <3>6. life[u] = "freed" => C(u) = config[u]
      <4>1. life[u] = "freed" => config[u].effect = 0
        BY <2>1 DEF RecordOK, InitConfig
      <4>2. config[u].effect = 0 => C(u) = config[u]
        BY <2>1, <3>1 DEF ConfigType
      <4> QED BY <4>1, <4>2
    <3> QED BY <3>3, <3>4, <3>5, <3>6
  <2>5. CASE u \notin Sleepers(s) /\ u # t /\ config[u].wait.waiting_object_index # s
    <3>1. C(u) = config[u]
      BY <1>5, <2>5
    <3> QED BY <2>1, <2>5, <3>1
  <2> QED BY <2>2, <2>3, <2>4, <2>5
<1> HIDE DEF C
<1>8. failed' = "none"
  <2>1. ASSUME NEW u \in Sleepers(s) PROVE CanWake(config[u].wait)
    <3>1. u \in Tracees /\ config[u].wait.wait_reason = "WR_WAIT_SEMOP" /\ 0 \in Int
      BY DEF Sleepers, InList, WaitingOn
    <3>2. config[u] \in ConfigType /\ WaitCoherent(config[u].wait)
      BY <3>1, InvAt DEF RecordOK
    <3> QED BY <3>1, <3>2, WakeOK
  <2> QED BY <1>4, <2>1
<1> DEFINE set == [Empty EXCEPT !.generation = sets[s].generation + 1]
<1>9. set \in SetType /\ ~set.valid
  <2>1. sets[s].generation \in Nat
    BY <1>2, <1>3 DEF SetType
  <2>2. <<>> \in Seq(Values)
    OBVIOUS
  <2> DEFINE g == sets[s].generation + 1
  <2>3. g \in Nat /\ set = [Empty EXCEPT !.generation = g]
    BY <2>1
  <2> HIDE DEF g, set
  <2>4. Empty \in SetType /\ ~Empty.valid
    BY <2>2 DEF Empty, SetType
  <2> QED BY <2>3, <2>4 DEF SetType
<1> HIDE DEF set
<1>10. /\ sets' \in [Slots -> SetType] /\ ~sets'[s].valid
       /\ \A x \in Slots : x # s => sets'[x] = sets[x]
  <2>1. sets' = [sets EXCEPT ![s] = set]
    BY <1>4 DEF set
  <2> QED BY <1>2, <1>3, <1>9, <2>1
<1>11. /\ told' \in [Slots -> Int] /\ excused' \in [Slots -> BOOLEAN]
       /\ \A x \in Slots : x # s => told'[x] = told[x] /\ excused'[x] = excused[x]
  BY <1>2, <1>3, <1>4
<1>12. config' \in [Tracees -> ConfigType] /\ \A u \in Tracees : config'[u] = C(u)
  <2>1. \A u \in Tracees : config'[u] = C(u) /\ C(u) \in ConfigType
    BY <1>7 DEF C
  <2>2. config' = [u \in Tracees |-> config'[u]]
    BY <1>5
  <2> QED BY <2>1, <2>2
<1>13. TypePart'
  BY <1>1, <1>3, <1>8, <1>10, <1>11, <1>12 DEF TypePart
<1>14. SlotsPart'
  BY <1>1, <1>3, <1>10 DEF SlotsPart
<1>15. RecordsPart'
  <2> SUFFICES ASSUME NEW u \in Tracees PROVE RecordOK(C(u), life[u], sets', excused')
    BY <1>3, <1>12 DEF RecordsPart
  <2>1. RecordOK(config[u], life[u], sets, excused)
    BY InvAt
  <2>2. CASE Idle(C(u)) /\ life[u] # "freed"
    BY <2>2, IdleOK
  <2>3. CASE C(u) = config[u] /\ config[u].wait.waiting_object_index # s
    <3>1. \A x \in Slots : x # s => sets'[x] = sets[x] /\ excused'[x] = excused[x]
      BY <1>10, <1>11
    <3>2. RecordOK(config[u], life[u], sets', excused')
      BY <2>1, <2>3, <3>1, OtherSlotNext
    <3> QED BY <2>3, <3>2
  <2>4. CASE Idle(C(u)) /\ C(u) = config[u]
    BY <2>1, <2>4 DEF RecordOK, Idle
  <2> QED BY <1>7, <2>2, <2>3, <2>4
<1>16. SumsPart'
  <2> SUFFICES ASSUME NEW x \in Slots, sets'[x].valid
               PROVE  Total(sets'[x].sems) = told'[x] + Shares(config', x)
    BY DEF SumsPart
  <2>1. x # s
    BY <1>10
  <2>2. sets'[x] = sets[x] /\ told'[x] = told[x]
    BY <1>10, <1>11, <2>1
  <2>3. Shares(config', x) = Shares(config, x)
    <3>1. \A u \in Tracees : Share(config'[u], x) = Share(config[u], x)
      BY <1>7, <1>12, <2>1
    <3> QED BY <3>1, SharesSame
  <2> QED BY <1>1, <2>2, <2>3 DEF SumsPart
<1> QED BY <1>13, <1>14, <1>15, <1>16 DEF Inv

-----------------------------------------------------------------------------
(* The walk of sysvipc_semop over the tracees.                             *)
LEMMA EffectInt ==
  ASSUME NEW sops \in Seq(Sembuf)
  PROVE  Effect(sops) \in Int
<1> DEFINE n == Len(sops)
           ops == [i \in 1 .. n |-> sops[i].op]
<1>1. n \in Nat /\ \A i \in 1 .. n : ops[i] \in Int
  <2>1. n \in Nat /\ \A i \in 1 .. n : sops[i] \in Sembuf
    OBVIOUS
  <2> QED BY <2>1 DEF Sembuf
<1>2. Effect(sops) = Sum(ops, n)
  BY DEF Effect
<1> HIDE DEF n, ops
<1> QED BY <1>1, <1>2, SumInt

(* The record the walk leaves to a tracee whose operations it ended.       *)
LEMMA WokenOK ==
  ASSUME NEW c \in ConfigType, WaitCoherent(c.wait), c.wait.wait_reason = "WR_WAIT_SEMOP",
         NEW st \in Int
  PROVE  /\ Woken(c, st) \in ConfigType /\ Woken(c, st) # c
         /\ Woken(c, st).effect = IF st = 0 THEN Effect(c.sops) ELSE 0
         /\ Woken(c, st).wait.wait_reason = "WR_NOT_WAITING" /\ WaitCoherent(Woken(c, st).wait)
         /\ Woken(c, st).wait.wait_state # "NOT_WAITING"
         /\ Woken(c, st).wait.status_after_wait = st
         /\ Woken(c, st).wait.waiting_object_index = c.wait.waiting_object_index
<1> DEFINE w == sysvipc_wake_tracee(c.wait, st)
           e == IF st = 0 THEN Effect(c.sops) ELSE 0
           d == Woken(c, st)
<1>1. /\ w \in WaitType /\ w.wait_reason = "WR_NOT_WAITING"
      /\ w.wait_state \in {"SIGNALED_PPOLL", "RESTARTED_INTO_PPOLL_CANCELED"}
      /\ w.status_after_wait = st /\ w.waiting_object_index = c.wait.waiting_object_index
  BY WakeOK
<1>2. e \in Int
  <2>1. c.sops \in Seq(Sembuf)
    BY DEF ConfigType
  <2> QED BY <2>1, EffectInt
<1>3. d = [wait |-> w, sops |-> <<>>, effect |-> e]
  BY DEF Woken
<1>4. <<>> \in Seq(Sembuf)
  OBVIOUS
<1> HIDE DEF w, e, d
<1>5. d \in ConfigType /\ d.wait = w /\ d.effect = e
  BY <1>1, <1>2, <1>3, <1>4 DEF ConfigType
<1>6. d # c
  BY <1>1, <1>5
<1>7. WaitCoherent(d.wait)
  BY <1>1, <1>5 DEF WaitCoherent
<1> QED BY <1>1, <1>5, <1>6, <1>7 DEF d, e

(* What the walk carries from tracee to tracee.                            *)
WAcc(m) == [sems : Vec(m), config : [Tracees -> ConfigType], failed : {"none", "wake"}]

(* What is known of a sleeper of s.                                        *)
LEMMA SleeperIs ==
  ASSUME Inv, NEW s \in Slots, NEW u \in Sleepers(s)
  PROVE  /\ u \in Tracees /\ config[u] \in ConfigType /\ WaitCoherent(config[u].wait)
         /\ config[u].wait.wait_reason = "WR_WAIT_SEMOP"
         /\ config[u].wait.waiting_object_index = s /\ life[u] # "freed"
         /\ config[u].sops \in Seq(Sembuf) /\ SleeperOK(config[u], sets[s], excused[s])
<1>1. /\ u \in Tracees /\ life[u] # "freed" /\ config[u].wait.wait_reason = "WR_WAIT_SEMOP"
      /\ config[u].wait.waiting_object_index = s
  BY DEF Sleepers, InList, WaitingOn
<1>2. config[u] \in ConfigType /\ RecordOK(config[u], life[u], sets, excused)
  BY <1>1, InvAt
<1> QED BY <1>1, <1>2 DEF RecordOK, ConfigType

(* One step of the walk: nothing, or a sleeper's operations executed or    *)
(* refused.                                                                *)
LEMMA VisitIs ==
  ASSUME Inv, NEW s \in Slots, NEW t \in Tracees, NEW u \in Tracees,
         NEW m, m = Len(sets[s].sems), NEW a \in WAcc(m)
  PROVE  LET r == sysvipc_sem_check(config[u].sops, a.sems)
             v == Visit(t, s, a, u)
         IN  /\ v \in WAcc(m)
             /\ u = t \/ u \notin Sleepers(s) => v = a
             /\ u # t /\ u \in Sleepers(s) =>
                  /\ r \in Acc(m)
                  /\ r.status # 0 => r.sems = a.sems
                  /\ r.status = 0 => Sum(r.sems, m) = Sum(a.sems, m) + Effect(config[u].sops)
                  /\ OnlyTakes(config[u].sops) => Leq(r.sems, a.sems, m)
                  /\ r.status = 1 => v = a
                  /\ r.status # 1 =>
                       /\ v.sems = r.sems /\ v.failed = a.failed
                       /\ v.config = [a.config EXCEPT ![u] = Woken(config[u], r.status)]
<1> DEFINE r == sysvipc_sem_check(config[u].sops, a.sems)
           v == Visit(t, s, a, u)
<1>1. m \in Nat
  <2>1. sets[s].sems \in Seq(Values)
    BY DEF Inv, TypePart, SetType
  <2> QED BY <2>1
<1>2. a.sems \in Vec(m) /\ a.config \in [Tracees -> ConfigType] /\ a.failed \in {"none", "wake"}
  BY DEF WAcc
<1>3. a.sems \in Seq(Values) /\ Len(a.sems) = m
  BY <1>1, <1>2, VecSeq
<1>4. CASE u = t \/ u \notin Sleepers(s)
  BY <1>4 DEF Visit
<1>5. CASE u # t /\ u \in Sleepers(s)
  <2>1. /\ config[u] \in ConfigType /\ WaitCoherent(config[u].wait)
        /\ config[u].wait.wait_reason = "WR_WAIT_SEMOP"
        /\ config[u].sops \in Seq(Sembuf) /\ Fits(config[u].sops, sets[s].sems)
    BY <1>5, SleeperIs DEF SleeperOK
  <2>2. Fits(config[u].sops, a.sems)
    BY <1>3, <2>1 DEF Fits
  <2>3. /\ r \in Acc(m) /\ (r.status # 0 => r.sems = a.sems)
        /\ r.status = 0 => Sum(r.sems, m) = Sum(a.sems, m) + Effect(config[u].sops)
        /\ OnlyTakes(config[u].sops) => Leq(r.sems, a.sems, m)
    BY <1>3, <2>1, <2>2, CheckIs
  <2>4. CASE r.status = 1
    <3>1. v = a
      BY <1>5, <2>4 DEF Visit
    <3> HIDE DEF r, v
    <3> QED BY <1>5, <2>3, <2>4, <3>1 DEF r, v
  <2>5. CASE r.status # 1
    <3> DEFINE w == Woken(config[u], r.status)
    <3>1. r.status \in Int /\ r.sems \in Vec(m)
      <4> HIDE DEF r
      <4> QED BY <2>3 DEF Acc, EAGAIN, ERANGE
    <3>2. w \in ConfigType /\ CanWake(config[u].wait)
      <4> HIDE DEF r
      <4> QED BY <2>1, <3>1, WokenOK, WakeOK
    <3>3. v = [sems |-> r.sems, config |-> [a.config EXCEPT ![u] = w], failed |-> a.failed]
      BY <1>5, <2>5, <3>2 DEF Visit
    <3> HIDE DEF r, w, v
    <3>4. [a.config EXCEPT ![u] = w] \in [Tracees -> ConfigType]
      BY <1>2, <3>2
    <3>5. v \in WAcc(m)
      BY <1>2, <3>1, <3>3, <3>4 DEF WAcc
    <3> QED BY <1>5, <2>3, <2>5, <3>3, <3>5 DEF r, v, w
  <2> QED BY <2>4, <2>5
<1> QED BY <1>4, <1>5

(* g is the walk, step by step.                                            *)
IsWalk(g, t, s, sems) ==
  /\ g \in [0 .. NumTracees -> WAcc(Len(sets[s].sems))]
  /\ g[0] = [sems |-> sems, config |-> config, failed |-> "none"]
  /\ \A i \in 1 .. NumTracees : g[i] = Visit(t, s, g[i - 1], NumTracees + 1 - i)

(* WakeWaiters is the last step of the walk.                               *)
LEMMA WalkIs ==
  ASSUME Inv, NEW s \in Slots, NEW t \in Tracees, NEW sems \in Vec(Len(sets[s].sems))
  PROVE  \E g : IsWalk(g, t, s, sems) /\ WakeWaiters(t, s, sems) = g[NumTracees]
<1> DEFINE n == NumTracees
           A == WAcc(Len(sets[s].sems))
           x0 == [sems |-> sems, config |-> config, failed |-> "none"]
           G == [p \in (1 .. n) \X A |-> Visit(t, s, p[2], n + 1 - p[1])]
           Step(a) == [i \in 0 .. n |-> IF i = 0 THEN x0 ELSE Visit(t, s, a[i - 1], n + 1 - i)]
           Step2(a) == [i \in 0 .. Len(TraceeList) |->
                          IF i = 0 THEN x0 ELSE Visit(t, s, a[i - 1], TraceeList[i])]
<1>1. n \in Nat /\ \A i \in 1 .. n : n + 1 - i \in Tracees
  BY SemAssumption DEF Tracees
<1>2. x0 \in A
  BY DEF WAcc, Inv, TypePart
<1>3. G \in [(1 .. n) \X A -> A]
  <2>1. ASSUME NEW p \in (1 .. n) \X A PROVE Visit(t, s, p[2], n + 1 - p[1]) \in A
    <3>1. n + 1 - p[1] \in Tracees /\ p[2] \in A
      BY <1>1
    <3> QED BY <3>1, VisitIs
  <2> HIDE DEF n, A
  <2> QED BY <2>1
<1>4. PICK g \in [0 .. n -> A] : IsRec(g, n, x0, G)
  <2> HIDE DEF n, A, x0, G
  <2> QED BY <1>1, <1>2, <1>3, Recursion, Zenon
<1>5. ASSUME NEW i \in 1 .. n PROVE g[i] = Visit(t, s, g[i - 1], n + 1 - i)
  <2> HIDE DEF A
  <2>1. i - 1 \in 0 .. n
    BY <1>1
  <2>2. <<i, g[i - 1]>> \in (1 .. n) \X A
    BY <1>4, <2>1
  <2>3. g[i] = G[<<i, g[i - 1]>>]
    BY <1>4 DEF IsRec
  <2> QED BY <2>2, <2>3
<1>6. g[0] = x0
  BY <1>4 DEF IsRec
<1>7. g = Step(g)
  <2> HIDE DEF x0, A
  <2>1. \A i \in 0 .. n : i # 0 => i \in 1 .. n
    BY <1>1
  <2>2. \A i \in 0 .. n : g[i] = Step(g)[i]
    BY <1>5, <1>6, <2>1
  <2> QED BY <1>4, <2>2
<1>8. Len(TraceeList) = n /\ \A i \in 1 .. n : TraceeList[i] = n + 1 - i
  BY <1>1 DEF TraceeList
<1>9. ASSUME NEW a PROVE Step2(a) = Step(a)
  <2> HIDE DEF x0
  <2>1. \A i \in 0 .. n : i # 0 => i \in 1 .. n
    BY <1>1
  <2> HIDE DEF n
  <2> QED BY <1>8, <2>1
<1> DEFINE h == CHOOSE a : a = Step2(a)
<1>10. h = Step(h)
  <2>1. g = Step2(g)
    BY <1>7, <1>9
  <2> HIDE DEF Step2
  <2>2. h = Step2(h)
    BY <2>1
  <2> HIDE DEF h
  <2> QED BY <1>9, <2>2
<1>11. WakeWaiters(t, s, sems) = h[n]
  <2>1. WakeWaiters(t, s, sems) = h[Len(TraceeList)]
    BY DEF WakeWaiters
  <2> HIDE DEF h
  <2> QED BY <1>8, <2>1
<1>12. \A i \in 0 .. n : h[i] = g[i]
  <2> HIDE DEF h, x0
  <2> DEFINE S == {i \in 0 .. n : h[i] = g[i]}
  <2>1. 0 \in S
    BY <1>1, <1>6, <1>10
  <2>2. ASSUME NEW i \in 1 .. n, i - 1 \in S PROVE i \in S
    <3>1. i \in 0 .. n /\ i # 0 /\ h[i - 1] = g[i - 1]
      BY <1>1, <2>2
    <3>2. h[i] = Visit(t, s, h[i - 1], n + 1 - i)
      BY <1>10, <3>1
    <3> QED BY <1>5, <3>1, <3>2
  <2>3. \A i \in 0 .. n : i \in S
    <3> HIDE DEF S, n
    <3> QED BY <1>1, <2>1, <2>2, Induction
  <2> QED BY <2>3
<1>13. IsWalk(g, t, s, sems)
  BY <1>4, <1>5, <1>6 DEF IsWalk
<1>14. WakeWaiters(t, s, sems) = g[n]
  <2> HIDE DEF h
  <2>1. n \in 0 .. n
    BY <1>1
  <2> QED BY <1>11, <1>12, <2>1
<1> QED BY <1>13, <1>14

(* After i tracees were visited, by a semop of t that left the values sems *)
(* in set s: the others are as they were; whoever changed was asleep and   *)
(* is awake now; what the set gained, somebody will report; and whoever    *)
(* was visited and still sleeps still has to.                              *)
WalkOK(a, i, t, s, sems) ==
  LET m == Len(sets[s].sems) IN
  /\ a.failed = "none"
  /\ \A u \in Tracees : u + i <= NumTracees => a.config[u] = config[u]
  /\ \A u \in Tracees :
       \/ a.config[u] = config[u]
       \/ u # t /\ u \in Sleepers(s) /\ \E st \in Int : a.config[u] = Woken(config[u], st)
  /\ Sum(a.sems, m) + Shares(config, s) = Sum(sems, m) + Shares(a.config, s)
  /\ ~excused[s] => Leq(a.sems, sems, m)
  /\ ~excused[s] => \A u \in Sleepers(s) :
       u # t /\ u + i > NumTracees /\ a.config[u] = config[u] =>
          sysvipc_sem_check(config[u].sops, a.sems).status # 0

(* The order of values, and their sum.                                     *)
LEMMA LeqTransitive ==
  ASSUME NEW m \in Nat, NEW p \in Vec(m), NEW q \in Vec(m), NEW r \in Vec(m),
         Leq(p, q, m), Leq(q, r, m)
  PROVE  Leq(p, r, m)
<1>1. ASSUME NEW i \in 1 .. m PROVE p[i] <= r[i]
  <2>1. p[i] \in Int /\ q[i] \in Int /\ r[i] \in Int
    BY VecValue
  <2>2. p[i] <= q[i] /\ q[i] <= r[i]
    BY DEF Leq
  <2> QED BY <2>1, <2>2
<1> QED BY <1>1 DEF Leq

LEMMA VecSumInt ==
  ASSUME NEW m \in Nat, NEW q \in Vec(m)
  PROVE  Sum(q, m) \in Int
<1>1. \A i \in 1 .. m : q[i] \in Int
  BY VecValue
<1> QED BY <1>1, SumInt

(* WalkOK goes from one tracee to the next.                                *)
LEMMA VisitOK ==
  ASSUME Inv, NEW s \in Slots, NEW t \in Tracees, NEW i \in 1 .. NumTracees,
         NEW sems \in Vec(Len(sets[s].sems)), NEW a \in WAcc(Len(sets[s].sems)),
         WalkOK(a, i - 1, t, s, sems)
  PROVE  WalkOK(Visit(t, s, a, NumTracees + 1 - i), i, t, s, sems)
<1> DEFINE m == Len(sets[s].sems)
           u == NumTracees + 1 - i
           v == Visit(t, s, a, u)
           r == sysvipc_sem_check(config[u].sops, a.sems)
           w == Woken(config[u], r.status)
<1>1. NumTracees \in Nat /\ u \in Tracees /\ m \in Nat
  <2>1. sets[s].sems \in Seq(Values)
    BY DEF Inv, TypePart, SetType
  <2> QED BY <2>1, SemAssumption DEF Tracees
<1>2. /\ a.sems \in Vec(m) /\ a.config \in [Tracees -> ConfigType]
      /\ config \in [Tracees -> ConfigType]
  BY DEF WAcc, Inv, TypePart
<1>3. /\ \A x \in Tracees : (x + i <= NumTracees => x + (i - 1) <= NumTracees /\ x # u)
      /\ \A x \in Tracees : (x + i > NumTracees => x + (i - 1) > NumTracees \/ x = u)
      /\ u + (i - 1) <= NumTracees
  BY <1>1 DEF Tracees
<1>4. a.config[u] = config[u]
  BY <1>1, <1>3 DEF WalkOK
<1>5. ASSUME v = a,
             u # t /\ u \in Sleepers(s) => sysvipc_sem_check(config[u].sops, a.sems).status # 0
      PROVE  WalkOK(v, i, t, s, sems)
  <2>1. \A x \in Tracees : x + i <= NumTracees => a.config[x] = config[x]
    BY <1>3 DEF WalkOK
  <2>2. ASSUME ~excused[s], NEW x \in Sleepers(s), x # t, x + i > NumTracees, a.config[x] = config[x]
        PROVE  sysvipc_sem_check(config[x].sops, a.sems).status # 0
    <3>1. x \in Tracees
      BY DEF Sleepers, InList
    <3>2. CASE x = u
      <4> HIDE DEF u
      <4> QED BY <1>5, <2>2, <3>2
    <3>3. CASE x # u
      <4>1. x + (i - 1) > NumTracees
        BY <1>3, <2>2, <3>1, <3>3
      <4> QED BY <2>2, <4>1 DEF WalkOK
    <3> QED BY <3>2, <3>3
  <2>3. WalkOK(a, i, t, s, sems)
    <3> HIDE DEF u, v
    <3> QED BY <2>1, <2>2 DEF WalkOK
  <2> HIDE DEF v
  <2> QED BY <1>5, <2>3
<1>6. CASE u = t \/ u \notin Sleepers(s)
  <2>1. v = a
    BY <1>6 DEF Visit
  <2> QED BY <1>5, <1>6, <2>1
<1>7. CASE u # t /\ u \in Sleepers(s) /\ r.status = 1
  <2>1. v = a
    BY <1>7 DEF Visit
  <2> QED BY <1>5, <1>7, <2>1
<1>8. CASE u # t /\ u \in Sleepers(s) /\ r.status # 1
  <2>1. /\ r \in Acc(m)
        /\ r.status # 0 => r.sems = a.sems
        /\ r.status = 0 => Sum(r.sems, m) = Sum(a.sems, m) + Effect(config[u].sops)
        /\ OnlyTakes(config[u].sops) => Leq(r.sems, a.sems, m)
        /\ v.sems = r.sems /\ v.failed = a.failed
        /\ v.config = [a.config EXCEPT ![u] = w]
        /\ v \in WAcc(m)
    BY <1>1, <1>8, VisitIs
  <2>2. /\ config[u] \in ConfigType /\ WaitCoherent(config[u].wait)
        /\ config[u].wait.wait_reason = "WR_WAIT_SEMOP"
        /\ config[u].wait.waiting_object_index = s
        /\ config[u].sops \in Seq(Sembuf) /\ SleeperOK(config[u], sets[s], excused[s])
    BY <1>8, SleeperIs
  <2>3. r.status \in Int /\ r.sems \in Vec(m)
    <3> HIDE DEF r
    <3> QED BY <2>1 DEF Acc, EAGAIN, ERANGE
  <2>4. /\ w \in ConfigType /\ w # config[u]
        /\ w.effect = IF r.status = 0 THEN Effect(config[u].sops) ELSE 0
        /\ w.wait.waiting_object_index = s
    <3> HIDE DEF r
    <3> QED BY <2>2, <2>3, WokenOK
  <2> HIDE DEF r, v, u
  <2>5. v.config[u] = w /\ \A x \in Tracees : x # u => v.config[x] = a.config[x]
    <3> HIDE DEF w
    <3> QED BY <1>1, <1>2, <2>1
  <2>6. v.failed = "none"
    BY <2>1 DEF WalkOK
  <2>7. \A x \in Tracees : x + i <= NumTracees => v.config[x] = config[x]
    BY <1>3, <2>5 DEF WalkOK
  <2>8. ASSUME NEW x \in Tracees
        PROVE  \/ v.config[x] = config[x]
               \/ x # t /\ x \in Sleepers(s) /\ \E st \in Int : v.config[x] = Woken(config[x], st)
    <3>1. CASE x = u
      BY <1>8, <2>3, <2>5, <3>1
    <3>2. CASE x # u
      <4>1. v.config[x] = a.config[x]
        BY <2>5, <3>2
      <4>2. \/ a.config[x] = config[x]
            \/ x # t /\ x \in Sleepers(s) /\ \E st \in Int : a.config[x] = Woken(config[x], st)
        BY DEF WalkOK
      <4> QED BY <4>1, <4>2
    <3> QED BY <3>1, <3>2
  <2>9. Sum(v.sems, m) + Shares(config, s) = Sum(sems, m) + Shares(v.config, s)
    <3> DEFINE e == IF r.status = 0 THEN Effect(config[u].sops) ELSE 0
    <3>1. Shares(v.config, s) = Shares(a.config, s) + Share(w, s) - Share(a.config[u], s)
      <4> HIDE DEF w
      <4> QED BY <1>1, <1>2, <2>1, <2>4, SharesUpdate
    <3>2. Share(a.config[u], s) = 0
      <4>1. config[u].effect = 0
        BY <2>2 DEF SleeperOK
      <4> QED BY <1>4, <4>1, IdleShare
    <3>3. Share(w, s) = e
      <4> HIDE DEF w
      <4> QED BY <2>4 DEF Share
    <3>4. Sum(v.sems, m) = Sum(a.sems, m) + e
      <4>1. Sum(a.sems, m) \in Int
        BY <1>1, <1>2, VecSumInt
      <4> QED BY <2>1, <4>1
    <3>5. /\ Sum(a.sems, m) \in Int /\ Sum(sems, m) \in Int /\ e \in Int
          /\ Shares(config, s) \in Int /\ Shares(a.config, s) \in Int
      <4>1. e \in Int
        BY <2>2, EffectInt
      <4> HIDE DEF e
      <4> QED BY <1>1, <1>2, <4>1, VecSumInt, SharesInt
    <3>6. Sum(a.sems, m) + Shares(config, s) = Sum(sems, m) + Shares(a.config, s)
      BY DEF WalkOK
    <3> HIDE DEF e
    <3>7. Shares(v.config, s) = Shares(a.config, s) + e
      BY <3>1, <3>2, <3>3, <3>5
    <3>8. \A x, y, z, k \in Int : x + y = z + k => (x + e) + y = z + (k + e)
      BY <3>5
    <3> QED BY <3>4, <3>5, <3>6, <3>7, <3>8
  <2>10. ASSUME ~excused[s] PROVE Leq(v.sems, a.sems, m)
    BY <2>1, <2>2, <2>10 DEF SleeperOK
  <2>11. ASSUME ~excused[s] PROVE Leq(v.sems, sems, m)
    <3>1. Leq(a.sems, sems, m)
      BY <2>11 DEF WalkOK
    <3> QED BY <1>1, <1>2, <2>1, <2>3, <2>10, <2>11, <3>1, LeqTransitive
  <2>12. ASSUME ~excused[s], NEW x \in Sleepers(s), x # t, x + i > NumTracees,
                v.config[x] = config[x]
         PROVE  sysvipc_sem_check(config[x].sops, v.sems).status # 0
    <3>1. x \in Tracees /\ config[x].sops \in Seq(Sembuf) /\ OnlyTakes(config[x].sops)
          /\ Fits(config[x].sops, sets[s].sems)
      BY <2>12, SleeperIs DEF SleeperOK
    <3>2. x # u
      BY <2>4, <2>5, <2>12
    <3>3. a.config[x] = config[x] /\ x + (i - 1) > NumTracees
      BY <1>3, <2>5, <2>12, <3>1, <3>2
    <3>4. sysvipc_sem_check(config[x].sops, a.sems).status # 0
      BY <2>12, <3>3 DEF WalkOK
    <3>5. /\ a.sems \in Seq(Values) /\ v.sems \in Seq(Values)
          /\ Len(a.sems) = m /\ Len(v.sems) = m
      BY <1>1, <1>2, <2>1, <2>3, VecSeq
    <3>6. Fits(config[x].sops, a.sems)
      BY <3>1, <3>5 DEF Fits
    <3>7. Leq(v.sems, a.sems, Len(a.sems))
      BY <2>10, <2>12, <3>5
    <3> QED BY <3>1, <3>4, <3>5, <3>6, <3>7, CheckLess
  <2>13. WalkOK(v, i, t, s, sems)
    BY <2>6, <2>7, <2>8, <2>9, <2>11, <2>12 DEF WalkOK
  <2> QED BY <2>13 DEF v, u
<1> QED BY <1>6, <1>7, <1>8

(* So it holds of the whole walk.                                          *)
LEMMA WalkDone ==
  ASSUME Inv, NEW s \in Slots, NEW t \in Tracees, NEW sems \in Vec(Len(sets[s].sems))
  PROVE  /\ WakeWaiters(t, s, sems) \in WAcc(Len(sets[s].sems))
         /\ WalkOK(WakeWaiters(t, s, sems), NumTracees, t, s, sems)
<1> DEFINE n == NumTracees
           m == Len(sets[s].sems)
<1>1. PICK g : IsWalk(g, t, s, sems) /\ WakeWaiters(t, s, sems) = g[n]
  BY WalkIs
<1>2. n \in Nat /\ m \in Nat
  <2>1. sets[s].sems \in Seq(Values)
    BY DEF Inv, TypePart, SetType
  <2> QED BY <2>1, SemAssumption
<1>3. /\ g \in [0 .. n -> WAcc(m)]
      /\ g[0] = [sems |-> sems, config |-> config, failed |-> "none"]
      /\ \A i \in 1 .. n : g[i] = Visit(t, s, g[i - 1], n + 1 - i)
  BY <1>1 DEF IsWalk
<1> DEFINE S == {i \in 0 .. n : WalkOK(g[i], i, t, s, sems)}
<1>4. 0 \in S
  <2> DEFINE a == g[0]
  <2>1. a.sems = sems /\ a.config = config /\ a.failed = "none"
    BY <1>3
  <2> HIDE DEF a
  <2>2. Leq(sems, sems, m)
    BY <1>2, VecValue DEF Leq
  <2>3. \A u \in Sleepers(s) : ~(u + 0 > NumTracees)
    BY SemAssumption DEF Sleepers, InList, Tracees
  <2>4. WalkOK(a, 0, t, s, sems)
    BY <2>1, <2>2, <2>3 DEF WalkOK
  <2> QED BY <1>2, <2>4 DEF a
<1>5. ASSUME NEW i \in 1 .. n, i - 1 \in S PROVE i \in S
  <2>1. WalkOK(g[i - 1], i - 1, t, s, sems) /\ i - 1 \in 0 .. n /\ i \in 0 .. n
    BY <1>2, <1>5
  <2>2. g[i - 1] \in WAcc(m)
    BY <1>3, <2>1
  <2>3. WalkOK(Visit(t, s, g[i - 1], n + 1 - i), i, t, s, sems)
    BY <2>1, <2>2, VisitOK
  <2> QED BY <1>3, <2>1, <2>3
<1>6. \A i \in 0 .. n : i \in S
  <2> HIDE DEF S, n
  <2> QED BY <1>2, <1>4, <1>5, Induction
<1>7. n \in 0 .. n
  BY <1>2
<1>8. WalkOK(g[n], n, t, s, sems)
  BY <1>6, <1>7
<1>9. g[n] \in WAcc(m)
  BY <1>3, <1>7
<1> QED BY <1>1, <1>8, <1>9

-----------------------------------------------------------------------------
(* The caller's own record, after its operations ended with status st.     *)
Called(k, s, sops, st) ==
  IF st = 1 THEN StartWait(k, s, sops)
  ELSE [k EXCEPT !.effect = IF st = 0 THEN Effect(sops) ELSE 0,
                 !.wait.waiting_object_index = s]
(* What the caller's operations add; its wait and record at the end.       *)
Gain(sops, st) == IF st = 0 THEN Effect(sops) ELSE 0
CalledWait(k, s, sops, st, b) ==
  sysvipc_syscall_common(Called(k, s, sops, st).wait, IF st = 1 THEN 0 ELSE st, b)
CallEnd(k, s, sops, st, b) ==
  Tidy([Called(k, s, sops, st) EXCEPT !.wait = CalledWait(k, s, sops, st, b)])

(* What is known of Called.                                                *)
CalledOK(c, s, sops, st) ==
  /\ c \in ConfigType /\ c.effect = Gain(sops, st)
  /\ c.wait.waiting_object_index = s /\ c.wait.wait_state = "NOT_WAITING"
  /\ st = 1 => c.wait.wait_reason = "WR_WAIT_SEMOP" /\ c.sops = sops
  /\ st # 1 => c.wait.wait_reason = "WR_NOT_WAITING"

(* It is so for a caller in its own code.                                  *)
LEMMA CalledIs ==
  ASSUME NEW k \in ConfigType, InUserCode(k.wait), k.wait.wait_reason = "WR_NOT_WAITING",
         k.effect = 0, NEW s \in Slots, NEW sops \in Seq(Sembuf), NEW st \in Int
  PROVE  CalledOK(Called(k, s, sops, st), s, sops, st)
<1> DEFINE c == Called(k, s, sops, st)
           v == k.wait
<1>1. v \in WaitType /\ s \in Nat /\ v.wait_state = "NOT_WAITING" /\ v.wait_reason = "WR_NOT_WAITING"
  BY DEF ConfigType, InUserCode, Slots
<1>2. CASE st = 1
  <2> DEFINE x == [v EXCEPT !.wait_reason = "WR_WAIT_SEMOP"]
             w == [x EXCEPT !.waiting_object_index = s]
             y == [k EXCEPT !.wait = w]
  <2>1. x \in WaitType /\ x.wait_state = "NOT_WAITING" /\ x.wait_reason = "WR_WAIT_SEMOP"
    <3> HIDE DEF v
    <3> QED BY <1>1 DEF WaitType
  <2>2. c = [y EXCEPT !.sops = sops]
    <3>1. k = [wait |-> k.wait, sops |-> k.sops, effect |-> k.effect]
      BY DEF ConfigType
    <3>2. c = StartWait(k, s, sops)
      BY <1>2 DEF Called
    <3> QED BY <3>1, <3>2 DEF StartWait
  <2> HIDE DEF x
  <2>3. /\ w \in WaitType /\ w.wait_state = "NOT_WAITING" /\ w.wait_reason = "WR_WAIT_SEMOP"
        /\ w.waiting_object_index = s
    BY <1>1, <2>1 DEF WaitType
  <2> HIDE DEF w
  <2>4. y \in ConfigType /\ y.wait = w /\ y.effect = 0
    BY <2>3 DEF ConfigType
  <2> HIDE DEF y, c
  <2>5. c \in ConfigType /\ c.wait = w /\ c.effect = 0 /\ c.sops = sops
    BY <2>2, <2>4 DEF ConfigType
  <2>6. Gain(sops, st) = 0
    BY <1>2 DEF Gain
  <2>7. CalledOK(c, s, sops, st)
    BY <1>2, <2>3, <2>5, <2>6 DEF CalledOK
  <2> QED BY <2>7 DEF c
<1>3. CASE st # 1
  <2> DEFINE e == Gain(sops, st)
             w == [v EXCEPT !.waiting_object_index = s]
             y == [k EXCEPT !.effect = e]
  <2>1. e \in Int
    BY EffectInt DEF Gain
  <2>2. c = [y EXCEPT !.wait = w]
    <3>1. k = [wait |-> k.wait, sops |-> k.sops, effect |-> k.effect]
      BY DEF ConfigType
    <3>2. c = [k EXCEPT !.effect = e, !.wait.waiting_object_index = s]
      BY <1>3 DEF Called, Gain
    <3> HIDE DEF e, c
    <3> QED BY <3>1, <3>2
  <2>3. /\ w \in WaitType /\ w.wait_state = "NOT_WAITING" /\ w.wait_reason = "WR_NOT_WAITING"
        /\ w.waiting_object_index = s
    <3> HIDE DEF v
    <3> QED BY <1>1 DEF WaitType
  <2> HIDE DEF e, w, c
  <2>4. y \in ConfigType /\ y.effect = e
    BY <2>1 DEF ConfigType
  <2> HIDE DEF y
  <2>5. c \in ConfigType /\ c.wait = w /\ c.effect = e
    BY <2>2, <2>3, <2>4 DEF ConfigType
  <2>6. CalledOK(c, s, sops, st)
    BY <1>3, <2>3, <2>5 DEF CalledOK, e
  <2> QED BY <2>6 DEF c
<1> QED BY <1>2, <1>3

(* Its record d at the end, w being the wait sysvipc_syscall_common left.  *)
EndOK(d, w, s, sops, st) ==
  /\ d \in ConfigType /\ WaitCoherent(d.wait)
  /\ st = 1 => /\ d.wait.wait_reason = "WR_WAIT_SEMOP" /\ d.effect = 0 /\ d.sops = sops
               /\ d.wait.waiting_object_index = s /\ w.wait_state # "NOT_WAITING"
  /\ st # 1 => d.wait.wait_reason = "WR_NOT_WAITING"
  /\ w.wait_state = "NOT_WAITING" => d.effect = 0
  /\ w.wait_state # "NOT_WAITING" => d.effect = Gain(sops, st)
  /\ d.effect # 0 => /\ d.wait.waiting_object_index = s /\ d.wait.status_after_wait = 0
                     /\ d.wait.wait_state # "NOT_WAITING"

(* The caller waits, was answered at once, or goes to getpid with an effect*)
(* to report.                                                              *)
LEMMA CallerOK ==
  ASSUME NEW k \in ConfigType, InUserCode(k.wait), k.wait.wait_reason = "WR_NOT_WAITING",
         k.effect = 0, NEW s \in Slots, NEW sops \in Seq(Sembuf), NEW st \in Int, NEW b \in BOOLEAN
  PROVE  EndOK(CallEnd(k, s, sops, st, b), CalledWait(k, s, sops, st, b), s, sops, st)
<1> DEFINE c == Called(k, s, sops, st)
           w == CalledWait(k, s, sops, st, b)
           x == [c EXCEPT !.wait = w]
           d == CallEnd(k, s, sops, st, b)
           a == IF st = 1 THEN 0 ELSE st
<1>1. /\ c \in ConfigType /\ c.effect = Gain(sops, st) /\ c.wait \in WaitType
      /\ c.wait.waiting_object_index = s /\ c.wait.wait_state = "NOT_WAITING"
      /\ st = 1 => c.wait.wait_reason = "WR_WAIT_SEMOP" /\ c.sops = sops
      /\ st # 1 => c.wait.wait_reason = "WR_NOT_WAITING"
  <2>1. CalledOK(c, s, sops, st)
    BY CalledIs
  <2> HIDE DEF c
  <2>2. c.wait \in WaitType
    BY <2>1 DEF ConfigType, CalledOK
  <2> QED BY <2>1, <2>2 DEF CalledOK
<1>2. w = sysvipc_syscall_common(c.wait, a, b) /\ d = Tidy(x) /\ a \in Int
  BY DEF CalledWait, CallEnd
<1>3. Gain(sops, st) # 0 => st = 0
  BY DEF Gain
<1> HIDE DEF c, w, d
<1>4. CASE st = 1
  <2>1. w = [c.wait EXCEPT !.wait_state = IF b THEN "RESTARTED_INTO_PPOLL" ELSE "ENTERED_PPOLL"]
    BY <1>1, <1>2, <1>4 DEF sysvipc_syscall_common
  <2>2. /\ w \in WaitType /\ w.wait_state \in {"RESTARTED_INTO_PPOLL", "ENTERED_PPOLL"}
        /\ w.wait_reason = "WR_WAIT_SEMOP" /\ w.waiting_object_index = s
    BY <1>1, <1>4, <2>1 DEF WaitType, WaitStates
  <2>3. x \in ConfigType /\ x.wait = w /\ x.effect = 0 /\ x.sops = sops
    <3>1. c.effect = 0
      BY <1>1, <1>4 DEF Gain
    <3> QED BY <1>1, <1>4, <2>2, <3>1 DEF ConfigType
  <2> HIDE DEF x
  <2>4. d = x
    BY <1>2, <2>2, <2>3 DEF Tidy
  <2>5. Gain(sops, st) = 0 /\ WaitCoherent(w)
    BY <1>4, <2>2 DEF Gain, WaitCoherent
  <2>6. /\ d \in ConfigType /\ WaitCoherent(d.wait) /\ d.wait.wait_reason = "WR_WAIT_SEMOP"
        /\ d.effect = 0 /\ d.sops = sops /\ d.wait.waiting_object_index = s
        /\ w.wait_state # "NOT_WAITING"
    BY <2>2, <2>3, <2>4, <2>5
  <2>7. EndOK(d, w, s, sops, st)
    BY <1>4, <2>5, <2>6 DEF EndOK
  <2> QED BY <2>7 DEF d, w
<1>5. CASE st # 1 /\ b
  <2>1. w = c.wait
    BY <1>1, <1>2, <1>5 DEF sysvipc_syscall_common
  <2>2. x \in ConfigType /\ x.wait = c.wait
    BY <1>1, <2>1 DEF ConfigType
  <2> HIDE DEF x
  <2>3. /\ d \in ConfigType /\ d.effect = 0 /\ d.wait.wait_reason = "WR_NOT_WAITING"
        /\ d.wait.wait_state = "NOT_WAITING" /\ w.wait_state = "NOT_WAITING"
    BY <1>1, <1>2, <1>5, <2>1, <2>2, TidyOK
  <2>4. WaitCoherent(d.wait)
    BY <2>3 DEF WaitCoherent
  <2>5. EndOK(d, w, s, sops, st)
    BY <1>5, <2>3, <2>4 DEF EndOK
  <2> QED BY <2>5 DEF d, w
<1>6. CASE st # 1 /\ ~b
  <2> DEFINE y == [c.wait EXCEPT !.wait_state = "ENTERED_GETPID"]
  <2>1. w = [y EXCEPT !.status_after_wait = st]
    BY <1>1, <1>2, <1>6 DEF sysvipc_syscall_common
  <2>2. /\ y \in WaitType /\ y.wait_reason = "WR_NOT_WAITING" /\ y.wait_state = "ENTERED_GETPID"
        /\ y.waiting_object_index = s
    BY <1>1, <1>6 DEF WaitType, WaitStates
  <2> HIDE DEF y
  <2>3. /\ w \in WaitType /\ w.wait_reason = "WR_NOT_WAITING" /\ w.wait_state = "ENTERED_GETPID"
        /\ w.waiting_object_index = s /\ w.status_after_wait = st
    BY <2>1, <2>2 DEF WaitType
  <2>4. x \in ConfigType /\ x.wait = w /\ x.effect = Gain(sops, st)
    BY <1>1, <2>3 DEF ConfigType
  <2> HIDE DEF x
  <2>5. /\ d \in ConfigType /\ d.wait.wait_reason = "WR_NOT_WAITING"
        /\ d.wait.wait_state = "ENTERED_GETPID"
    BY <1>2, <2>3, <2>4, TidyOK
  <2>6. WaitCoherent(d.wait)
    BY <2>5 DEF WaitCoherent
  <2>7. d.effect = Gain(sops, st) /\ (d.effect # 0 => d = x)
    <3>1. CASE x.effect = 0
      <4>1. d.effect = 0
        BY <1>2, <2>3, <2>4, <3>1 DEF Tidy
      <4> QED BY <2>4, <3>1, <4>1
    <3>2. CASE x.effect # 0
      <4>1. d = x
        BY <1>2, <2>3, <2>4, <3>2 DEF Tidy
      <4> QED BY <2>4, <4>1
    <3> QED BY <3>1, <3>2
  <2>8. d.effect # 0 => d.wait.waiting_object_index = s /\ d.wait.status_after_wait = 0
    BY <1>3, <2>3, <2>4, <2>7
  <2>9. EndOK(d, w, s, sops, st)
    BY <1>6, <2>3, <2>5, <2>6, <2>7, <2>8 DEF EndOK
  <2> QED BY <2>9 DEF d, w
<1> QED BY <1>4, <1>5, <1>6

-----------------------------------------------------------------------------
(* sysvipc_semop: the caller's operations, the walk, the caller's answer.  *)
LEMMA SemOpOK ==
  ASSUME Inv, NEW t \in Tracees, NEW id \in Ids, NEW sops \in Sops, SemOp(t, id, sops)
  PROVE  Inv'
<1> DEFINE s == id[1]
           q == sets[s].sems
           m == Len(q)
           mine == sysvipc_sem_check(sops, q)
           st == mine.status
           all == WakeWaiters(t, s, mine.sems)
           k == all.config[t]
           D(b) == CallEnd(k, s, sops, st, b)
           W(b) == CalledWait(k, s, sops, st, b)
<1>1. TypePart /\ SlotsPart /\ RecordsPart /\ SumsPart
  BY DEF Inv
<1>2. /\ sets \in [Slots -> SetType] /\ config \in [Tracees -> ConfigType]
      /\ told \in [Slots -> Int] /\ excused \in [Slots -> BOOLEAN]
  BY <1>1 DEF TypePart
<1>3. Ready(t) /\ sets[s].valid /\ UNCHANGED <<num_sets, life>> /\ s \in Slots
  <2>1. Ready(t) /\ LookupOk(id) /\ UNCHANGED <<num_sets, life>>
    BY DEF SemOp
  <2>2. s \in Slots
    BY DEF Ids
  <2> QED BY <2>1, <2>2 DEF LookupOk
<1>4. /\ sets' = [sets EXCEPT ![s].sems = all.sems]
      /\ failed' = all.failed
      /\ excused' = [excused EXCEPT ![s] = @ \/ (st = 1 /\ ~OnlyTakes(sops))]
  BY DEF SemOp
<1>5. PICK b \in BOOLEAN :
        /\ config' = [all.config EXCEPT ![t] = D(b)]
        /\ told' = IF W(b).wait_state = "NOT_WAITING"
                     THEN [told EXCEPT ![s] = @ + Called(k, s, sops, st).effect] ELSE told
  BY DEF SemOp, CallEnd, CalledWait, Called
<1>6. Fits(sops, q) /\ sops \in Seq(Sembuf)
  BY SemAssumption DEF SemOp, Fits
<1> DEFINE d == D(b)
           w == W(b)
<1> HIDE DEF s
<1>7. q \in Seq(Values) /\ m \in Nat /\ q \in Vec(m)
  <2>1. q \in Seq(Values)
    BY <1>2, <1>3 DEF SetType
  <2> QED BY <2>1, SeqVec
<1> HIDE DEF q
<1>8. /\ mine \in Acc(m) /\ (st # 0 => mine.sems = q)
      /\ st = 0 => Sum(mine.sems, m) = Sum(q, m) + Effect(sops)
      /\ OnlyTakes(sops) => Leq(mine.sems, q, m)
  BY <1>6, <1>7, CheckIs
<1> HIDE DEF mine
<1>9. st \in Int /\ mine.sems \in Vec(m)
  BY <1>8 DEF Acc, EAGAIN, ERANGE
<1>10. all \in WAcc(m) /\ WalkOK(all, NumTracees, t, s, mine.sems)
  BY <1>3, <1>9, WalkDone DEF q
<1> HIDE DEF all, st
<1>11. all.sems \in Vec(m) /\ all.config \in [Tracees -> ConfigType] /\ all.failed = "none"
  BY <1>10 DEF WAcc, WalkOK
<1>12. \A u \in Tracees :
         \/ all.config[u] = config[u]
         \/ u # t /\ u \in Sleepers(s) /\ \E r \in Int : all.config[u] = Woken(config[u], r)
  BY <1>10 DEF WalkOK
<1>13. k = config[t]
  BY <1>12
<1>14. /\ config[t] \in ConfigType /\ RecordOK(config[t], life[t], sets, excused)
       /\ InUserCode(config[t].wait) /\ life[t] = "running"
  BY <1>3, InvAt DEF Ready
<1>15. config[t].wait.wait_reason = "WR_NOT_WAITING" /\ config[t].effect = 0
  BY <1>14 DEF InUserCode, RecordOK, WaitCoherent, DoneOK, ConfigType, WaitType
<1> HIDE DEF k
<1>16. EndOK(d, w, s, sops, st) /\ CalledOK(Called(k, s, sops, st), s, sops, st)
  BY <1>3, <1>5, <1>6, <1>9, <1>13, <1>14, <1>15, CallerOK, CalledIs
<1>17. /\ config' = [all.config EXCEPT ![t] = d]
       /\ told' = IF w.wait_state = "NOT_WAITING" THEN [told EXCEPT ![s] = @ + Gain(sops, st)] ELSE told
  BY <1>5, <1>16 DEF CalledOK
<1> HIDE DEF d, w, D, W
<1>18. Gain(sops, st) \in Int /\ d \in ConfigType
  BY <1>6, <1>16, EffectInt DEF Gain, EndOK
<1>19. /\ config' \in [Tracees -> ConfigType] /\ config'[t] = d
       /\ \A u \in Tracees : u # t => config'[u] = all.config[u]
  BY <1>11, <1>17, <1>18
<1> DEFINE set == [sets[s] EXCEPT !.sems = all.sems]
<1>20. all.sems \in Seq(Values) /\ Len(all.sems) = m
  BY <1>7, <1>11, VecSeq
<1>21. set \in SetType /\ set.valid /\ set.sems = all.sems
  BY <1>2, <1>3, <1>20 DEF SetType
<1> HIDE DEF set
<1>22. /\ sets' \in [Slots -> SetType] /\ sets'[s] = set
       /\ \A x \in Slots : x # s => sets'[x] = sets[x]
  <2>1. sets' = [sets EXCEPT ![s] = set]
    BY <1>4 DEF set
  <2> QED BY <1>2, <1>3, <1>21, <2>1
<1>23. /\ excused' \in [Slots -> BOOLEAN] /\ (~excused'[s] => ~excused[s] /\ (st = 1 => OnlyTakes(sops)))
       /\ \A x \in Slots : x # s => excused'[x] = excused[x]
  BY <1>2, <1>3, <1>4
<1>24. /\ told' \in [Slots -> Int]
       /\ told'[s] = told[s] + (IF w.wait_state = "NOT_WAITING" THEN Gain(sops, st) ELSE 0)
       /\ \A x \in Slots : x # s => told'[x] = told[x]
  BY <1>2, <1>3, <1>17, <1>18
<1>25. TypePart'
  BY <1>1, <1>3, <1>4, <1>11, <1>19, <1>22, <1>23, <1>24 DEF TypePart
<1>26. SlotsPart'
  <2>1. \A x \in Slots : sets'[x].valid => sets[x].valid
    BY <1>3, <1>22
  <2> QED BY <1>1, <1>3, <2>1 DEF SlotsPart
<1>27. RecordOK(d, life[t], sets', excused')
  <2>1. CASE st = 1
    <3>1. SleeperOK(d, set, excused'[s])
      <4>1. d.effect = 0 /\ d.sops = sops
        BY <1>16, <2>1 DEF EndOK
      <4>2. Fits(sops, all.sems)
        BY <1>6, <1>20 DEF Fits
      <4>3. ASSUME ~excused'[s] PROVE sysvipc_sem_check(sops, all.sems).status # 0
        <5>1. OnlyTakes(sops) /\ mine.sems = q /\ ~excused[s]
          BY <1>8, <1>23, <2>1, <4>3 DEF st
        <5>2. Leq(all.sems, q, m)
          BY <1>10, <5>1 DEF WalkOK, q
        <5>3. sysvipc_sem_check(sops, q).status # 0
          BY <2>1 DEF st, mine
        <5> QED BY <1>6, <1>7, <1>20, <5>1, <5>2, <5>3, CheckLess
      <4> QED BY <1>21, <1>23, <2>1, <4>1, <4>2, <4>3 DEF SleeperOK
    <3> QED BY <1>3, <1>14, <1>16, <1>22, <2>1, <3>1 DEF EndOK, RecordOK
  <2>2. CASE st # 1
    <3>1. d.wait.wait_reason = "WR_NOT_WAITING" /\ WaitCoherent(d.wait)
      BY <1>16, <2>2 DEF EndOK
    <3>2. d.effect # 0 => d.wait.waiting_object_index = s /\ DoneOK(d, set)
      BY <1>16, <1>21 DEF EndOK, DoneOK
    <3> QED BY <1>3, <1>14, <1>22, <3>1, <3>2 DEF RecordOK
  <2> QED BY <2>1, <2>2
<1>28. ASSUME NEW u \in Tracees, u # t PROVE RecordOK(all.config[u], life[u], sets', excused')
  <2>1. RecordOK(config[u], life[u], sets, excused) /\ config[u] \in ConfigType
    BY InvAt
  <2>2. CASE all.config[u] = config[u] /\ u \in Sleepers(s)
    <3>1. /\ config[u].wait.wait_reason = "WR_WAIT_SEMOP" /\ config[u].wait.waiting_object_index = s
          /\ WaitCoherent(config[u].wait) /\ life[u] # "freed" /\ SleeperOK(config[u], sets[s], excused[s])
      BY <1>3, <2>2, SleeperIs
    <3>2. Fits(config[u].sops, all.sems)
      BY <1>20, <3>1 DEF Fits, SleeperOK, q
    <3>3. u + NumTracees > NumTracees
      BY SemAssumption DEF Tracees
    <3>4. ASSUME ~excused'[s]
          PROVE  OnlyTakes(config[u].sops) /\ sysvipc_sem_check(config[u].sops, all.sems).status # 0
      <4>1. ~excused[s]
        BY <1>23, <3>4
      <4> QED BY <1>10, <2>2, <1>28, <3>1, <3>3, <4>1 DEF WalkOK, SleeperOK
    <3>5. SleeperOK(config[u], set, excused'[s])
      BY <1>21, <3>1, <3>2, <3>4 DEF SleeperOK
    <3>6. config[u].effect = 0
      BY <3>1 DEF SleeperOK
    <3> QED BY <1>3, <1>22, <2>2, <3>1, <3>5, <3>6 DEF RecordOK
  <2>3. CASE all.config[u] = config[u] /\ u \notin Sleepers(s)
    <3>1. config[u].wait.wait_reason # "WR_WAIT_SEMOP" \/ config[u].wait.waiting_object_index # s
      BY <2>3, SleepersAre
    <3>2. CASE config[u].wait.waiting_object_index # s
      <4>1. \A x \in Slots : x # s => sets'[x] = sets[x] /\ excused'[x] = excused[x]
        BY <1>22, <1>23
      <4>2. RecordOK(config[u], life[u], sets', excused')
        BY <2>1, <3>2, <4>1, OtherSlotNext
      <4> QED BY <2>3, <4>2
    <3>3. CASE config[u].wait.waiting_object_index = s /\ config[u].wait.wait_reason # "WR_WAIT_SEMOP"
      <4>1. config[u].effect # 0 => DoneOK(config[u], set)
        BY <1>21, <2>1, <3>3 DEF RecordOK, DoneOK
      <4> QED BY <1>3, <1>22, <2>1, <2>3, <3>3, <4>1 DEF RecordOK
    <3> QED BY <3>1, <3>2, <3>3
  <2>4. CASE u \in Sleepers(s) /\ \E r \in Int : all.config[u] = Woken(config[u], r)
    <3>1. PICK r \in Int : all.config[u] = Woken(config[u], r)
      BY <2>4
    <3>2. /\ config[u].wait.wait_reason = "WR_WAIT_SEMOP" /\ config[u].wait.waiting_object_index = s
          /\ WaitCoherent(config[u].wait) /\ life[u] # "freed"
      BY <1>3, <2>4, SleeperIs
    <3> DEFINE c == all.config[u]
    <3>3. /\ c.effect = IF r = 0 THEN Effect(config[u].sops) ELSE 0
          /\ c.wait.wait_reason = "WR_NOT_WAITING" /\ WaitCoherent(c.wait)
          /\ c.wait.wait_state # "NOT_WAITING" /\ c.wait.status_after_wait = r
          /\ c.wait.waiting_object_index = s
      BY <2>1, <3>1, <3>2, WokenOK
    <3> HIDE DEF c
    <3>4. c.effect # 0 => DoneOK(c, set)
      BY <1>21, <3>3 DEF DoneOK
    <3>5. RecordOK(c, life[u], sets', excused')
      BY <1>3, <1>22, <3>2, <3>3, <3>4 DEF RecordOK
    <3> QED BY <3>5 DEF c
  <2> QED BY <1>12, <2>2, <2>3, <2>4
<1>29. RecordsPart'
  BY <1>3, <1>19, <1>27, <1>28 DEF RecordsPart
<1>30. Shares(config', s) = Shares(all.config, s) + Share(d, s)
  <2>1. Shares([all.config EXCEPT ![t] = d], s) = Shares(all.config, s) + Share(d, s) - Share(all.config[t], s)
    BY <1>11, <1>18, SharesUpdate
  <2>2. Share(all.config[t], s) = 0
    BY <1>13, <1>15, IdleShare DEF k
  <2>3. Shares(all.config, s) \in Int /\ Share(d, s) \in Int
    BY <1>11, <1>18, SharesInt, ShareInt
  <2> QED BY <1>17, <2>1, <2>2, <2>3
<1>31. SumsPart'
  <2> SUFFICES ASSUME NEW x \in Slots, sets'[x].valid
               PROVE  Total(sets'[x].sems) = told'[x] + Shares(config', x)
    BY DEF SumsPart
  <2>1. CASE x = s
    <3>1. Sum(all.sems, m) + Shares(config, s) = Sum(mine.sems, m) + Shares(all.config, s)
      BY <1>10 DEF WalkOK, q
    <3>2. Sum(mine.sems, m) = Sum(q, m) + Gain(sops, st)
      <4>1. Sum(q, m) \in Int
        BY <1>7, VecSumInt
      <4> QED BY <1>8, <4>1 DEF Gain, st
    <3>3. Sum(q, m) = told[s] + Shares(config, s)
      BY <1>1, <1>3 DEF SumsPart, Total, q
    <3>4. Share(d, s) = IF w.wait_state = "NOT_WAITING" THEN 0 ELSE Gain(sops, st)
      BY <1>16 DEF EndOK, Share
    <3>5. /\ Sum(all.sems, m) \in Int /\ Sum(q, m) \in Int /\ told[s] \in Int
          /\ Shares(config, s) \in Int /\ Shares(all.config, s) \in Int
      BY <1>2, <1>3, <1>7, <1>11, VecSumInt, SharesInt
    <3>6. told'[s] + Share(d, s) = told[s] + Gain(sops, st)
      BY <1>18, <1>24, <3>4, <3>5
    <3>7. told'[s] \in Int /\ Share(d, s) \in Int
      BY <1>3, <1>18, <1>24, ShareInt
    <3>8. Total(sets'[x].sems) = Sum(all.sems, m)
      BY <1>20, <1>21, <1>22, <2>1 DEF Total
    <3> DEFINE A == Sum(all.sems, m)
               C == Shares(config, s)
               L == Shares(all.config, s)
               Q == Sum(q, m)
               G == Gain(sops, st)
               T == told[s]
               U == told'[s]
               S == Share(d, s)
    <3>9. /\ A \in Int /\ C \in Int /\ L \in Int /\ Q \in Int /\ G \in Int /\ T \in Int
          /\ U \in Int /\ S \in Int
          /\ A + C = (Q + G) + L /\ Q = T + C /\ U + S = T + G
      BY <1>18, <3>1, <3>2, <3>3, <3>5, <3>6, <3>7
    <3>10. Total(sets'[x].sems) = A /\ Shares(config', x) = L + S /\ told'[x] = U
      BY <1>30, <2>1, <3>8
    <3> HIDE DEF A, C, L, Q, G, T, U, S
    <3>11. A = U + (L + S)
      BY <3>9
    <3> QED BY <3>10, <3>11
  <2>2. CASE x # s
    <3>1. \A u \in Tracees : Share(config'[u], x) = Share(config[u], x)
      <4> SUFFICES ASSUME NEW u \in Tracees PROVE Share(config'[u], x) = Share(config[u], x)
        OBVIOUS
      <4>1. CASE u = t
        <5>1. Share(d, x) = 0
          BY <1>16, <2>2 DEF EndOK, Share
        <5>2. Share(config[t], x) = 0
          BY <1>15, IdleShare
        <5> QED BY <1>19, <4>1, <5>1, <5>2
      <4>2. CASE u # t /\ all.config[u] = config[u]
        BY <1>19, <4>2
      <4>3. CASE u # t /\ u \in Sleepers(s) /\ \E r \in Int : all.config[u] = Woken(config[u], r)
        <5>1. PICK r \in Int : all.config[u] = Woken(config[u], r)
          BY <4>3
        <5>2. /\ config[u] \in ConfigType /\ WaitCoherent(config[u].wait)
              /\ config[u].wait.wait_reason = "WR_WAIT_SEMOP" /\ config[u].wait.waiting_object_index = s
          BY <1>3, <4>3, SleeperIs
        <5>3. all.config[u].wait.waiting_object_index = s
          BY <5>1, <5>2, WokenOK
        <5> QED BY <1>19, <2>2, <4>3, <5>2, <5>3 DEF Share
      <4> QED BY <1>12, <1>13, <4>1, <4>2, <4>3
    <3>2. Shares(config', x) = Shares(config, x)
      BY <3>1, SharesSame
    <3>3. sets'[x] = sets[x] /\ told'[x] = told[x]
      BY <1>22, <1>24, <2>2
    <3> QED BY <1>1, <3>2, <3>3 DEF SumsPart
  <2> QED BY <2>1, <2>2
<1> QED BY <1>25, <1>26, <1>29, <1>31 DEF Inv

-----------------------------------------------------------------------------
(* No set exists yet, and every tracee is in its own code.                 *)
LEMMA InitOK == Init => Inv
<1> SUFFICES ASSUME Init PROVE Inv
  OBVIOUS
<1>1. Empty \in SetType /\ ~Empty.valid
  <2>1. <<>> \in Seq(Values)
    OBVIOUS
  <2> QED BY <2>1 DEF Empty, SetType
<1>2. InitConfig \in ConfigType /\ Idle(InitConfig)
  BY InitConfigOK
<1>3. \A s \in Slots : sets[s] = Empty
  BY DEF Init
<1>4. \A t \in Tracees : config[t] = InitConfig /\ life[t] = "running"
  BY DEF Init
<1>5. TypePart
  BY <1>1, <1>2, SemAssumption DEF Init, TypePart, Lives
<1>6. SlotsPart /\ SumsPart
  BY <1>1, <1>3 DEF SlotsPart, SumsPart
<1>7. RecordsPart
  BY <1>2, <1>4, IdleOK DEF RecordsPart
<1> QED BY <1>5, <1>6, <1>7 DEF Inv

(* Every step keeps the invariant: one case for each action.               *)
LEMMA NextOK == Inv /\ [Next]_vars => Inv'
<1> SUFFICES ASSUME Inv, [Next]_vars PROVE Inv'
  OBVIOUS
<1>1. CASE Next
  <2>1. PICK t \in Tracees :
          \/ Get(t)
          \/ \E id \in Ids, sops \in Sops : SemOp(t, id, sops)
          \/ \E id \in Ids, num \in 1 .. MaxSize, val \in SetVals : SemSetVal(t, id, num, val)
          \/ \E id \in Ids : SemRmid(t, id)
          \/ SemOpRefused(t) \/ SemCtlOther(t)
          \/ ReenterPpoll(t) \/ PpollInterrupted(t) \/ ParkedCallEnds(t)
          \/ Kill(t) \/ Reap(t)
    BY <1>1 DEF Next
  <2>2. CASE Get(t)
    BY <2>2, SemGetOK DEF Get
  <2>3. CASE \E id \in Ids, sops \in Sops : SemOp(t, id, sops)
    BY <2>3, SemOpOK
  <2>4. CASE \E id \in Ids, num \in 1 .. MaxSize, val \in SetVals : SemSetVal(t, id, num, val)
    BY <2>4, SemSetValOK
  <2>5. CASE \E id \in Ids : SemRmid(t, id)
    BY <2>5, SemRmidOK
  <2>6. CASE SemOpRefused(t) \/ SemCtlOther(t)
    BY <2>6, SemOpRefusedOK, SemCtlOtherOK
  <2>7. CASE ReenterPpoll(t) \/ PpollInterrupted(t) \/ ParkedCallEnds(t)
    BY <2>7, ReenterPpollOK, PpollInterruptedOK, ParkedCallEndsOK
  <2>8. CASE Kill(t) \/ Reap(t)
    BY <2>8, KillOK, ReapOK
  <2> QED BY <2>1, <2>2, <2>3, <2>4, <2>5, <2>6, <2>7, <2>8
<1>2. CASE UNCHANGED vars
  <2>1. /\ sets' = sets /\ num_sets' = num_sets /\ config' = config /\ life' = life
        /\ told' = told /\ excused' = excused /\ failed' = failed
    BY <1>2 DEF vars
  <2>2. TypePart' /\ SlotsPart'
    BY <2>1 DEF Inv, TypePart, SlotsPart
  <2>3. RecordsPart'
    BY <2>1 DEF Inv, RecordsPart
  <2>4. SumsPart'
    BY <2>1 DEF Inv, SumsPart
  <2> QED BY <2>2, <2>3, <2>4 DEF Inv
<1> QED BY <1>1, <1>2

(* Inv holds of every reachable state.                                     *)
LEMMA InvAlways == Spec => []Inv
BY InitOK, NextOK, PTL DEF Spec

(* TakersServed is a part of the invariant: the values are in their range, *)
(* the waits are coherent, no assertion failed, and a sleeper of a set     *)
(* that is not excused is a SleeperOK one.                                 *)
LEMMA InvServes == Inv => TakersServed
<1> SUFFICES ASSUME Inv PROVE TakersServed
  OBVIOUS
<1>1. ValuesAndWaitsOk
  <2>1. ASSUME NEW s \in Slots, NEW i \in DOMAIN sets[s].sems PROVE sets[s].sems[i] \in 0 .. MaxVal
    <3>1. sets[s].sems \in Seq(Values)
      BY DEF Inv, TypePart, SetType
    <3> DEFINE q == sets[s].sems
    <3>2. q \in Seq(Values) /\ i \in DOMAIN q
      BY <2>1, <3>1
    <3> HIDE DEF q
    <3>3. q[i] \in Values
      BY <3>2
    <3> QED BY <3>3 DEF q, Values
  <2>2. ASSUME NEW t \in Tracees PROVE WaitCoherent(config[t].wait)
    BY InvAt DEF RecordOK
  <2>3. failed = "none"
    BY DEF Inv, TypePart
  <2> QED BY <2>1, <2>2, <2>3 DEF ValuesAndWaitsOk
<1>2. ASSUME NEW s \in Slots, ~excused[s], NEW t \in Sleepers(s)
      PROVE  sysvipc_sem_check(config[t].sops, sets[s].sems).status # 0
  BY <1>2, SleeperIs DEF SleeperOK
<1> QED BY <1>1, <1>2 DEF TakersServed

(* For any number of tracees and sets, whatever semop, semctl, signals,    *)
(* timeouts and deaths do: the values of a set are what SETVAL wrote plus  *)
(* the operations of exactly those semop calls that returned 0, are about  *)
(* to, or whose callers died first.  An operation that is executed by      *)
(* another tracee's walk is neither lost nor done twice, and a refused or  *)
(* interrupted one leaves nothing behind.                                  *)
THEOREM EffectsAreTold == Spec => []EffectIffToldSo
<1>1. Inv => EffectIffToldSo
  BY SumsPartIs DEF Inv
<1> QED BY <1>1, InvAlways, PTL

(* For any number of tracees and sets: values stay in 0 .. SYSVIPC_MAX_    *)
(* SEMVAL, the assertions about waiting hold, and on a set whose waiters   *)
(* only take and that SETVAL leaves alone nobody sleeps on operations that *)
(* could be executed, although sysvipc_semop walks the tracees only once.  *)
THEOREM TakersAreServed == Spec => []TakersServed
BY InvAlways, InvServes, PTL
=============================================================================
