--------------------------- MODULE SysVMsgProofs ---------------------------
(***************************************************************************)
(* What SysVMsg guarantees for any number of tracees, queues, messages and *)
(* removals.  The argument is one inductive invariant, Inv: the types, the *)
(* coherence of every wait record, and the fact that a receiver only ever  *)
(* waits for a slot that exists (RecordOK), which is what makes the        *)
(* record a waker leaves behind usable by sysvipc_msgrcv_retry.            *)
(***************************************************************************)
EXTENDS SysVMsg, TLAPS, FiniteSetTheorems, WellFoundedInduction, SequenceTheorems

-----------------------------------------------------------------------------
(* The loops of the code that stop at the first match find one: Least of   *)
(* a non-empty set of naturals is in it and minimal.                       *)
LEMMA LeastInSet ==
  ASSUME NEW S \in SUBSET Nat, S # {}
  PROVE  Least(S) \in S /\ \A u \in S : Least(S) <= u
<1> DEFINE Less == {ss \in Nat \X Nat : ss[1] < ss[2]}
<1>1. IsWellFoundedOn(Less, Nat)
  BY NatLessThanWellFounded DEF OpToRel
<1>2. \E x \in S : \A y \in S : ~(<<y, x>> \in Less)
  <2> HIDE DEF Less
  <2> QED BY <1>1, WFMin
<1>3. PICK x \in S : \A y \in S : ~(<<y, x>> \in Less)
  BY <1>2
<1>4. ASSUME NEW y \in S PROVE x <= y
  <2>1. x \in Nat /\ y \in Nat
    OBVIOUS
  <2>2. y < x => <<y, x>> \in Less
    BY <2>1
  <2> QED BY <1>3, <2>1, <2>2
<1> QED
  BY <1>4 DEF Least

(* The tracees list is finite, so the search for a waiting receiver ends   *)
(* at one of them: FirstInList of a non-empty finite set is in it.         *)
LEMMA FirstInListInSet ==
  ASSUME NEW S \in SUBSET Nat, IsFiniteSet(S), S # {}
  PROVE  FirstInList(S) \in S /\ \A u \in S : u <= FirstInList(S)
<1> DEFINE HasLast(T) == \E t \in T : \A u \in T : u <= t
           Bad == {T \in FiniteSubsetsOf(Nat) : T # {} /\ ~HasLast(T)}
<1>1. Bad = {}
  <2>1. SUFFICES ASSUME Bad # {} PROVE FALSE
    OBVIOUS
  <2>2. Bad \subseteq FiniteSubsetsOf(Nat)
    OBVIOUS
  <2> HIDE DEF Bad
  <2>3. \E T \in Bad : \A U \in Bad : ~(<<U, T>> \in StrictSubsetOrdering(Nat))
    BY <2>1, <2>2, FS_StrictSubsetOrderingWellFounded, WFMin
  <2>4. PICK T \in Bad : \A U \in Bad : ~(<<U, T>> \in StrictSubsetOrdering(Nat))
    BY <2>3
  <2>5. T \in SUBSET Nat /\ IsFiniteSet(T) /\ T # {} /\ ~HasLast(T)
    BY <2>4 DEF Bad, FiniteSubsetsOf
  <2>6. PICK x \in T : TRUE
    BY <2>5
  <2>7. IsFiniteSet(T \ {x})
    BY <2>5, FS_RemoveElement
  <2>8. <<T \ {x}, T>> \in StrictSubsetOrdering(Nat)
    BY <2>5, <2>6 DEF StrictSubsetOrdering
  <2>9. T \ {x} \notin Bad
    BY <2>4, <2>8
  <2>10. T \ {x} = {} \/ HasLast(T \ {x})
    BY <2>5, <2>7, <2>9 DEF Bad, FiniteSubsetsOf
  <2>11. HasLast(T)
    <3>1. CASE T \ {x} = {}
      BY <3>1, <2>5, <2>6
    <3>2. CASE HasLast(T \ {x})
      <4>1. PICK y \in T \ {x} : \A u \in T \ {x} : u <= y
        BY <3>2
      <4>2. CASE x <= y
        BY <4>1, <4>2, <2>5, <2>6
      <4>3. CASE ~(x <= y)
        <5>1. \A u \in T : u <= x
          BY <4>1, <4>3, <2>5, <2>6
        <5> QED BY <5>1, <2>6
      <4> QED BY <4>2, <4>3
    <3> QED BY <3>1, <3>2, <2>10
  <2> QED BY <2>5, <2>11
<1>2. HasLast(S)
  BY <1>1 DEF FiniteSubsetsOf
<1> QED
  BY <1>2 DEF FirstInList

(* Removing one item from a queue leaves a queue that is one shorter.      *)
LEMMA WithoutIsSeq ==
  ASSUME NEW S, NEW q \in Seq(S), NEW i \in 1 .. Len(q)
  PROVE  Without(q, i) \in Seq(S) /\ Len(Without(q, i)) = Len(q) - 1
<1> DEFINE n == Len(q) - 1
<1>1. Len(q) \in Nat /\ n \in Nat /\ \A j \in 1 .. Len(q) : q[j] \in S
  BY LenProperties, ElementOfSeq
<1>2. Without(q, i) \in [1 .. n -> S]
  BY <1>1 DEF Without
<1>3. Without(q, i) \in Seq(S)
  BY <1>1, <1>2, SeqDef
<1>4. Len(Without(q, i)) = n
  BY <1>1, <1>2, <1>3, LenProperties
<1> QED
  BY <1>3, <1>4

(* What sysvipc_do_msgrcv answers, and the position it takes.              *)
LEMMA DoMsgrcvType ==
  ASSUME NEW a, a.sz \in Int, NEW items \in Seq(Item)
  PROVE  /\ sysvipc_do_msgrcv(a, items).status \in Int
         /\ sysvipc_do_msgrcv(a, items).waits \in BOOLEAN
         /\ sysvipc_do_msgrcv(a, items).took \in {0} \cup (1 .. Len(items))
<1> DEFINE C == Candidates(a, items)
           i == Least(C)
           st == sysvipc_msg_deliver(a, items[i])
<1>1. Len(items) \in Nat /\ DOMAIN items = 1 .. Len(items)
  BY LenProperties
<1>2. C \in SUBSET (1 .. Len(items))
  BY <1>1 DEF Candidates
<1>3. ASSUME C # {} PROVE i \in 1 .. Len(items) /\ st \in Int
  <2>1. C \in SUBSET Nat
    BY <1>1, <1>2
  <2>2. i \in C
    BY <1>3, <2>1, LeastInSet
  <2>3. items[i].len \in Nat
    <3>1. i \in 1 .. Len(items)
      BY <1>2, <2>2
    <3>2. items[i] \in Item
      BY <3>1, ElementOfSeq
    <3> QED BY <3>2 DEF Item
  <2>4. st \in Int
    BY <2>3 DEF sysvipc_msg_deliver, E2BIG, EFAULT
  <2> QED BY <1>2, <2>2, <2>4
<1>4. CASE BadRcvArgs(a)
  BY <1>4 DEF sysvipc_do_msgrcv, EINVAL
<1>5. CASE ~BadRcvArgs(a) /\ C = {}
  <2>1. sysvipc_do_msgrcv(a, items) =
          [status |-> IF "IPC_NOWAIT" \in a.flg THEN ENOMSG ELSE 0,
           waits |-> "IPC_NOWAIT" \notin a.flg, took |-> 0]
    BY <1>5 DEF sysvipc_do_msgrcv
  <2>2. ("IPC_NOWAIT" \notin a.flg) \in BOOLEAN
    OBVIOUS
  <2> QED BY <2>1, <2>2 DEF ENOMSG
<1>6. CASE ~BadRcvArgs(a) /\ C # {}
  <2>1. sysvipc_do_msgrcv(a, items) =
          [status |-> st, waits |-> FALSE,
           took |-> IF st >= 0 /\ "MSG_COPY" \notin a.flg THEN i ELSE 0]
    BY <1>6 DEF sysvipc_do_msgrcv
  <2> HIDE DEF i, st
  <2> QED BY <1>3, <1>6, <2>1
<1> QED
  BY <1>4, <1>5, <1>6

-----------------------------------------------------------------------------
ConfigType == [wait : WaitType, args : RcvArgs \cup {NoArgs}]

(* What the invariant says of one tracee's record, when the array of       *)
(* queues has n slots.                                                     *)
RecordOK(c, n) ==
  /\ c \in ConfigType
  /\ WaitCoherent(c.wait)
  /\ c.wait.chain_state = "MSGRCV_RETRY" =>
       /\ c.wait.wait_state \in {"RESTARTED_INTO_PPOLL_CANCELED", "SIGNALED_PPOLL"}
       /\ c.wait.status_after_wait = EAGAIN
       /\ c.wait.waiting_object_index \in 1 .. n
  /\ c.wait.wait_reason # "WR_NOT_WAITING" => c.wait.waiting_object_index \in 1 .. n

(* The end of a handler that does not wait.                                *)
LEMMA CommonOK ==
  ASSUME NEW c, NEW n \in Nat, RecordOK(c, n), InUserCode(c.wait),
         NEW st \in Int, NEW b \in BOOLEAN
  PROVE  RecordOK([c EXCEPT !.wait = sysvipc_syscall_common(@, st, b)], n)
BY DEF RecordOK, ConfigType, WaitType, WaitStates, WaitCoherent, InUserCode,
       sysvipc_syscall_common

(* The end of msgrcv on an empty queue: the receiver is parked.            *)
LEMMA ParkOK ==
  ASSUME NEW c, NEW n \in Nat, RecordOK(c, n), InUserCode(c.wait),
         NEW st \in Int, NEW b \in BOOLEAN, NEW s \in Slots, s \in 1 .. n
  PROVE  RecordOK([StartWait(c, s) EXCEPT !.wait = sysvipc_syscall_common(@, st, b)], n)
BY DEF RecordOK, ConfigType, WaitType, WaitStates, WaitCoherent, InUserCode,
       sysvipc_syscall_common, StartWait

(* Forgetting what is not read again.                                      *)
LEMMA TidyOK ==
  ASSUME NEW c, NEW n \in Nat, RecordOK(c, n)
  PROVE  RecordOK(Tidy(c), n)
<1>1. CASE c.wait.wait_state \in {"NOT_WAITING", "ENTERED_GETPID"}
  <2> DEFINE w == [c.wait EXCEPT !.status_after_wait = 0, !.waiting_object_index = 0]
  <2>1. Tidy(c) = [wait |-> w, args |-> NoArgs]
    BY <1>1 DEF Tidy
  <2>2. /\ c.wait \in WaitType /\ c.wait.wait_reason = "WR_NOT_WAITING"
        /\ c.wait.chain_state # "MSGRCV_RETRY"
    BY <1>1 DEF RecordOK, ConfigType, WaitCoherent
  <2>3. /\ w \in WaitType /\ w.wait_reason = "WR_NOT_WAITING"
        /\ w.chain_state # "MSGRCV_RETRY" /\ w.wait_state = c.wait.wait_state
    <3> DEFINE x == [c.wait EXCEPT !.status_after_wait = 0]
    <3>1. /\ x \in WaitType /\ x.wait_reason = "WR_NOT_WAITING"
          /\ x.chain_state # "MSGRCV_RETRY" /\ x.wait_state = c.wait.wait_state
      BY <2>2 DEF WaitType
    <3>2. w = [x EXCEPT !.waiting_object_index = 0]
      OBVIOUS
    <3> HIDE DEF x, w
    <3> QED BY <3>1, <3>2 DEF WaitType
  <2> HIDE DEF w
  <2> QED BY <1>1, <2>1, <2>3 DEF RecordOK, ConfigType, WaitCoherent
<1>2. CASE c.wait.wait_state \notin {"NOT_WAITING", "ENTERED_GETPID"}
  BY <1>2 DEF Tidy
<1> QED
  BY <1>1, <1>2

(* A waiting tracee can be woken, and is coherent afterwards: with a       *)
(* final status, or to retry its msgrcv.                                   *)
LEMMA WakeOK ==
  ASSUME NEW c, NEW n \in Nat, RecordOK(c, n), c.wait.wait_reason # "WR_NOT_WAITING",
         NEW st \in Int
  PROVE  /\ CanWake(c.wait)
         /\ RecordOK([c EXCEPT !.wait = sysvipc_wake_tracee(@, st)], n)
         /\ RecordOK([c EXCEPT !.wait = [sysvipc_wake_tracee(@, EAGAIN)
                                           EXCEPT !.chain_state = "MSGRCV_RETRY"]], n)
<1> DEFINE w == sysvipc_wake_tracee(c.wait, st)
           v == [sysvipc_wake_tracee(c.wait, EAGAIN) EXCEPT !.chain_state = "MSGRCV_RETRY"]
<1>1. /\ c.wait \in WaitType /\ c.args \in RcvArgs \cup {NoArgs}
      /\ c = [wait |-> c.wait, args |-> c.args]
      /\ c.wait.wait_state \in {"ENTERED_PPOLL", "RESTARTED_INTO_PPOLL"}
      /\ c.wait.chain_state # "MSGRCV_RETRY"
      /\ c.wait.waiting_object_index \in 1 .. n
  BY DEF RecordOK, ConfigType, WaitCoherent
<1>2. CanWake(c.wait)
  BY <1>1 DEF CanWake
<1>3. /\ w \in WaitType /\ w.wait_reason = "WR_NOT_WAITING"
      /\ w.wait_state \in {"SIGNALED_PPOLL", "RESTARTED_INTO_PPOLL_CANCELED"}
      /\ w.chain_state # "MSGRCV_RETRY"
  BY <1>1 DEF WaitType, WaitStates, sysvipc_wake_tracee
<1>4. EAGAIN \in Int
  BY DEF EAGAIN
<1>5. /\ v \in WaitType /\ v.wait_reason = "WR_NOT_WAITING"
      /\ v.wait_state \in {"SIGNALED_PPOLL", "RESTARTED_INTO_PPOLL_CANCELED"}
      /\ v.status_after_wait = EAGAIN /\ v.waiting_object_index \in 1 .. n
  BY <1>1, <1>4 DEF WaitType, WaitStates, sysvipc_wake_tracee
<1>6. /\ [c EXCEPT !.wait = w] = [wait |-> w, args |-> c.args]
      /\ [c EXCEPT !.wait = v] = [wait |-> v, args |-> c.args]
  BY <1>1
<1> HIDE DEF w, v
<1>7. RecordOK([wait |-> w, args |-> c.args], n) /\ RecordOK([wait |-> v, args |-> c.args], n)
  BY <1>1, <1>3, <1>5 DEF RecordOK, ConfigType, WaitCoherent
<1> QED
  BY <1>2, <1>6, <1>7 DEF w, v

(* More slots never hurt a record.                                         *)
LEMMA RecordOKMonotone ==
  ASSUME NEW c, NEW n \in Nat, NEW m \in Nat, n <= m, RecordOK(c, n)
  PROVE  RecordOK(c, m)
BY DEF RecordOK

-----------------------------------------------------------------------------
(* The inductive invariant, part by part.                                  *)
LogType == Seq([item : Item, slot : Slots, generation : Nat])

QueuesPart == /\ queues \in [Slots -> QueueType]
              /\ num_queues \in 0 .. MaxQueues
              /\ StatsAgree
HistoryPart == sent \in Nat /\ log \in LogType /\ removed \subseteq Nat
ConfigPart == /\ config \in [Tracees -> ConfigType]
              /\ \A t \in Tracees : RecordOK(config[t], num_queues)
LifePart == life \in [Tracees -> {"running", "killed", "freed"}]
FailedPart == failed \in {"none", "queue_valid"}

Inv == QueuesPart /\ HistoryPart /\ ConfigPart /\ LifePart /\ FailedPart

(* The properties follow from the invariant.                               *)
LEMMA InvImplies == Inv => TypeOK /\ WaitsCoherent /\ WaitAssertsHold /\ StatsAgree
<1> SUFFICES ASSUME Inv PROVE TypeOK /\ WaitsCoherent /\ WaitAssertsHold /\ StatsAgree
  OBVIOUS
<1>1. TypeOK
  BY DEF Inv, QueuesPart, HistoryPart, ConfigPart, LifePart, FailedPart, TypeOK, LogType,
         ConfigType
<1>2. WaitsCoherent
  BY DEF Inv, ConfigPart, RecordOK, WaitsCoherent
<1>3. WaitAssertsHold /\ StatsAgree
  BY DEF Inv, QueuesPart, FailedPart, WaitAssertsHold
<1> QED
  BY <1>1, <1>2, <1>3

(* The invariant holds when PRoot starts.                                  *)
LEMMA InitInv == Init => Inv
<1> SUFFICES ASSUME Init PROVE Inv
  OBVIOUS
<1>1. <<>> \in Seq(Item) /\ Len(<<>>) = 0 /\ <<>> \in LogType
  BY EmptySeq DEF LogType
<1>2. Empty \in QueueType
  BY <1>1 DEF Empty, QueueType, IPC_PRIVATE
<1>3. QueuesPart
  BY <1>2, BoundsAssumption DEF Init, QueuesPart, StatsAgree, Empty
<1>4. InitWait \in WaitType
  BY DEF InitWait, WaitType, WaitStates
<1>5. RecordOK(InitConfig, 0)
  BY <1>4 DEF RecordOK, InitConfig, ConfigType, WaitCoherent, InitWait
<1>6. ConfigPart
  BY <1>5 DEF Init, ConfigPart, RecordOK
<1>7. HistoryPart /\ LifePart /\ FailedPart
  BY <1>1 DEF Init, HistoryPart, LifePart, FailedPart
<1> QED
  BY <1>3, <1>6, <1>7 DEF Inv

(* A handler that answers its own tracee without waiting.                  *)
LEMMA AnswerOK ==
  ASSUME ConfigPart, QueuesPart, NEW t \in Tracees, NEW c, NEW st \in Int,
         RecordOK(c, num_queues), InUserCode(c.wait), Answer(t, c, st),
         num_queues' \in Nat, num_queues <= num_queues'
  PROVE  ConfigPart'
<1>1. num_queues \in Nat
  BY BoundsAssumption DEF QueuesPart
<1>2. PICK b \in BOOLEAN : config' = [config EXCEPT ![t] =
                 Tidy([c EXCEPT !.wait = sysvipc_syscall_common(@, st, b)])]
  BY DEF Answer
<1> DEFINE d == Tidy([c EXCEPT !.wait = sysvipc_syscall_common(@, st, b)])
<1>3. RecordOK(d, num_queues)
  BY <1>1, CommonOK, TidyOK
<1>4. RecordOK(d, num_queues') /\ d \in ConfigType
  BY <1>1, <1>3, RecordOKMonotone DEF RecordOK
<1> HIDE DEF d
<1>5. \A u \in Tracees : RecordOK(config[u], num_queues')
  BY <1>1, RecordOKMonotone DEF ConfigPart
<1>6. config' = [config EXCEPT ![t] = d]
  BY <1>2 DEF d
<1> QED
  BY <1>4, <1>5, <1>6 DEF ConfigPart

(* The same for msgrcv that parks its tracee.                              *)
LEMMA AnswerParkedOK ==
  ASSUME ConfigPart, QueuesPart, NEW t \in Tracees, NEW c, NEW st \in Int,
         NEW s \in Slots, s \in 1 .. num_queues,
         RecordOK(c, num_queues), InUserCode(c.wait), Answer(t, StartWait(c, s), st),
         num_queues' = num_queues
  PROVE  ConfigPart'
<1>1. num_queues \in Nat
  BY BoundsAssumption DEF QueuesPart
<1>2. PICK b \in BOOLEAN : config' = [config EXCEPT ![t] =
             Tidy([StartWait(c, s) EXCEPT !.wait = sysvipc_syscall_common(@, st, b)])]
  BY DEF Answer
<1> DEFINE d == Tidy([StartWait(c, s) EXCEPT !.wait = sysvipc_syscall_common(@, st, b)])
<1>3. RecordOK(d, num_queues)
  BY <1>1, ParkOK, TidyOK
<1> HIDE DEF d
<1>4. config' = [config EXCEPT ![t] = d] /\ d \in ConfigType
  BY <1>2, <1>3 DEF d, RecordOK
<1> QED
  BY <1>3, <1>4 DEF ConfigPart

(* The queue's side of a receive.                                          *)
LEMMA ConsumeOK ==
  ASSUME QueuesPart, HistoryPart, NEW s \in Slots, NEW r,
         r.took \in {0} \cup (1 .. Len(queues[s].items)),
         Consume(s, r), UNCHANGED <<num_queues, sent, removed>>
  PROVE  QueuesPart' /\ HistoryPart'
<1>1. CASE r.took = 0
  <2>1. UNCHANGED <<queues, log>>
    BY <1>1 DEF Consume
  <2> QED BY <2>1 DEF QueuesPart, HistoryPart, StatsAgree
<1>2. CASE r.took # 0
  <2> DEFINE q == queues[s]
             items == Without(q.items, r.took)
             p == [q EXCEPT !.items = items, !.qnum = q.qnum - 1]
             e == [item |-> q.items[r.took], slot |-> s, generation |-> q.generation]
  <2>1. /\ queues' = [queues EXCEPT ![s].items = Without(@, r.took), ![s].qnum = @ - 1]
        /\ log' = Append(log, e)
    BY <1>2 DEF Consume
  <2>2. q \in QueueType /\ r.took \in 1 .. Len(q.items)
    BY <1>2 DEF QueuesPart
  <2>3. q.items \in Seq(Item) /\ q.qnum \in Int /\ q.generation \in Nat
    BY <2>2 DEF QueueType
  <2>4. items \in Seq(Item) /\ Len(items) = Len(q.items) - 1
    BY <2>2, <2>3, WithoutIsSeq
  <2>5. q.items[r.took] \in Item
    BY <2>2, <2>3, ElementOfSeq
  <2>6. log' \in LogType
    BY <2>1, <2>3, <2>5, AppendProperties DEF HistoryPart, LogType
  <2>7. queues' = [queues EXCEPT ![s] = p]
    BY <2>1 DEF QueuesPart
  <2>8. /\ p \in QueueType /\ p.items = items /\ p.qnum = q.qnum - 1 /\ p.valid = q.valid
    <3> DEFINE x == [q EXCEPT !.items = items]
    <3> HIDE DEF items
    <3>1. /\ x \in QueueType /\ x.items = items /\ x.qnum = q.qnum /\ x.valid = q.valid
      <4> HIDE DEF q
      <4> QED BY <2>2, <2>4 DEF QueueType
    <3>2. p = [x EXCEPT !.qnum = q.qnum - 1]
      OBVIOUS
    <3> HIDE DEF x, p, q
    <3> QED BY <2>3, <3>1, <3>2 DEF QueueType
  <2>9. p.valid => p.qnum = Len(p.items)
    BY <2>4, <2>8 DEF QueuesPart, StatsAgree
  <2> HIDE DEF p, q
  <2> QED BY <2>6, <2>7, <2>8, <2>9 DEF QueuesPart, StatsAgree, HistoryPart
<1> QED
  BY <1>1, <1>2

(* One queue replaced by a well-formed one.                                *)
LEMMA QueueReplaced ==
  ASSUME QueuesPart, NEW s \in Slots, NEW p \in QueueType,
         p.valid => p.qnum = Len(p.items),
         queues' = [queues EXCEPT ![s] = p], num_queues' \in 0 .. MaxQueues
  PROVE  QueuesPart'
BY DEF QueuesPart, StatsAgree

(* One record replaced by one that is OK.                                  *)
LEMMA RecordReplaced ==
  ASSUME ConfigPart, NEW t \in Tracees, NEW d, RecordOK(d, num_queues),
         config' = [config EXCEPT ![t] = d], num_queues' = num_queues
  PROVE  ConfigPart'
<1>1. d \in ConfigType
  BY DEF RecordOK
<1> QED
  BY <1>1 DEF ConfigPart

(* A tracee that issues a call has an OK record and does not wait.         *)
LEMMA ReadyOK ==
  ASSUME Inv, NEW t \in Tracees, Ready(t)
  PROVE  /\ RecordOK(config[t], num_queues) /\ InUserCode(config[t].wait)
         /\ num_queues \in Nat
BY BoundsAssumption DEF Inv, ConfigPart, QueuesPart, Ready

(* The handlers that touch nothing but their tracee.                       *)
LEMMA AnswerOnly ==
  ASSUME Inv, NEW t \in Tracees, Ready(t), NEW st \in Int, Answer(t, config[t], st),
         UNCHANGED <<queues, num_queues, life, sent, log, removed, failed>>
  PROVE  Inv'
<1>1. ConfigPart'
  BY ReadyOK, AnswerOK DEF Inv
<1>2. QueuesPart' /\ HistoryPart' /\ LifePart' /\ FailedPart'
  BY DEF Inv, QueuesPart, StatsAgree, HistoryPart, LifePart, FailedPart
<1> QED
  BY <1>1, <1>2 DEF Inv

(* msgget keeps it: a reused slot is emptied before it is valid again.     *)
LEMMA MsgGetInv ==
  ASSUME Inv, NEW t \in Tracees, NEW key \in Keys, NEW creat \in BOOLEAN,
         NEW excl \in BOOLEAN, MsgGet(t, key, creat, excl)
  PROVE  Inv'
<1> USE DEF MsgGet
<1>0. Ready(t) /\ num_queues \in Nat
  BY ReadyOK
<1>1. CASE Matching(key) # {}
  <2>1. Matching(key) \in SUBSET Nat
    BY <1>0 DEF Matching
  <2>2. Least(Matching(key)) \in Nat
    BY <1>1, <2>1, LeastInSet
  <2> DEFINE st == IF creat /\ excl THEN EEXIST ELSE Least(Matching(key))
  <2>3. st \in Int
    BY <2>2 DEF EEXIST
  <2>4. Answer(t, config[t], st)
    BY <1>1
  <2> HIDE DEF st
  <2> QED BY <1>0, <1>1, <2>3, <2>4, AnswerOnly
<1>2. CASE Matching(key) = {} /\ ~creat
  <2>1. ENOENT \in Int
    BY DEF ENOENT
  <2>2. Answer(t, config[t], ENOENT)
    BY <1>2
  <2> QED BY <1>0, <1>2, <2>1, <2>2, AnswerOnly
<1>3. CASE Matching(key) = {} /\ creat
  <2> DEFINE s == IF Unused # {} THEN Least(Unused) ELSE num_queues + 1
             p == [queues[s] EXCEPT !.key = key, !.valid = TRUE, !.items = <<>>, !.qnum = 0]
  <2>1. /\ s \in Slots
        /\ num_queues' = IF s > num_queues THEN s ELSE num_queues
        /\ queues' = [queues EXCEPT ![s] = p]
        /\ Answer(t, config[t], s)
    BY <1>3
  <2>2. p \in QueueType /\ p.qnum = Len(p.items)
    <3> DEFINE q == queues[s]
               x == [q EXCEPT !.key = key]
               y == [x EXCEPT !.valid = TRUE]
               z == [y EXCEPT !.items = <<>>]
    <3>1. q \in QueueType
      BY <2>1 DEF Inv, QueuesPart
    <3>2. p = [z EXCEPT !.qnum = 0]
      OBVIOUS
    <3>3. <<>> \in Seq(Item) /\ Len(<<>>) = 0
      BY EmptySeq
    <3> HIDE DEF q, p
    <3>4. x \in QueueType
      BY <3>1 DEF QueueType
    <3> HIDE DEF x
    <3>5. y \in QueueType
      BY <3>4 DEF QueueType
    <3> HIDE DEF y
    <3>6. z \in QueueType /\ z.items = <<>>
      BY <3>3, <3>5 DEF QueueType
    <3> HIDE DEF z
    <3> QED BY <3>2, <3>3, <3>6 DEF QueueType
  <2> HIDE DEF s, p
  <2>3. num_queues' \in 0 .. MaxQueues /\ num_queues <= num_queues' /\ s \in Int
    BY <1>0, <2>1, BoundsAssumption DEF Slots, Inv, QueuesPart
  <2>4. QueuesPart'
    BY <2>1, <2>2, <2>3, QueueReplaced DEF Inv
  <2>5. num_queues' \in Nat
    BY <2>3, BoundsAssumption
  <2>6. ConfigPart'
    BY <1>0, <2>1, <2>3, <2>5, ReadyOK, AnswerOK DEF Inv
  <2>7. HistoryPart' /\ LifePart' /\ FailedPart'
    BY DEF Inv, HistoryPart, LifePart, FailedPart
  <2> QED BY <2>4, <2>6, <2>7 DEF Inv
<1> QED
  BY <1>1, <1>2, <1>3

(* msgsnd keeps it: the receiver it wakes was waiting, so it can be woken. *)
LEMMA MsgSndInv ==
  ASSUME Inv, NEW t \in Tracees, NEW id \in Ids, NEW m \in Messages, MsgSnd(t, id, m)
  PROVE  Inv'
<1> DEFINE s == id[1]
           woken == Receivers(s, m.mtype)
           r == FirstInList(woken)
           item == [id |-> sent + 1, mtype |-> m.mtype, len |-> m.len, announced |-> woken # {}]
           q == queues[s]
           items == Append(q.items, item)
           p == [q EXCEPT !.items = items, !.qnum = q.qnum + 1]
<1>1. /\ Ready(t) /\ sent' = sent + 1
      /\ queues' = [queues EXCEPT ![s].items = Append(@, item), ![s].qnum = @ + 1]
      /\ failed' = IF woken # {} /\ ~CanWake(config[r].wait) THEN "wake" ELSE "none"
      /\ UNCHANGED <<num_queues, life, log, removed>>
  BY DEF MsgSnd
<1>2. RecordOK(config[t], num_queues) /\ InUserCode(config[t].wait) /\ num_queues \in Nat
  BY <1>1, ReadyOK
<1>3. s \in Slots /\ q \in QueueType
  BY DEF Ids, Inv, QueuesPart
<1>4. q.items \in Seq(Item) /\ q.qnum \in Int
  BY <1>3 DEF QueueType
<1>5. item \in Item
  <2>1. (woken # {}) \in BOOLEAN
    OBVIOUS
  <2>2. sent + 1 \in Nat /\ m.mtype \in Nat /\ m.len \in Nat
    BY MessagesAssumption DEF Inv, HistoryPart
  <2> HIDE DEF woken
  <2> QED BY <2>1, <2>2 DEF Item
<1>6. items \in Seq(Item) /\ Len(items) = Len(q.items) + 1
  <2> HIDE DEF item, q
  <2> QED BY <1>4, <1>5, AppendProperties
<1>7. queues' = [queues EXCEPT ![s] = p]
  <2> HIDE DEF item
  <2> QED BY <1>1, <1>3 DEF Inv, QueuesPart
<1>8. p \in QueueType /\ p.items = items /\ p.qnum = q.qnum + 1 /\ p.valid = q.valid
  <2> DEFINE x == [q EXCEPT !.items = items]
  <2> HIDE DEF items
  <2>1. x \in QueueType /\ x.items = items /\ x.qnum = q.qnum /\ x.valid = q.valid
    <3> HIDE DEF q
    <3> QED BY <1>3, <1>6 DEF QueueType
  <2>2. p = [x EXCEPT !.qnum = q.qnum + 1]
    OBVIOUS
  <2> HIDE DEF x, p, q
  <2> QED BY <1>4, <2>1, <2>2 DEF QueueType
<1>9. p.valid => p.qnum = Len(p.items)
  <2>1. q.valid => q.qnum = Len(q.items)
    BY <1>3 DEF Inv, QueuesPart, StatsAgree
  <2> HIDE DEF p, q, items
  <2> QED BY <1>4, <1>6, <1>8, <2>1
<1>10. QueuesPart'
  <2> HIDE DEF p
  <2>1. num_queues' \in 0 .. MaxQueues
    BY <1>1 DEF Inv, QueuesPart
  <2> QED BY <1>3, <1>7, <1>8, <1>9, <2>1, QueueReplaced DEF Inv
<1>11. ASSUME woken # {} PROVE r \in Tracees /\ config[r].wait.wait_reason # "WR_NOT_WAITING"
  <2>1. woken \in SUBSET Tracees
    BY DEF Receivers, InList
  <2>2. IsFiniteSet(woken) /\ woken \in SUBSET Nat
    BY <2>1, TraceesAssumption, FS_Subset
  <2>3. r \in woken
    BY <1>11, <2>2, FirstInListInSet
  <2> QED BY <2>1, <2>3 DEF Receivers, WaitingOn
<1> HIDE DEF woken, r, item, p, q, items
<1>12. ASSUME woken # {}
       PROVE  /\ CanWake(config[r].wait)
              /\ RecordOK([config[r] EXCEPT !.wait = [sysvipc_wake_tracee(@, EAGAIN)
                               EXCEPT !.chain_state = "MSGRCV_RETRY"]], num_queues)
  <2>1. RecordOK(config[r], num_queues)
    BY <1>11, <1>12 DEF Inv, ConfigPart
  <2>2. EAGAIN \in Int
    BY DEF EAGAIN
  <2> QED BY <1>2, <1>11, <1>12, <2>1, <2>2, WakeOK
<1>13. PICK b \in BOOLEAN : config' = [u \in Tracees |->
            IF u = t
            THEN [config[u] EXCEPT !.wait = sysvipc_syscall_common(@, 0, b)]
            ELSE IF woken # {} /\ u = r
            THEN [config[u] EXCEPT !.wait = [sysvipc_wake_tracee(@, EAGAIN)
                                               EXCEPT !.chain_state = "MSGRCV_RETRY"]]
            ELSE config[u]]
  BY DEF MsgSnd, woken, r
<1>14. ASSUME NEW u \in Tracees PROVE RecordOK(config'[u], num_queues)
  <2>1. CASE u = t
    <3>1. config'[u] = [config[t] EXCEPT !.wait = sysvipc_syscall_common(@, 0, b)]
      BY <1>13, <2>1
    <3>2. 0 \in Int
      OBVIOUS
    <3>3. RecordOK([config[t] EXCEPT !.wait = sysvipc_syscall_common(@, 0, b)], num_queues)
      BY <1>2, <3>2, CommonOK
    <3> QED BY <3>1, <3>3
  <2>2. CASE u # t /\ woken # {} /\ u = r
    <3>1. config'[u] = [config[r] EXCEPT !.wait = [sysvipc_wake_tracee(@, EAGAIN)
                                               EXCEPT !.chain_state = "MSGRCV_RETRY"]]
      BY <1>13, <2>2
    <3> QED BY <1>12, <2>2, <3>1
  <2>3. CASE u # t /\ ~(woken # {} /\ u = r)
    <3>1. config'[u] = config[u]
      BY <1>13, <2>3
    <3> QED BY <3>1 DEF Inv, ConfigPart
  <2> QED BY <2>1, <2>2, <2>3
<1>15. ConfigPart'
  <2>1. \A u \in Tracees : config'[u] \in ConfigType
    BY <1>14 DEF RecordOK
  <2>2. config' \in [Tracees -> ConfigType]
    <3>1. DOMAIN config' = Tracees /\ config' = [u \in Tracees |-> config'[u]]
      BY <1>13
    <3> QED BY <2>1, <3>1
  <2> QED BY <1>1, <1>14, <2>2 DEF ConfigPart
<1>16. FailedPart'
  BY <1>1, <1>12 DEF FailedPart
<1>17. HistoryPart' /\ LifePart'
  BY <1>1 DEF Inv, HistoryPart, LifePart
<1> QED
  BY <1>10, <1>15, <1>16, <1>17 DEF Inv

(* msgsnd's early returns keep it.                                         *)
LEMMA MsgSndRefusedInv ==
  ASSUME Inv, NEW t \in Tracees, NEW id \in Ids, MsgSndRefused(t, id)
  PROVE  Inv'
<1>1. EINVAL \in Int /\ EFAULT \in Int
  BY DEF EINVAL, EFAULT
<1> QED
  BY <1>1, AnswerOnly DEF MsgSndRefused

(* msgrcv keeps it, whether it takes a message, fails or parks.            *)
LEMMA MsgRcvInv ==
  ASSUME Inv, NEW t \in Tracees, NEW id \in Ids, NEW a \in RcvArgs, MsgRcv(t, id, a)
  PROVE  Inv'
<1>1. Ready(t) /\ UNCHANGED <<num_queues, life, sent, removed, failed>>
  BY DEF MsgRcv
<1>2. RecordOK(config[t], num_queues) /\ InUserCode(config[t].wait) /\ num_queues \in Nat
  BY <1>1, ReadyOK
<1>3. LifePart' /\ FailedPart'
  BY <1>1 DEF Inv, LifePart, FailedPart
<1>4. CASE ~LookupOk(id)
  <2>1. EINVAL \in Int
    BY DEF EINVAL
  <2>2. Answer(t, config[t], EINVAL) /\ UNCHANGED <<queues, log>>
    BY <1>4 DEF MsgRcv
  <2> QED BY <1>1, <2>1, <2>2, AnswerOnly
<1>5. CASE LookupOk(id)
  <2> DEFINE s == id[1]
             r == sysvipc_do_msgrcv(a, queues[s].items)
             c == [config[t] EXCEPT !.args = a]
  <2>1. s \in Slots /\ s \in 1 .. num_queues
    BY <1>2, <1>5, BoundsAssumption DEF Ids, Slots, LookupOk
  <2>2. queues[s].items \in Seq(Item)
    BY <2>1 DEF Inv, QueuesPart, QueueType
  <2>3. a.sz \in Int
    BY RcvArgsAssumption
  <2>4. /\ r.status \in Int /\ r.waits \in BOOLEAN
        /\ r.took \in {0} \cup (1 .. Len(queues[s].items))
    BY <2>2, <2>3, DoMsgrcvType
  <2>5. Consume(s, r) /\ Answer(t, IF r.waits THEN StartWait(c, s) ELSE c, r.status)
    BY <1>5 DEF MsgRcv
  <2>6. RecordOK(c, num_queues) /\ InUserCode(c.wait)
    BY <1>2 DEF RecordOK, ConfigType, InUserCode
  <2> HIDE DEF s, r, c
  <2>7. QueuesPart' /\ HistoryPart'
    BY <1>1, <2>1, <2>4, <2>5, ConsumeOK DEF Inv
  <2>8. ConfigPart'
    <3>1. CASE r.waits
      <4>1. Answer(t, StartWait(c, s), r.status)
        BY <2>5, <3>1
      <4> QED BY <1>1, <2>1, <2>4, <2>6, <4>1, AnswerParkedOK DEF Inv
    <3>2. CASE ~r.waits
      <4>1. Answer(t, c, r.status)
        BY <2>5, <3>2
      <4> QED BY <1>1, <1>2, <2>4, <2>6, <4>1, AnswerOK DEF Inv
    <3> QED BY <3>1, <3>2
  <2> QED BY <1>3, <2>7, <2>8 DEF Inv
<1> QED
  BY <1>4, <1>5

(* IPC_RMID keeps it: every tracee it wakes was waiting for the slot.      *)
LEMMA MsgRmidInv ==
  ASSUME Inv, NEW t \in Tracees, NEW id \in Ids, MsgRmid(t, id)
  PROVE  Inv'
<1> DEFINE s == id[1]
           W == {r \in InList : WaitingOn(r, s)}
           p == [Empty EXCEPT !.generation = queues[s].generation + 1]
<1>1. /\ Ready(t) /\ queues' = [queues EXCEPT ![s] = p]
      /\ removed' = removed \cup {queues[s].items[i].id : i \in DOMAIN queues[s].items}
      /\ failed' = IF \A r \in W : CanWake(config[r].wait) THEN "none" ELSE "wake"
      /\ UNCHANGED <<num_queues, life, sent, log>>
  BY DEF MsgRmid
<1>2. RecordOK(config[t], num_queues) /\ InUserCode(config[t].wait) /\ num_queues \in Nat
  BY <1>1, ReadyOK
<1>3. s \in Slots /\ queues[s] \in QueueType
  BY DEF Ids, Inv, QueuesPart
<1>4. p \in QueueType /\ ~p.valid
  <2> DEFINE g == queues[s].generation + 1
  <2>1. g \in Nat
    BY <1>3 DEF QueueType
  <2>2. <<>> \in Seq(Item)
    BY EmptySeq
  <2>3. Empty \in QueueType /\ ~Empty.valid
    BY <2>2 DEF Empty, QueueType, IPC_PRIVATE
  <2>4. p = [Empty EXCEPT !.generation = g]
    OBVIOUS
  <2> HIDE DEF g, p
  <2> QED BY <2>1, <2>3, <2>4 DEF QueueType
<1>5. QueuesPart'
  <2> HIDE DEF p
  <2>1. num_queues' \in 0 .. MaxQueues
    BY <1>1 DEF Inv, QueuesPart
  <2> QED BY <1>1, <1>3, <1>4, <2>1, QueueReplaced DEF Inv
<1>6. removed' \subseteq Nat
  <2>1. queues[s].items \in Seq(Item)
    BY <1>3 DEF QueueType
  <2>2. ASSUME NEW i \in DOMAIN queues[s].items PROVE queues[s].items[i].id \in Nat
    <3>1. i \in 1 .. Len(queues[s].items)
      BY <2>1, LenProperties
    <3>2. queues[s].items[i] \in Item
      BY <2>1, <3>1, ElementOfSeq
    <3> QED BY <3>2 DEF Item
  <2> QED BY <1>1, <2>2 DEF Inv, HistoryPart
<1>7. ASSUME NEW u \in W
      PROVE  /\ CanWake(config[u].wait)
             /\ RecordOK([config[u] EXCEPT !.wait = sysvipc_wake_tracee(@, EIDRM)], num_queues)
  <2>1. RecordOK(config[u], num_queues) /\ config[u].wait.wait_reason # "WR_NOT_WAITING"
    BY DEF InList, WaitingOn, Inv, ConfigPart
  <2>2. EIDRM \in Int
    BY DEF EIDRM
  <2> QED BY <1>2, <2>1, <2>2, WakeOK
<1>8. PICK b \in BOOLEAN : config' = [u \in Tracees |->
               IF u \in W THEN [config[u] EXCEPT !.wait = sysvipc_wake_tracee(@, EIDRM)]
               ELSE IF u = t
               THEN [config[u] EXCEPT !.wait = sysvipc_syscall_common(@, 0, b)]
               ELSE config[u]]
  BY DEF MsgRmid
<1> HIDE DEF W, p
<1>9. ASSUME NEW u \in Tracees PROVE RecordOK(config'[u], num_queues)
  <2>1. CASE u \in W
    <3>1. config'[u] = [config[u] EXCEPT !.wait = sysvipc_wake_tracee(@, EIDRM)]
      BY <1>8, <2>1
    <3> QED BY <1>7, <2>1, <3>1
  <2>2. CASE u \notin W /\ u = t
    <3>1. config'[u] = [config[t] EXCEPT !.wait = sysvipc_syscall_common(@, 0, b)]
      BY <1>8, <2>2
    <3>2. 0 \in Int
      OBVIOUS
    <3>3. RecordOK([config[t] EXCEPT !.wait = sysvipc_syscall_common(@, 0, b)], num_queues)
      BY <1>2, <3>2, CommonOK
    <3> QED BY <3>1, <3>3
  <2>3. CASE u \notin W /\ u # t
    <3>1. config'[u] = config[u]
      BY <1>8, <2>3
    <3> QED BY <3>1 DEF Inv, ConfigPart
  <2> QED BY <2>1, <2>2, <2>3
<1>10. ConfigPart'
  <2>1. \A u \in Tracees : config'[u] \in ConfigType
    BY <1>9 DEF RecordOK
  <2>2. DOMAIN config' = Tracees /\ config' = [u \in Tracees |-> config'[u]]
    BY <1>8
  <2>3. config' \in [Tracees -> ConfigType]
    BY <2>1, <2>2
  <2> QED BY <1>1, <1>9, <2>3 DEF ConfigPart
<1>11. failed' = "none"
  BY <1>1, <1>7
<1>12. HistoryPart' /\ LifePart' /\ FailedPart'
  BY <1>1, <1>6, <1>11 DEF Inv, HistoryPart, LifePart, FailedPart
<1> QED
  BY <1>5, <1>10, <1>12 DEF Inv

(* The other msgctl commands keep it.                                      *)
LEMMA MsgCtlOtherInv ==
  ASSUME Inv, NEW t \in Tracees, NEW id \in Ids, MsgCtlOther(t, id)
  PROVE  Inv'
<1>1. PICK st \in {0, EINVAL, EFAULT} : Answer(t, config[t], st)
  BY DEF MsgCtlOther
<1>2. st \in Int
  BY DEF EINVAL, EFAULT
<1> QED
  BY <1>1, <1>2, AnswerOnly DEF MsgCtlOther

(* The sysenter stop of the re-executed ppoll keeps it.                    *)
LEMMA ReenterPpollInv ==
  ASSUME Inv, NEW t \in Tracees, ReenterPpoll(t)
  PROVE  Inv'
<1> DEFINE d == [config[t] EXCEPT !.wait = EnterPpoll(@)]
<1>1. /\ config[t].wait.wait_state = "RESTARTED_INTO_PPOLL"
      /\ config' = [config EXCEPT ![t].wait = EnterPpoll(@)]
      /\ UNCHANGED <<queues, num_queues, life, sent, log, removed, failed>>
  BY DEF ReenterPpoll
<1>2. RecordOK(config[t], num_queues)
  BY DEF Inv, ConfigPart
<1>3. RecordOK(d, num_queues)
  BY <1>1, <1>2 DEF RecordOK, ConfigType, WaitType, WaitStates, WaitCoherent, EnterPpoll
<1>4. config' = [config EXCEPT ![t] = d]
  BY <1>1 DEF Inv, ConfigPart
<1> HIDE DEF d
<1>5. ConfigPart'
  BY <1>1, <1>3, <1>4, RecordReplaced DEF Inv
<1> QED
  BY <1>1, <1>5 DEF Inv, QueuesPart, StatsAgree, HistoryPart, LifePart, FailedPart

(* A ppoll that ends by itself had a reason to wait, which it clears.      *)
LEMMA PpollInterruptedInv ==
  ASSUME Inv, NEW t \in Tracees, PpollInterrupted(t)
  PROVE  Inv'
<1> DEFINE d == [config[t] EXCEPT !.wait = AbandonWait(@)]
<1>1. /\ config[t].wait.wait_state = "ENTERED_PPOLL"
      /\ config' = [config EXCEPT ![t] = Tidy([config[t] EXCEPT !.wait = AbandonWait(@)])]
      /\ failed' = IF config[t].wait.wait_reason = "WR_NOT_WAITING" THEN "ppoll_exit" ELSE "none"
      /\ UNCHANGED <<queues, num_queues, life, sent, log, removed>>
  BY DEF PpollInterrupted
<1>2. RecordOK(config[t], num_queues) /\ num_queues \in Nat
  BY BoundsAssumption DEF Inv, ConfigPart, QueuesPart
<1>3. RecordOK(d, num_queues)
  BY <1>1, <1>2 DEF RecordOK, ConfigType, WaitType, WaitStates, WaitCoherent, AbandonWait
<1>4. config' = [config EXCEPT ![t] = Tidy(d)]
  BY <1>1 DEF Inv, ConfigPart
<1> HIDE DEF d
<1>5. RecordOK(Tidy(d), num_queues)
  BY <1>2, <1>3, TidyOK
<1>6. ConfigPart'
  BY <1>1, <1>4, <1>5, RecordReplaced DEF Inv
<1>7. config[t].wait.wait_reason # "WR_NOT_WAITING"
  BY <1>1, <1>2 DEF RecordOK, WaitCoherent
<1> QED
  BY <1>1, <1>6, <1>7 DEF Inv, QueuesPart, StatsAgree, HistoryPart, LifePart, FailedPart

(* The end of a parked call, sysvipc_msgrcv_retry included, keeps it.      *)
LEMMA ParkedCallEndsInv ==
  ASSUME Inv, NEW t \in Tracees, ParkedCallEnds(t)
  PROVE  Inv'
<1> DEFINE c == config[t]
           w == c.wait
           s == w.waiting_object_index
           retry == w.chain_state = "MSGRCV_RETRY" /\ w.status_after_wait = EAGAIN
           r == sysvipc_do_msgrcv(c.args, queues[s].items)
           unchained == [w EXCEPT !.chain_state =
                           IF @ = "MSGRCV_RETRY" THEN "NOT_CHAINED" ELSE @]
           v == EndWait(unchained)
           over == [c EXCEPT !.wait = v]
<1>1. /\ w.wait_state \in {"RESTARTED_INTO_PPOLL_CANCELED", "SIGNALED_PPOLL", "ENTERED_GETPID"}
      /\ config' = [config EXCEPT ![t] = Tidy(over)]
      /\ failed' = IF w.wait_reason # "WR_NOT_WAITING" THEN "exit_wait_reason"
                   ELSE IF retry /\ ~queues[s].valid THEN "queue_valid"
                   ELSE "none"
      /\ IF retry /\ queues[s].valid THEN Consume(s, r) ELSE UNCHANGED <<queues, log>>
      /\ UNCHANGED <<num_queues, life, sent, removed>>
  BY DEF ParkedCallEnds
<1>2. RecordOK(c, num_queues) /\ num_queues \in Nat
  BY BoundsAssumption DEF Inv, ConfigPart, QueuesPart
<1>3. w \in WaitType /\ c.args \in RcvArgs \cup {NoArgs} /\ w.wait_reason = "WR_NOT_WAITING"
  BY <1>1, <1>2 DEF RecordOK, ConfigType, WaitCoherent
<1>4. RecordOK(over, num_queues)
  <2>1. /\ v \in WaitType /\ v.wait_reason = "WR_NOT_WAITING"
        /\ v.chain_state = "NOT_CHAINED" /\ v.wait_state = "NOT_WAITING"
    <3> HIDE DEF w
    <3> QED BY <1>3 DEF WaitType, WaitStates, EndWait
  <2>2. over = [wait |-> v, args |-> c.args]
    <3>1. c = [wait |-> c.wait, args |-> c.args]
      BY <1>2 DEF RecordOK, ConfigType
    <3> HIDE DEF v, c
    <3> QED BY <3>1
  <2> HIDE DEF v, over
  <2> QED BY <1>3, <2>1, <2>2 DEF RecordOK, ConfigType, WaitCoherent
<1>5. RecordOK(Tidy(over), num_queues)
  <2> HIDE DEF over
  <2> QED BY <1>2, <1>4, TidyOK
<1>6. ConfigPart'
  <2> HIDE DEF over
  <2> QED BY <1>1, <1>5, RecordReplaced DEF Inv
<1>7. QueuesPart' /\ HistoryPart'
  <2>1. CASE retry /\ queues[s].valid
    <3>1. s \in Slots
      BY <1>2, <2>1, BoundsAssumption DEF RecordOK, Slots, Inv, QueuesPart
    <3>2. queues[s].items \in Seq(Item)
      BY <3>1 DEF Inv, QueuesPart, QueueType
    <3>3. c.args.sz \in Int
      BY <1>3, RcvArgsAssumption DEF NoArgs
    <3>4. r.took \in {0} \cup (1 .. Len(queues[s].items))
      BY <3>2, <3>3, DoMsgrcvType
    <3>5. Consume(s, r)
      BY <1>1, <2>1
    <3> HIDE DEF r, s
    <3> QED BY <1>1, <3>1, <3>4, <3>5, ConsumeOK DEF Inv
  <2>2. CASE ~(retry /\ queues[s].valid)
    BY <1>1, <2>2 DEF Inv, QueuesPart, StatsAgree, HistoryPart
  <2> QED BY <2>1, <2>2
<1>8. FailedPart' /\ LifePart'
  BY <1>1, <1>3 DEF Inv, FailedPart, LifePart
<1> QED
  BY <1>6, <1>7, <1>8 DEF Inv

(* A death that PRoot has not seen changes no record.                      *)
LEMMA KillInv ==
  ASSUME Inv, NEW t \in Tracees, Kill(t)
  PROVE  Inv'
BY DEF Kill, Inv, QueuesPart, StatsAgree, HistoryPart, ConfigPart, LifePart, FailedPart

(* Freeing a tracee keeps it.                                              *)
LEMMA ReapInv ==
  ASSUME Inv, NEW t \in Tracees, Reap(t)
  PROVE  Inv'
<1>1. InitWait \in WaitType
  BY DEF InitWait, WaitType, WaitStates
<1>2. RecordOK(InitConfig, num_queues)
  BY <1>1 DEF RecordOK, InitConfig, ConfigType, WaitCoherent, InitWait
<1>3. ConfigPart'
  BY <1>2, RecordReplaced DEF Reap, Inv
<1> QED
  BY <1>3 DEF Reap, Inv, QueuesPart, StatsAgree, HistoryPart, LifePart, FailedPart

-----------------------------------------------------------------------------
(* Steps of other components keep it.                                      *)
LEMMA StutterInv == Inv /\ UNCHANGED vars => Inv'
BY DEF vars, Inv, QueuesPart, StatsAgree, HistoryPart, ConfigPart, LifePart, FailedPart

(* Every step keeps it.                                                    *)
LEMMA NextInv == Inv /\ Next => Inv'
<1> SUFFICES ASSUME Inv, Next PROVE Inv'
  OBVIOUS
<1>1. PICK t \in Tracees :
          \/ Get(t) \/ Send(t) \/ Recv(t)
          \/ \E id \in Ids : MsgSndRefused(t, id) \/ MsgRmid(t, id) \/ MsgCtlOther(t, id)
          \/ ReenterPpoll(t) \/ PpollInterrupted(t) \/ ParkedCallEnds(t)
          \/ Kill(t) \/ Reap(t)
  BY DEF Next
<1>2. CASE Get(t)
  BY <1>2, MsgGetInv DEF Get
<1>3. CASE Send(t)
  BY <1>3, MsgSndInv DEF Send
<1>4. CASE Recv(t)
  BY <1>4, MsgRcvInv DEF Recv
<1>5. CASE \E id \in Ids : MsgSndRefused(t, id) \/ MsgRmid(t, id) \/ MsgCtlOther(t, id)
  BY <1>5, MsgSndRefusedInv, MsgRmidInv, MsgCtlOtherInv
<1>6. CASE ReenterPpoll(t) \/ PpollInterrupted(t) \/ ParkedCallEnds(t)
  BY <1>6, ReenterPpollInv, PpollInterruptedInv, ParkedCallEndsInv
<1>7. CASE Kill(t) \/ Reap(t)
  BY <1>7, KillInv, ReapInv
<1> QED
  BY <1>1, <1>2, <1>3, <1>4, <1>5, <1>6, <1>7

(* The invariant is inductive: it holds at the start and every handler,    *)
(* kernel event, kill and reap keeps it.                                   *)
THEOREM InvHolds == Spec => []Inv
<1>1. Init => Inv
  BY InitInv
<1>2. Inv /\ [Next]_vars => Inv'
  BY NextInv, StutterInv
<1> QED
  BY <1>1, <1>2, PTL DEF Spec

(* Every variable keeps its type; in particular the slot a waiting or      *)
(* retrying receiver records is one of ipc_namespace->queues.              *)
THEOREM TypesHold == Spec => []TypeOK
<1>1. Inv => TypeOK
  BY InvImplies
<1> QED
  BY <1>1, InvHolds, PTL

(* Whatever order sends, removals, signals, timeouts and deaths come in, a *)
(* tracee has a reason to wait exactly while it is parked in a ppoll that  *)
(* nobody ended, and only a receiver whose wait is over is to retry.       *)
THEOREM WaitsStayCoherent == Spec => []WaitsCoherent
<1>1. Inv => WaitsCoherent
  BY InvImplies
<1> QED
  BY <1>1, InvHolds, PTL

(* The assertions of sysvipc_wake_tracee (the tracee waits, in ppoll or on *)
(* its way there) and of the exit stages (the waker cleared the reason)    *)
(* never fail, with any number of tracees and queues.                      *)
THEOREM WaitAssertsNeverFail == Spec => []WaitAssertsHold
<1>1. Inv => WaitAssertsHold
  BY InvImplies
<1> QED
  BY <1>1, InvHolds, PTL

(* msg_qnum counts the queued messages through sends, receives, retries    *)
(* and the reuse of a removed queue's slot.                                *)
THEOREM StatsStayExact == Spec => []StatsAgree
<1>1. Inv => StatsAgree
  BY InvImplies
<1> QED
  BY <1>1, InvHolds, PTL
-----------------------------------------------------------------------------
(***************************************************************************)
(* Delivered says three things: a message leaves its queue once, messages  *)
(* of a type leave in the order they were sent, and no receiver sleeps     *)
(* while a message it would take is queued.  The ledger that makes them    *)
(* inductive says where each message is, and that the ids of a queue grow  *)
(* from its head to its tail.                                              *)
(***************************************************************************)
(* Delivery.  A message is one number; where it is (queued, handed out or  *)
(* removed) is tracked by LedgerPart, the order it leaves in by OrderPart. *)
IdIn(items, n) == \E i \in DOMAIN items : items[i].id = n
Queued(n) == \E s \in Slots : IdIn(queues[s].items, n)
Handed(n) == \E k \in DOMAIN log : log[k].item.id = n

(* The ids of a queue grow from its head to its tail; a slot that is free, *)
(* or was never used, has no items.                                        *)
ItemsOK(items) ==
  /\ \A i \in DOMAIN items : items[i].id \in 1 .. sent /\ items[i].id >= i
  /\ \A i, j \in DOMAIN items : i < j => items[i].id < items[j].id
SlotsPart ==
  /\ sent \in 0 .. MaxSends
  /\ \A s \in Slots : /\ ItemsOK(queues[s].items)
                      /\ ~queues[s].valid => queues[s].items = <<>>
                      /\ s > num_queues => ~queues[s].valid

(* Every message is in one place, and only once.                           *)
LedgerPart ==
  /\ \A n \in 1 .. sent : Queued(n) \/ Handed(n) \/ n \in removed
  /\ \A n \in Nat : /\ ~(Queued(n) /\ Handed(n)) /\ ~(Queued(n) /\ n \in removed)
                    /\ ~(Handed(n) /\ n \in removed)
                    /\ Handed(n) \/ n \in removed => n \in 1 .. sent
  /\ \A s, u \in Slots, n \in Nat :
       IdIn(queues[s].items, n) /\ IdIn(queues[u].items, n) => s = u
  /\ \A k, l \in DOMAIN log : log[k].item.id = log[l].item.id => k = l

(* What left a queue was sent before what is still in it, type by type.    *)
OrderPart ==
  /\ FifoPerType
  /\ \A k \in DOMAIN log :
       LET q == queues[log[k].slot]
       IN  /\ log[k].generation <= q.generation
           /\ log[k].generation = q.generation =>
                \A i \in DOMAIN q.items :
                  q.items[i].mtype = log[k].item.mtype => log[k].item.id < q.items[i].id

Ledger == SlotsPart /\ LedgerPart /\ OrderPart
DInv == Ledger /\ SleepersWereConsidered

(* What the types say of a queue and of the log.                           *)
LEMMA QueueTypes ==
  ASSUME Inv, NEW s \in Slots
  PROVE  /\ queues[s].items \in Seq(Item) /\ Len(queues[s].items) \in Nat
         /\ DOMAIN queues[s].items = 1 .. Len(queues[s].items)
         /\ \A i \in DOMAIN queues[s].items : queues[s].items[i] \in Item
         /\ queues[s].generation \in Nat
<1>1. queues[s].items \in Seq(Item) /\ queues[s].generation \in Nat
  BY DEF Inv, QueuesPart, QueueType
<1>2. /\ Len(queues[s].items) \in Nat /\ DOMAIN queues[s].items = 1 .. Len(queues[s].items)
  BY <1>1, LenProperties
<1> QED
  BY <1>1, <1>2, ElementOfSeq

(* The log holds one record per message handed out.                        *)
LEMMA LogTypes ==
  ASSUME Inv
  PROVE  /\ Len(log) \in Nat /\ DOMAIN log = 1 .. Len(log)
         /\ \A k \in DOMAIN log : /\ log[k].item \in Item /\ log[k].slot \in Slots
                                   /\ log[k].generation \in Nat
<1> DEFINE S == [item : Item, slot : Slots, generation : Nat]
<1>1. log \in Seq(S)
  BY DEF Inv, HistoryPart, LogType
<1>2. Len(log) \in Nat /\ DOMAIN log = 1 .. Len(log)
  BY <1>1, LenProperties
<1>3. \A k \in DOMAIN log : log[k] \in S
  BY <1>1, <1>2, ElementOfSeq
<1> QED
  BY <1>2, <1>3

(* Taking position i out of a queue whose ids grow removes that id only,   *)
(* and keeps the order of the others.                                      *)
IdsGrow(items) == \A j, k \in DOMAIN items : j < k => items[j].id < items[k].id
TookOut(items, i, rest) ==
  /\ \A n : IdIn(rest, n) <=> IdIn(items, n) /\ n # items[i].id
  /\ \A j \in DOMAIN rest : \E k \in DOMAIN items : rest[j] = items[k] /\ j <= k /\ k # i
  /\ IdsGrow(rest)

(* Taking one message out keeps the others, and their order.               *)
LEMMA WithoutItems ==
  ASSUME NEW items \in Seq(Item), NEW i \in 1 .. Len(items), IdsGrow(items)
  PROVE  TookOut(items, i, Without(items, i))
<1> DEFINE rest == Without(items, i)
           At(j) == IF j < i THEN j ELSE j + 1
<1>1. /\ Len(items) \in Nat /\ DOMAIN items = 1 .. Len(items) /\ i \in Nat
      /\ DOMAIN rest = 1 .. Len(items) - 1
  BY LenProperties DEF Without
<1>2. \A j \in DOMAIN items : items[j].id \in Nat
  <2>1. \A j \in DOMAIN items : items[j] \in Item
    BY <1>1, ElementOfSeq
  <2> QED BY <2>1 DEF Item
<1>3. ASSUME NEW j \in DOMAIN rest
      PROVE  rest[j] = items[At(j)] /\ At(j) \in DOMAIN items /\ At(j) # i /\ j <= At(j)
             /\ j \in Nat /\ At(j) \in Nat
  BY <1>1, <1>3 DEF Without
<1>4. ASSUME NEW j \in DOMAIN items, j # i PROVE \E k \in DOMAIN rest : At(k) = j
  <2>1. CASE j < i
    <3>1. j \in DOMAIN rest /\ At(j) = j
      BY <1>1, <1>4, <2>1
    <3> QED BY <3>1
  <2>2. CASE ~(j < i)
    <3>1. j - 1 \in DOMAIN rest /\ ~(j - 1 < i) /\ (j - 1) + 1 = j
      BY <1>1, <1>4, <2>2
    <3>2. At(j - 1) = j
      BY <3>1
    <3> QED BY <3>1, <3>2
  <2> QED BY <2>1, <2>2
<1>5. ASSUME NEW j \in DOMAIN rest, NEW k \in DOMAIN rest, j < k PROVE At(j) < At(k)
  BY <1>1, <1>5
<1> HIDE DEF At, rest
<1>6. \A j \in DOMAIN items : items[j].id = items[i].id => j = i
  <2> SUFFICES ASSUME NEW j \in DOMAIN items, items[j].id = items[i].id, j # i PROVE FALSE
    OBVIOUS
  <2>1. j < i \/ i < j
    BY <1>1
  <2>2. items[j].id \in Nat /\ items[i].id \in Nat /\ i \in DOMAIN items
    BY <1>1, <1>2
  <2>3. items[j].id < items[i].id \/ items[i].id < items[j].id
    BY <2>1, <2>2 DEF IdsGrow
  <2> QED BY <2>2, <2>3
<1>7. ASSUME NEW n PROVE IdIn(rest, n) <=> IdIn(items, n) /\ n # items[i].id
  <2>1. IdIn(rest, n) => IdIn(items, n) /\ n # items[i].id
    BY <1>3, <1>6 DEF IdIn
  <2>2. IdIn(items, n) /\ n # items[i].id => IdIn(rest, n)
    <3> SUFFICES ASSUME NEW j \in DOMAIN items, items[j].id = n, n # items[i].id
                 PROVE  IdIn(rest, n)
      BY DEF IdIn
    <3>1. PICK k \in DOMAIN rest : At(k) = j
      BY <1>4
    <3> QED BY <1>3, <3>1 DEF IdIn
  <2> QED BY <2>1, <2>2
<1>8. \A j \in DOMAIN rest : \E k \in DOMAIN items :
        /\ rest[j] = items[k] /\ j <= k /\ k # i
  BY <1>3
<1>9. IdsGrow(rest)
  BY <1>3, <1>5 DEF IdsGrow
<1>10. TookOut(items, i, rest)
  BY <1>7, <1>8, <1>9 DEF TookOut
<1> QED
  BY <1>10 DEF rest

(* sysvipc_do_msgrcv takes the first message of its type: a message of the *)
(* same type further ahead would have matched too.                         *)
LEMMA TakesTheFirst ==
  ASSUME NEW a, NEW items \in Seq(Item), sysvipc_do_msgrcv(a, items).took # 0
  PROVE  \A j \in DOMAIN items : j < sysvipc_do_msgrcv(a, items).took
            => items[j].mtype # items[sysvipc_do_msgrcv(a, items).took].mtype
<1> DEFINE C == Candidates(a, items)
           i == Least(C)
<1>1. Len(items) \in Nat /\ DOMAIN items = 1 .. Len(items)
  BY LenProperties
<1>2. ~BadRcvArgs(a) /\ C # {} /\ "MSG_COPY" \notin a.flg /\ sysvipc_do_msgrcv(a, items).took = i
  BY DEF sysvipc_do_msgrcv
<1>3. C = {j \in DOMAIN items : sysvipc_msg_match(items[j].mtype, a.typ, a.flg)}
  BY <1>2 DEF Candidates
<1> HIDE DEF C
<1>4. C \in SUBSET Nat
  BY <1>1, <1>3
<1>5. i \in C /\ \A j \in C : i <= j
  BY <1>2, <1>4, LeastInSet
<1> HIDE DEF i
<1>6. ASSUME NEW j \in DOMAIN items, j < i, items[j].mtype = items[i].mtype PROVE FALSE
  <2>1. j \in C
    BY <1>3, <1>5, <1>6
  <2>2. i \in Nat /\ j \in Nat
    BY <1>4, <1>5, <2>1
  <2> QED BY <1>5, <1>6, <2>1, <2>2
<1> QED
  BY <1>2, <1>6

-----------------------------------------------------------------------------
(* What a handler can do to the queues and the history, once each.         *)

(* It leaves the items, the generations and the history as they are.       *)
LEMMA LedgerSame ==
  ASSUME Inv, Ledger, UNCHANGED <<sent, log, removed>>,
         \A s \in Slots : /\ queues'[s].items = queues[s].items
                          /\ queues'[s].generation = queues[s].generation
                          /\ ~queues'[s].valid => queues'[s].items = <<>>
                          /\ s > num_queues' => ~queues'[s].valid
  PROVE  Ledger'
<1>1. SlotsPart'
  BY DEF Ledger, SlotsPart, ItemsOK
<1>2. LedgerPart'
  BY DEF Ledger, LedgerPart, Queued, Handed, IdIn
<1>3. OrderPart'
  <2>1. FifoPerType'
    BY DEF Ledger, OrderPart, FifoPerType
  <2>2. ASSUME NEW k \in DOMAIN log
        PROVE  /\ queues'[log[k].slot].items = queues[log[k].slot].items
               /\ queues'[log[k].slot].generation = queues[log[k].slot].generation
    BY LogTypes
  <2> QED BY <2>1, <2>2 DEF Ledger, OrderPart
<1> QED
  BY <1>1, <1>2, <1>3 DEF Ledger

(* A queued message is one that was sent.                                  *)
LEMMA QueuedWasSent ==
  ASSUME Ledger, NEW n, Queued(n)
  PROVE  n \in 1 .. sent
  BY DEF Ledger, SlotsPart, ItemsOK, Queued, IdIn

(* It appends the next message to the queue of slot s.                     *)
LEMMA LedgerSend ==
  ASSUME Inv, Ledger, NEW s \in Slots, NEW item \in Item, item.id = sent + 1,
         sent < MaxSends, sent' = sent + 1, UNCHANGED <<num_queues, log, removed>>,
         queues[s].valid,
         queues'[s].items = Append(queues[s].items, item),
         queues'[s].generation = queues[s].generation, queues'[s].valid,
         \A u \in Slots \ {s} : queues'[u] = queues[u]
  PROVE  Ledger'
<1> DEFINE items == queues[s].items
           n == Len(items)
           more == queues'[s].items
<1>1. /\ items \in Seq(Item) /\ n \in Nat /\ DOMAIN items = 1 .. n
      /\ \A i \in DOMAIN items : items[i].id \in Nat
  BY QueueTypes DEF Item
<1>2. /\ DOMAIN more = 1 .. n + 1 /\ \A i \in 1 .. n : more[i] = items[i]
      /\ more[n + 1] = item
  <2>1. Append(items, item) \in Seq(Item)
    BY <1>1, AppendProperties
  <2>2. DOMAIN Append(items, item) = 1 .. Len(Append(items, item))
    BY <2>1, LenProperties
  <2> HIDE DEF items
  <2> QED BY <1>1, <2>2, AppendProperties DEF items
<1>3. sent \in Nat /\ MaxSends \in Nat /\ sent' \in 0 .. MaxSends
  BY BoundsAssumption DEF Ledger, SlotsPart
<1>4. \A i \in 1 .. n : items[i].id \in 1 .. sent /\ items[i].id >= i
  BY <1>1 DEF Ledger, SlotsPart, ItemsOK
<1>5. n <= sent
  <2>1. n = 0 \/ n \in 1 .. n
    BY <1>1
  <2> HIDE DEF n, items
  <2> QED BY <1>1, <1>3, <1>4, <2>1
<1>6. \A i, j \in 1 .. n : i < j => items[i].id < items[j].id
  BY <1>1 DEF Ledger, SlotsPart, ItemsOK
<1> HIDE DEF items, n, more
<1>7. ItemsOK(queues[s].items)'
  <2>1. ASSUME NEW i \in 1 .. n + 1 PROVE more[i].id \in 1 .. sent + 1 /\ more[i].id >= i
    <3>1. CASE i = n + 1
      BY <1>1, <1>2, <1>3, <1>5, <3>1
    <3>2. CASE i # n + 1
      <4>1. i \in 1 .. n
        BY <1>1, <3>2
      <4> QED BY <1>2, <1>3, <1>4, <4>1
    <3> QED BY <3>1, <3>2
  <2>2. ASSUME NEW i \in 1 .. n + 1, NEW j \in 1 .. n + 1, i < j
        PROVE  more[i].id < more[j].id
    <3>1. i \in 1 .. n /\ more[i] = items[i]
      BY <1>1, <1>2, <2>2
    <3>2. CASE j = n + 1
      BY <1>2, <1>3, <1>4, <3>1, <3>2
    <3>3. CASE j # n + 1
      <4>1. j \in 1 .. n /\ more[j] = items[j]
        BY <1>1, <1>2, <3>3
      <4> QED BY <1>6, <2>2, <3>1, <4>1
    <3> QED BY <3>2, <3>3
  <2> QED BY <1>2, <2>1, <2>2 DEF ItemsOK, more
<1>8. SlotsPart'
  <2>1. ASSUME NEW u \in Slots, u # s PROVE ItemsOK(queues[u].items)'
    <3>1. queues'[u].items = queues[u].items
      BY <2>1
    <3>2. ItemsOK(queues[u].items)
      BY DEF Ledger, SlotsPart
    <3> QED BY <1>3, <3>1, <3>2 DEF ItemsOK
  <2>2. ASSUME NEW u \in Slots
        PROVE  /\ ~queues'[u].valid => queues'[u].items = <<>>
               /\ u > num_queues' => ~queues'[u].valid
    <3>1. u = s => ~(u > num_queues)
      BY DEF Ledger, SlotsPart
    <3> QED BY <3>1 DEF Ledger, SlotsPart
  <2> QED BY <1>3, <1>7, <2>1, <2>2 DEF SlotsPart
<1>9. ASSUME NEW k PROVE IdIn(queues'[s].items, k) <=> IdIn(queues[s].items, k) \/ k = sent + 1
  <2>1. IdIn(more, k) => IdIn(items, k) \/ k = sent + 1
    <3> SUFFICES ASSUME NEW i \in 1 .. n + 1, more[i].id = k, k # sent + 1 PROVE IdIn(items, k)
      BY <1>2 DEF IdIn
    <3>1. i \in 1 .. n
      BY <1>1, <1>2
    <3> QED BY <1>1, <1>2, <3>1 DEF IdIn
  <2>2. IdIn(items, k) => IdIn(more, k)
    <3> SUFFICES ASSUME NEW i \in 1 .. n, items[i].id = k PROVE IdIn(more, k)
      BY <1>1 DEF IdIn
    <3>1. i \in 1 .. n + 1
      BY <1>1
    <3> QED BY <1>2, <3>1 DEF IdIn
  <2>3. k = sent + 1 => IdIn(more, k)
    <3>1. n + 1 \in 1 .. n + 1
      BY <1>1
    <3> QED BY <1>2, <3>1 DEF IdIn
  <2> QED BY <2>1, <2>2, <2>3 DEF items, more
<1>10. LedgerPart'
  <2>1. ASSUME NEW k PROVE Queued(k)' <=> Queued(k) \/ k = sent + 1
    BY <1>9 DEF Queued
  <2>2. ASSUME NEW k PROVE Handed(k)' <=> Handed(k)
    BY DEF Handed
  <2>3. \A k \in Nat : Queued(k) => k \in 1 .. sent
    BY QueuedWasSent
  <2>4. \A k \in 1 .. sent' : Queued(k)' \/ Handed(k)' \/ k \in removed'
    <3> SUFFICES ASSUME NEW k \in 1 .. sent + 1 PROVE Queued(k)' \/ Handed(k)' \/ k \in removed
      OBVIOUS
    <3>1. k = sent + 1 \/ k \in 1 .. sent
      BY <1>3
    <3> QED BY <2>1, <2>2, <3>1 DEF Ledger, LedgerPart
  <2>5. ASSUME NEW k \in Nat
        PROVE  /\ ~(Queued(k)' /\ Handed(k)') /\ ~(Queued(k)' /\ k \in removed')
               /\ ~(Handed(k)' /\ k \in removed')
               /\ Handed(k)' \/ k \in removed' => k \in 1 .. sent'
    <3>1. k = sent + 1 => ~(k \in 1 .. sent)
      BY <1>3
    <3>2. k \in 1 .. sent => k \in 1 .. sent'
      BY <1>3
    <3> QED BY <2>1, <2>2, <3>1, <3>2 DEF Ledger, LedgerPart
  <2>6. ASSUME NEW u \in Slots, NEW v \in Slots, NEW k \in Nat,
               IdIn(queues'[u].items, k), IdIn(queues'[v].items, k)
        PROVE  u = v
    <3>1. CASE k = sent + 1
      <4>1. ~Queued(k)
        BY <1>3, <2>3, <3>1
      <4> QED BY <2>6, <4>1 DEF Queued
    <3>2. CASE k # sent + 1
      <4>1. IdIn(queues[u].items, k) /\ IdIn(queues[v].items, k)
        BY <1>9, <2>6, <3>2
      <4> QED BY <4>1 DEF Ledger, LedgerPart
    <3> QED BY <3>1, <3>2
  <2> QED BY <2>4, <2>5, <2>6 DEF Ledger, LedgerPart
<1>11. OrderPart'
  <2>1. FifoPerType'
    BY DEF Ledger, OrderPart, FifoPerType
  <2>2. ASSUME NEW k \in DOMAIN log, log[k].generation = queues'[log[k].slot].generation,
               NEW i \in DOMAIN queues'[log[k].slot].items,
               queues'[log[k].slot].items[i].mtype = log[k].item.mtype
        PROVE  log[k].item.id < queues'[log[k].slot].items[i].id
    <3> DEFINE u == log[k].slot
    <3>0. u \in Slots /\ log[k].item.id \in Nat
      BY LogTypes DEF Item
    <3>1. CASE u # s
      <4>1. queues'[u] = queues[u]
        BY <3>0, <3>1
      <4> QED BY <2>2, <4>1 DEF Ledger, OrderPart
    <3>2. CASE u = s /\ i = n + 1
      <4>1. Handed(log[k].item.id)
        BY DEF Handed
      <4>2. log[k].item.id \in 1 .. sent
        BY <3>0, <4>1 DEF Ledger, LedgerPart
      <4> QED BY <1>2, <1>3, <3>2, <4>2 DEF more
    <3>3. CASE u = s /\ i # n + 1
      <4>1. i \in 1 .. n /\ i \in DOMAIN queues[s].items /\ more[i] = items[i]
        BY <1>1, <1>2, <2>2, <3>3 DEF more, items
      <4>2. queues'[s].items[i] = queues[s].items[i]
        BY <4>1 DEF more, items
      <4> QED BY <2>2, <3>3, <4>1, <4>2 DEF Ledger, OrderPart
    <3> QED BY <3>1, <3>2, <3>3
  <2>3. ASSUME NEW k \in DOMAIN log PROVE log[k].generation <= queues'[log[k].slot].generation
    <3>1. queues'[log[k].slot].generation = queues[log[k].slot].generation
      BY LogTypes
    <3> QED BY <3>1 DEF Ledger, OrderPart
  <2> QED BY <2>1, <2>2, <2>3 DEF OrderPart
<1> QED
  BY <1>8, <1>10, <1>11 DEF Ledger

(* It takes the first message of its type out of the queue of slot s.      *)
LEMMA LedgerTake ==
  ASSUME Inv, Ledger, NEW s \in Slots, NEW i \in 1 .. Len(queues[s].items),
         \A j \in DOMAIN queues[s].items :
           j < i => queues[s].items[j].mtype # queues[s].items[i].mtype,
         UNCHANGED <<num_queues, sent, removed>>,
         queues'[s].items = Without(queues[s].items, i),
         queues'[s].generation = queues[s].generation, queues'[s].valid = queues[s].valid,
         \A u \in Slots \ {s} : queues'[u] = queues[u],
         log' = Append(log, [item |-> queues[s].items[i], slot |-> s,
                             generation |-> queues[s].generation])
  PROVE  Ledger'
<1> DEFINE items == queues[s].items
           rest == queues'[s].items
           n == Len(log)
           e == [item |-> items[i], slot |-> s, generation |-> queues[s].generation]
<1>1. /\ items \in Seq(Item) /\ Len(items) \in Nat /\ DOMAIN items = 1 .. Len(items)
      /\ \A j \in DOMAIN items : items[j] \in Item
      /\ queues[s].generation \in Nat /\ sent \in Nat
  BY QueueTypes DEF Inv, HistoryPart
<1>2. \A j \in DOMAIN items : items[j].id \in Nat
  BY <1>1 DEF Item
<1>3. ItemsOK(items)
  BY DEF Ledger, SlotsPart
<1>4. /\ \A k : IdIn(rest, k) <=> IdIn(items, k) /\ k # items[i].id
      /\ \A j \in DOMAIN rest : \E k \in DOMAIN items :
            /\ rest[j] = items[k] /\ j <= k /\ k # i
      /\ \A j, k \in DOMAIN rest : j < k => rest[j].id < rest[k].id
  <2>1. i \in 1 .. Len(items) /\ rest = Without(items, i)
    OBVIOUS
  <2> HIDE DEF items, rest
  <2>2. IdsGrow(items)
    BY <1>3 DEF ItemsOK, IdsGrow
  <2>3. TookOut(items, i, rest)
    BY <1>1, <2>1, <2>2, WithoutItems
  <2> QED BY <2>3 DEF TookOut, IdsGrow
<1>5. i \in DOMAIN items /\ items[i] \in Item /\ items[i].id \in Nat /\ i \in Nat
  BY <1>1, <1>2
<1>6. /\ n \in Nat /\ DOMAIN log = 1 .. n /\ DOMAIN log' = 1 .. n + 1
      /\ \A k \in 1 .. n : log'[k] = log[k]
      /\ log'[n + 1] = e
  <2> DEFINE S == [item : Item, slot : Slots, generation : Nat]
  <2>1. log \in Seq(S) /\ e \in S
    BY <1>1, <1>5 DEF Inv, HistoryPart, LogType
  <2> HIDE DEF e
  <2>2. /\ Append(log, e) \in Seq(S) /\ Len(Append(log, e)) = n + 1
        /\ \A k \in 1 .. n : Append(log, e)[k] = log[k] /\ Append(log, e)[n + 1] = e
    BY <2>1, AppendProperties
  <2>3. Append(log, e)[n + 1] = e
    BY <2>1, AppendProperties
  <2>4. DOMAIN Append(log, e) = 1 .. n + 1
    BY <2>2, LenProperties
  <2>5. n \in Nat /\ DOMAIN log = 1 .. n
    BY <2>1, LenProperties
  <2> QED BY <2>2, <2>3, <2>4, <2>5 DEF e
<1>7. DOMAIN rest = 1 .. Len(items) - 1
  BY DEF Without
<1>8. e.item = items[i] /\ e.slot = s /\ e.generation = queues[s].generation
  OBVIOUS
<1> HIDE DEF items, rest, n, e
<1>9. SlotsPart'
  <2>1. ASSUME NEW j \in DOMAIN rest PROVE rest[j].id \in 1 .. sent /\ rest[j].id >= j
    <3>1. PICK k \in DOMAIN items : rest[j] = items[k] /\ j <= k
      BY <1>4
    <3>2. items[k].id \in 1 .. sent /\ items[k].id >= k /\ k \in Nat /\ j \in Nat
      BY <1>1, <1>3, <1>7 DEF ItemsOK
    <3> QED BY <1>1, <3>1, <3>2
  <2>2. ItemsOK(queues[s].items)'
    BY <1>4, <2>1 DEF ItemsOK, rest
  <2>3. queues[s].valid
    <3>1. ~queues[s].valid => items = <<>>
      BY DEF Ledger, SlotsPart, items
    <3>2. items # <<>>
      <4>1. DOMAIN items # {}
        BY <1>5
      <4> QED BY <4>1
    <3> QED BY <3>1, <3>2
  <2>4. ASSUME NEW u \in Slots, u # s PROVE ItemsOK(queues[u].items)'
    <3>1. queues'[u].items = queues[u].items /\ ItemsOK(queues[u].items)
      BY <2>4 DEF Ledger, SlotsPart
    <3> QED BY <3>1 DEF ItemsOK
  <2>5. ASSUME NEW u \in Slots
        PROVE  /\ ~queues'[u].valid => queues'[u].items = <<>>
               /\ u > num_queues' => ~queues'[u].valid
    BY <2>3 DEF Ledger, SlotsPart
  <2> QED BY <2>2, <2>4, <2>5 DEF Ledger, SlotsPart
<1> DEFINE x == items[i].id
<1>10. x \in 1 .. sent /\ x \in Nat /\ IdIn(queues[s].items, x) /\ Queued(x)
  <2>1. IdIn(queues[s].items, x)
    BY <1>5 DEF IdIn, items
  <2> QED BY <1>3, <1>5, <2>1 DEF ItemsOK, Queued
<1>11. ASSUME NEW k PROVE Handed(k)' <=> Handed(k) \/ k = x
  <2>1. Handed(k)' => Handed(k) \/ k = x
    <3> SUFFICES ASSUME NEW j \in 1 .. n + 1, log'[j].item.id = k, k # x PROVE Handed(k)
      BY <1>6 DEF Handed
    <3>1. j \in 1 .. n
      BY <1>6, <1>8
    <3> QED BY <1>6, <3>1 DEF Handed
  <2>2. Handed(k) => Handed(k)'
    <3> SUFFICES ASSUME NEW j \in 1 .. n, log[j].item.id = k PROVE Handed(k)'
      BY <1>6 DEF Handed
    <3>1. j \in 1 .. n + 1
      BY <1>6
    <3> QED BY <1>6, <3>1 DEF Handed
  <2>3. k = x => Handed(k)'
    <3>1. n + 1 \in DOMAIN log'
      BY <1>6
    <3> QED BY <1>6, <1>8, <3>1 DEF Handed
  <2> QED BY <2>1, <2>2, <2>3
<1> HIDE DEF x
<1>12. ASSUME NEW u \in Slots, NEW k \in Nat
       PROVE  IdIn(queues'[u].items, k) <=> IdIn(queues[u].items, k) /\ k # x
  <2>1. CASE u = s
    BY <1>4, <2>1 DEF rest, items, x
  <2>2. CASE u # s
    <3>1. ~IdIn(queues[u].items, x)
      BY <1>10, <2>2 DEF Ledger, LedgerPart
    <3> QED BY <2>2, <3>1
  <2> QED BY <2>1, <2>2
<1>13. LedgerPart'
  <2>1. ASSUME NEW k \in Nat PROVE Queued(k)' <=> Queued(k) /\ k # x
    BY <1>12 DEF Queued
  <2>2. \A k \in 1 .. sent : k \in Nat
    BY <1>1
  <2>3. \A k \in 1 .. sent' : Queued(k)' \/ Handed(k)' \/ k \in removed'
    BY <1>11, <2>1, <2>2 DEF Ledger, LedgerPart
  <2>4. ASSUME NEW k \in Nat
        PROVE  /\ ~(Queued(k)' /\ Handed(k)') /\ ~(Queued(k)' /\ k \in removed')
               /\ ~(Handed(k)' /\ k \in removed')
               /\ Handed(k)' \/ k \in removed' => k \in 1 .. sent'
    BY <1>10, <1>11, <2>1 DEF Ledger, LedgerPart
  <2>5. \A u, v \in Slots, k \in Nat :
           IdIn(queues'[u].items, k) /\ IdIn(queues'[v].items, k) => u = v
    BY <1>12 DEF Ledger, LedgerPart
  <2>6. ASSUME NEW k \in 1 .. n + 1, NEW l \in 1 .. n + 1, log'[k].item.id = log'[l].item.id
        PROVE  k = l
    <3>1. ~Handed(x)
      BY <1>10 DEF Ledger, LedgerPart
    <3>2. \A j \in 1 .. n : log'[j] = log[j] /\ log[j].item.id # x
      BY <1>6, <3>1 DEF Handed
    <3>3. log'[n + 1].item.id = x
      BY <1>6, <1>8 DEF x
    <3>4. CASE k \in 1 .. n /\ l \in 1 .. n
      BY <1>6, <2>6, <3>2, <3>4 DEF Ledger, LedgerPart
    <3>5. (k \in 1 .. n \/ k = n + 1) /\ (l \in 1 .. n \/ l = n + 1)
      BY <1>6
    <3> QED BY <2>6, <3>2, <3>3, <3>4, <3>5
  <2> QED BY <1>6, <2>3, <2>4, <2>5, <2>6 DEF LedgerPart
<1>14. OrderPart'
  <2>1. ASSUME NEW k \in 1 .. n, log[k].slot = s, log[k].generation = queues[s].generation,
               log[k].item.mtype = items[i].mtype
        PROVE  log[k].item.id < x
    BY <1>5, <1>6, <2>1 DEF Ledger, OrderPart, items, x
  <2>2. FifoPerType'
    <3> SUFFICES ASSUME NEW k \in 1 .. n + 1, NEW l \in 1 .. n + 1, k < l,
                        log'[k].item.mtype = log'[l].item.mtype,
                        log'[k].slot = log'[l].slot,
                        log'[k].generation = log'[l].generation
                 PROVE  log'[k].item.id < log'[l].item.id
      BY <1>6 DEF FifoPerType
    <3>1. k \in 1 .. n /\ log'[k] = log[k]
      BY <1>6
    <3>2. CASE l = n + 1
      <4>1. log'[l] = e
        BY <1>6, <3>2
      <4>2. /\ log[k].slot = s /\ log[k].generation = queues[s].generation
            /\ log[k].item.mtype = items[i].mtype
        BY <1>8, <3>1, <4>1
      <4>3. log[k].item.id < x
        BY <2>1, <3>1, <4>2
      <4> QED BY <1>8, <3>1, <4>1, <4>3 DEF x
    <3>3. CASE l # n + 1
      <4>1. l \in 1 .. n /\ log'[l] = log[l]
        BY <1>6, <3>3
      <4> QED BY <1>6, <3>1, <4>1 DEF Ledger, OrderPart, FifoPerType
    <3> QED BY <3>2, <3>3
  <2>3. ASSUME NEW k \in 1 .. n + 1
        PROVE  /\ log'[k].slot \in Slots
               /\ log'[k].generation <= queues'[log'[k].slot].generation
    <3>1. CASE k = n + 1
      BY <1>1, <1>6, <1>8, <3>1
    <3>2. CASE k # n + 1
      <4>1. k \in DOMAIN log /\ log'[k] = log[k]
        BY <1>6, <3>2
      <4>2. log[k].slot \in Slots /\ log[k].generation <= queues[log[k].slot].generation
        BY <4>1, LogTypes DEF Ledger, OrderPart
      <4>3. queues'[log[k].slot].generation = queues[log[k].slot].generation
        BY <4>2
      <4> QED BY <4>1, <4>2, <4>3
    <3> QED BY <3>1, <3>2
  <2>4. ASSUME NEW k \in 1 .. n + 1,
               log'[k].generation = queues'[log'[k].slot].generation,
               NEW j \in DOMAIN queues'[log'[k].slot].items,
               queues'[log'[k].slot].items[j].mtype = log'[k].item.mtype
        PROVE  log'[k].item.id < queues'[log'[k].slot].items[j].id
    <3>1. CASE k = n + 1
      <4>1. log'[k] = e /\ j \in DOMAIN rest /\ rest[j].mtype = items[i].mtype
        BY <1>6, <1>8, <2>4, <3>1 DEF rest
      <4>2. PICK m \in DOMAIN items : rest[j] = items[m] /\ m # i
        BY <1>4, <4>1
      <4>3. ~(m < i)
        BY <4>1, <4>2 DEF items
      <4>4. i < m
        BY <1>1, <1>5, <4>2, <4>3
      <4>5. items[i].id < items[m].id
        BY <1>3, <1>5, <4>4 DEF ItemsOK
      <4> QED BY <1>8, <4>1, <4>2, <4>5 DEF rest
    <3>2. CASE k # n + 1
      <4>1. k \in DOMAIN log /\ log'[k] = log[k]
        BY <1>6, <3>2
      <4>2. CASE log[k].slot = s
        <5>1. j \in DOMAIN rest /\ rest[j].mtype = log[k].item.mtype
          BY <2>4, <4>1, <4>2 DEF rest
        <5>2. PICK m \in DOMAIN items : rest[j] = items[m]
          BY <1>4, <5>1
        <5>3. log[k].generation = queues[s].generation
          BY <2>4, <4>1, <4>2
        <5>4. log[k].item.id < items[m].id
          BY <4>1, <4>2, <5>1, <5>2, <5>3 DEF Ledger, OrderPart, items
        <5> QED BY <4>1, <4>2, <5>2, <5>4 DEF rest
      <4>3. CASE log[k].slot # s
        <5>1. queues'[log[k].slot] = queues[log[k].slot]
          BY <4>1, <4>3, LogTypes
        <5> QED BY <2>4, <4>1, <5>1 DEF Ledger, OrderPart
      <4> QED BY <4>2, <4>3
    <3> QED BY <3>1, <3>2
  <2> QED BY <1>6, <2>2, <2>3, <2>4 DEF OrderPart
<1> QED
  BY <1>9, <1>13, <1>14 DEF Ledger

(* It removes the queue of slot s with what is in it.                      *)
LEMMA LedgerRemove ==
  ASSUME Inv, Ledger, NEW s \in Slots, UNCHANGED <<num_queues, sent, log>>,
         removed' = removed \cup {queues[s].items[i].id : i \in DOMAIN queues[s].items},
         queues'[s].items = <<>>, ~queues'[s].valid,
         queues'[s].generation = queues[s].generation + 1,
         \A u \in Slots \ {s} : queues'[u] = queues[u]
  PROVE  Ledger'
<1>1. DOMAIN queues'[s].items = {}
  BY EmptySeq, LenProperties
<1>2. SlotsPart'
  <2>1. ItemsOK(queues[s].items)'
    BY <1>1 DEF ItemsOK
  <2>2. ASSUME NEW u \in Slots, u # s PROVE ItemsOK(queues[u].items)'
    <3>1. queues'[u].items = queues[u].items /\ ItemsOK(queues[u].items)
      BY <2>2 DEF Ledger, SlotsPart
    <3> QED BY <3>1 DEF ItemsOK
  <2> QED BY <2>1, <2>2 DEF Ledger, SlotsPart
<1>3. ASSUME NEW u \in Slots, NEW k
      PROVE  IdIn(queues'[u].items, k) <=> u # s /\ IdIn(queues[u].items, k)
  BY <1>1 DEF IdIn
<1>4. ASSUME NEW k PROVE k \in removed' <=> k \in removed \/ IdIn(queues[s].items, k)
  BY DEF IdIn
<1>5. LedgerPart'
  <2>1. ASSUME NEW k PROVE Queued(k)' <=> \E u \in Slots \ {s} : IdIn(queues[u].items, k)
    BY <1>3 DEF Queued
  <2>2. ASSUME NEW k PROVE Handed(k)' <=> Handed(k)
    BY DEF Handed
  <2>3. \A k \in 1 .. sent' : Queued(k)' \/ Handed(k)' \/ k \in removed'
    BY <1>4, <2>1, <2>2 DEF Ledger, LedgerPart, Queued
  <2>4. ASSUME NEW k \in Nat
        PROVE  /\ ~(Queued(k)' /\ Handed(k)') /\ ~(Queued(k)' /\ k \in removed')
               /\ ~(Handed(k)' /\ k \in removed')
               /\ Handed(k)' \/ k \in removed' => k \in 1 .. sent'
    <3>1. Queued(k)' => Queued(k)
      BY <2>1 DEF Queued
    <3>2. IdIn(queues[s].items, k) => Queued(k) /\ k \in 1 .. sent
      BY QueuedWasSent DEF Queued
    <3>3. IdIn(queues[s].items, k) => ~Queued(k)'
      BY <2>1 DEF Ledger, LedgerPart
    <3> QED BY <1>4, <2>2, <3>1, <3>2, <3>3 DEF Ledger, LedgerPart
  <2>5. \A u, v \in Slots, k \in Nat :
           IdIn(queues'[u].items, k) /\ IdIn(queues'[v].items, k) => u = v
    BY <1>3 DEF Ledger, LedgerPart
  <2> QED BY <2>3, <2>4, <2>5 DEF Ledger, LedgerPart
<1>6. OrderPart'
  <2>1. FifoPerType'
    BY DEF Ledger, OrderPart, FifoPerType
  <2>2. ASSUME NEW k \in DOMAIN log
        PROVE  LET q == queues'[log[k].slot]
               IN  /\ log[k].generation <= q.generation
                   /\ log[k].generation = q.generation =>
                        \A i \in DOMAIN q.items :
                          q.items[i].mtype = log[k].item.mtype => log[k].item.id < q.items[i].id
    <3>1. log[k].slot \in Slots /\ log[k].generation \in Nat
          /\ queues[log[k].slot].generation \in Nat
      BY LogTypes, QueueTypes
    <3>2. log[k].generation <= queues[log[k].slot].generation
      BY DEF Ledger, OrderPart
    <3>3. CASE log[k].slot = s
      BY <1>1, <3>1, <3>2, <3>3
    <3>4. CASE log[k].slot # s
      <4>1. queues'[log[k].slot] = queues[log[k].slot]
        BY <3>1, <3>4
      <4> QED BY <4>1 DEF Ledger, OrderPart
    <3> QED BY <3>3, <3>4
  <2> QED BY <2>1, <2>2 DEF OrderPart
<1> QED
  BY <1>2, <1>5, <1>6 DEF Ledger

(* A handler that touches neither queues nor history keeps the ledger.     *)
LEMMA LedgerUntouched ==
  ASSUME Inv, Ledger, UNCHANGED <<queues, num_queues, sent, log, removed>>
  PROVE  Ledger'
  BY LedgerSame DEF Ledger, SlotsPart

(* The queue's side of a receive, direct or retried, keeps it.             *)
LEMMA LedgerConsume ==
  ASSUME Inv, Ledger, NEW s \in Slots, NEW a, a.sz \in Int,
         Consume(s, sysvipc_do_msgrcv(a, queues[s].items)),
         UNCHANGED <<num_queues, sent, removed>>
  PROVE  Ledger'
<1> DEFINE r == sysvipc_do_msgrcv(a, queues[s].items)
<1>1. queues[s].items \in Seq(Item) /\ queues[s] \in QueueType
  BY QueueTypes DEF Inv, QueuesPart
<1>2. r.took \in {0} \cup (1 .. Len(queues[s].items))
  BY <1>1, DoMsgrcvType
<1>3. CASE r.took = 0
  BY <1>3, LedgerUntouched DEF Consume
<1>4. CASE r.took # 0
  <2>1. \A j \in DOMAIN queues[s].items :
           j < r.took => queues[s].items[j].mtype # queues[s].items[r.took].mtype
    BY <1>1, <1>4, TakesTheFirst
  <2> HIDE DEF r
  <2>2. /\ queues' = [queues EXCEPT ![s].items = Without(@, r.took), ![s].qnum = @ - 1]
        /\ log' = Append(log, [item |-> queues[s].items[r.took], slot |-> s,
                               generation |-> queues[s].generation])
    BY <1>4 DEF Consume, r
  <2>3. queues \in [Slots -> QueueType]
    BY DEF Inv, QueuesPart
  <2>4. /\ queues'[s].items = Without(queues[s].items, r.took)
        /\ queues'[s].generation = queues[s].generation /\ queues'[s].valid = queues[s].valid
    BY <1>1, <2>2, <2>3 DEF QueueType
  <2>5. \A u \in Slots \ {s} : queues'[u] = queues[u]
    BY <2>2, <2>3
  <2>6. r.took \in 1 .. Len(queues[s].items)
    BY <1>2, <1>4
  <2> QED BY <2>1, <2>2, <2>4, <2>5, <2>6, LedgerTake
<1> QED
  BY <1>3, <1>4

(* msgget sends nothing and hands out nothing: it opens a free, empty slot. *)
LEMMA MsgGetLedger ==
  ASSUME Inv, Ledger, NEW t \in Tracees, NEW key \in Keys, NEW creat \in BOOLEAN,
         NEW excl \in BOOLEAN, MsgGet(t, key, creat, excl)
  PROVE  Ledger'
<1>1. CASE Matching(key) # {} \/ ~creat
  BY <1>1, LedgerUntouched DEF MsgGet
<1>2. CASE Matching(key) = {} /\ creat
  <2> DEFINE s == IF Unused # {} THEN Least(Unused) ELSE num_queues + 1
             p == [queues[s] EXCEPT !.key = key, !.valid = TRUE, !.items = <<>>, !.qnum = 0]
  <2>1. /\ s \in Slots /\ num_queues' = (IF s > num_queues THEN s ELSE num_queues)
        /\ queues' = [queues EXCEPT ![s] = p] /\ UNCHANGED <<sent, log, removed>>
    BY <1>2 DEF MsgGet
  <2>2. num_queues \in Nat /\ queues \in [Slots -> QueueType] /\ Slots \subseteq Nat
    BY BoundsAssumption DEF Inv, QueuesPart, Slots
  <2>3. ~queues[s].valid
    <3>1. CASE Unused # {}
      <4>1. Unused \in SUBSET Nat
        BY <2>2 DEF Unused
      <4>2. s \in Unused
        BY <3>1, <4>1, LeastInSet
      <4> QED BY <4>2 DEF Unused
    <3>2. CASE Unused = {}
      <4>1. s = num_queues + 1
        BY <3>2
      <4>2. s > num_queues
        BY <2>2, <4>1
      <4> QED BY <2>1, <4>2 DEF Ledger, SlotsPart
    <3> QED BY <3>1, <3>2
  <2>4. p.items = <<>> /\ p.generation = queues[s].generation /\ p.valid = TRUE
    <3>1. queues[s] \in QueueType
      BY <2>1, <2>2
    <3> HIDE DEF s
    <3> QED BY <3>1 DEF QueueType
  <2> HIDE DEF s, p
  <2>5. queues[s].items = <<>>
    BY <2>1, <2>3 DEF Ledger, SlotsPart
  <2>6. queues'[s] = p /\ \A u \in Slots \ {s} : queues'[u] = queues[u]
    BY <2>1, <2>2
  <2>7. ASSUME NEW u \in Slots
        PROVE  /\ queues'[u].items = queues[u].items
               /\ queues'[u].generation = queues[u].generation
               /\ ~queues'[u].valid => queues'[u].items = <<>>
               /\ u > num_queues' => ~queues'[u].valid
    <3>1. CASE u = s
      BY <2>1, <2>2, <2>4, <2>5, <2>6, <3>1
    <3>2. CASE u # s
      <4>1. queues'[u] = queues[u]
        BY <2>6, <3>2
      <4>2. u > num_queues' => u > num_queues
        BY <2>1, <2>2
      <4> QED BY <4>1, <4>2 DEF Ledger, SlotsPart
    <3> QED BY <3>1, <3>2
  <2> QED BY <2>1, <2>7, LedgerSame
<1> QED
  BY <1>1, <1>2

(* msgsnd puts one new message, with the next number, at one tail.         *)
LEMMA MsgSndLedger ==
  ASSUME Inv, Ledger, NEW t \in Tracees, NEW id \in Ids, NEW m \in Messages, MsgSnd(t, id, m)
  PROVE  Ledger'
<1> DEFINE s == id[1]
           woken == Receivers(s, m.mtype)
           item == [id |-> sent + 1, mtype |-> m.mtype, len |-> m.len, announced |-> woken # {}]
<1>1. /\ sent < MaxSends /\ sent' = sent + 1 /\ UNCHANGED <<num_queues, log, removed>>
      /\ queues' = [queues EXCEPT ![s].items = Append(@, item), ![s].qnum = @ + 1]
      /\ queues[s].valid
  BY DEF MsgSnd, LookupOk
<1>2. s \in Slots /\ queues \in [Slots -> QueueType]
  BY DEF Ids, Inv, QueuesPart
<1>3. item \in Item /\ item.id = sent + 1
  <2>1. (woken # {}) \in BOOLEAN
    OBVIOUS
  <2>2. sent + 1 \in Nat /\ m.mtype \in Nat /\ m.len \in Nat
    BY MessagesAssumption DEF Inv, HistoryPart
  <2> HIDE DEF woken
  <2> QED BY <2>1, <2>2 DEF Item
<1> HIDE DEF item, s
<1>4. /\ queues'[s].items = Append(queues[s].items, item)
      /\ queues'[s].generation = queues[s].generation /\ queues'[s].valid = queues[s].valid
      /\ \A u \in Slots \ {s} : queues'[u] = queues[u]
  <2>1. queues[s] \in QueueType
    BY <1>2
  <2> QED BY <1>1, <1>2, <2>1 DEF QueueType
<1> QED
  BY <1>1, <1>2, <1>3, <1>4, LedgerSend

(* msgrcv takes one message out of one queue, or parks its caller.         *)
LEMMA MsgRcvLedger ==
  ASSUME Inv, Ledger, NEW t \in Tracees, NEW id \in Ids, NEW a \in RcvArgs, MsgRcv(t, id, a)
  PROVE  Ledger'
<1>1. id[1] \in Slots /\ a.sz \in Int
  BY RcvArgsAssumption DEF Ids
<1>2. CASE ~LookupOk(id)
  BY <1>2, LedgerUntouched DEF MsgRcv
<1>3. CASE LookupOk(id)
  BY <1>1, <1>3, LedgerConsume DEF MsgRcv
<1> QED
  BY <1>2, <1>3

(* msgctl(IPC_RMID) drops every message of one queue and closes the slot.  *)
LEMMA MsgRmidLedger ==
  ASSUME Inv, Ledger, NEW t \in Tracees, NEW id \in Ids, MsgRmid(t, id)
  PROVE  Ledger'
<1> DEFINE s == id[1]
           p == [Empty EXCEPT !.generation = queues[s].generation + 1]
<1>1. /\ queues' = [queues EXCEPT ![s] = p] /\ UNCHANGED <<num_queues, sent, log>>
      /\ removed' = removed \cup {queues[s].items[i].id : i \in DOMAIN queues[s].items}
  BY DEF MsgRmid
<1>2. s \in Slots /\ queues \in [Slots -> QueueType]
  BY DEF Ids, Inv, QueuesPart
<1>3. p.items = <<>> /\ p.generation = queues[s].generation + 1 /\ ~p.valid
  BY DEF Empty
<1> HIDE DEF p
<1>4. queues'[s] = p /\ \A u \in Slots \ {s} : queues'[u] = queues[u]
  BY <1>1, <1>2
<1> QED
  BY <1>1, <1>2, <1>3, <1>4, LedgerRemove

(* The end of a parked call either receives, as msgrcv does, or moves nothing. *)
LEMMA ParkedCallEndsLedger ==
  ASSUME Inv, Ledger, NEW t \in Tracees, ParkedCallEnds(t)
  PROVE  Ledger'
<1> DEFINE c == config[t]
           s == c.wait.waiting_object_index
           retry == c.wait.chain_state = "MSGRCV_RETRY" /\ c.wait.status_after_wait = EAGAIN
<1>1. CASE retry /\ queues[s].valid
  <2>1. RecordOK(c, num_queues) /\ num_queues \in 0 .. MaxQueues
    BY DEF Inv, ConfigPart, QueuesPart
  <2>2. s \in Slots
    BY <1>1, <2>1, BoundsAssumption DEF RecordOK, Slots
  <2>3. c.args.sz \in Int
    BY <2>1, RcvArgsAssumption DEF RecordOK, ConfigType, NoArgs
  <2>4. Consume(s, sysvipc_do_msgrcv(c.args, queues[s].items))
        /\ UNCHANGED <<num_queues, sent, removed>>
    BY <1>1 DEF ParkedCallEnds
  <2> QED BY <2>2, <2>3, <2>4, LedgerConsume
<1>2. CASE ~(retry /\ queues[s].valid)
  BY <1>2, LedgerUntouched DEF ParkedCallEnds
<1> QED
  BY <1>1, <1>2

-----------------------------------------------------------------------------
(* Sleepers.  A record keeps its reason, its slot and its arguments across *)
(* the end of a handler; a tracee in user code has no reason to wait.      *)
LEMMA CommonKeepsReason ==
  ASSUME NEW c \in ConfigType, NEW st, NEW b \in BOOLEAN
  PROVE  LET d == [c EXCEPT !.wait = sysvipc_syscall_common(@, st, b)] IN
         /\ d.wait.wait_reason = c.wait.wait_reason
         /\ Tidy(d).wait.wait_reason = c.wait.wait_reason
<1> DEFINE w == sysvipc_syscall_common(c.wait, st, b)
           d == [c EXCEPT !.wait = w]
<1>1. c.wait \in WaitType
  BY DEF ConfigType
<1>2. w.wait_reason = c.wait.wait_reason /\ DOMAIN w = DOMAIN c.wait
  BY <1>1 DEF sysvipc_syscall_common, WaitType
<1> HIDE DEF w
<1>3. d.wait = w
  BY DEF ConfigType
<1> HIDE DEF d
<1>4. d.wait.wait_reason = c.wait.wait_reason
  BY <1>2, <1>3
<1>5. Tidy(d).wait.wait_reason = d.wait.wait_reason
  <2>1. "wait_reason" \in DOMAIN d.wait
    BY <1>1, <1>2, <1>3 DEF WaitType
  <2> QED BY <2>1 DEF Tidy
<1> QED
  BY <1>4, <1>5 DEF d, w

(* A tracee that is not stopped in a call has no wait record to answer for. *)
LEMMA AwakeInUserCode ==
  ASSUME Inv, NEW t \in Tracees, Ready(t)
  PROVE  config[t].wait.wait_reason = "WR_NOT_WAITING" /\ config[t] \in ConfigType
  BY ReadyOK DEF RecordOK, WaitCoherent, InUserCode

(* Answering a tracee lets it run and changes no other record.             *)
LEMMA AnswerLeavesAwake ==
  ASSUME Inv, NEW t \in Tracees, Ready(t), NEW c \in ConfigType, c.wait = config[t].wait,
         NEW st, Answer(t, c, st)
  PROVE  /\ config'[t].wait.wait_reason = "WR_NOT_WAITING"
         /\ \A u \in Tracees \ {t} : config'[u] = config[u]
<1>1. PICK b \in BOOLEAN : config' = [config EXCEPT ![t] =
                 Tidy([c EXCEPT !.wait = sysvipc_syscall_common(@, st, b)])]
  BY DEF Answer
<1> DEFINE d == Tidy([c EXCEPT !.wait = sysvipc_syscall_common(@, st, b)])
<1>2. d.wait.wait_reason = "WR_NOT_WAITING"
  BY CommonKeepsReason, AwakeInUserCode
<1> HIDE DEF d
<1>3. config' = [config EXCEPT ![t] = d] /\ DOMAIN config = Tracees
  BY <1>1 DEF d, Inv, ConfigPart
<1> QED
  BY <1>2, <1>3

(* A step that starts no wait and adds no item keeps the sleepers.         *)
LEMMA SleepersKept ==
  ASSUME SleepersWereConsidered,
         \A s \in Slots, t \in Tracees :
           t \in InList' /\ WaitingOn(t, s)' =>
             /\ t \in InList /\ WaitingOn(t, s)
             /\ config'[t].args = config[t].args,
         \A s \in Slots : \A i \in DOMAIN queues'[s].items :
           \E j \in DOMAIN queues[s].items : queues'[s].items[i] = queues[s].items[j]
  PROVE  SleepersWereConsidered'
<1> SUFFICES ASSUME NEW s \in Slots, NEW t \in InList', WaitingOn(t, s)',
                    NEW i \in DOMAIN queues'[s].items,
                    sysvipc_msg_match(queues'[s].items[i].mtype, config'[t].args.typ,
                                      config'[t].args.flg)
             PROVE  queues'[s].items[i].announced
  BY DEF SleepersWereConsidered
<1>1. t \in Tracees
  BY DEF InList
<1>2. t \in InList /\ WaitingOn(t, s) /\ config'[t].args = config[t].args
  BY <1>1
<1>3. PICK j \in DOMAIN queues[s].items : queues'[s].items[i] = queues[s].items[j]
  OBVIOUS
<1>4. sysvipc_msg_match(queues[s].items[j].mtype, config[t].args.typ, config[t].args.flg)
  BY <1>2, <1>3
<1> QED
  BY <1>2, <1>3, <1>4 DEF SleepersWereConsidered

(* The same, when the step answers tracee t.                               *)
LEMMA SleepersAnswered ==
  ASSUME Inv, SleepersWereConsidered, NEW t \in Tracees, Ready(t),
         NEW c \in ConfigType, c.wait = config[t].wait, NEW st, Answer(t, c, st),
         UNCHANGED life,
         \A s \in Slots : \A i \in DOMAIN queues'[s].items :
           \E j \in DOMAIN queues[s].items : queues'[s].items[i] = queues[s].items[j]
  PROVE  SleepersWereConsidered'
<1>1. /\ config'[t].wait.wait_reason = "WR_NOT_WAITING"
      /\ \A u \in Tracees \ {t} : config'[u] = config[u]
  BY AnswerLeavesAwake
<1>2. InList' = InList
  BY DEF InList
<1>3. ASSUME NEW s \in Slots, NEW u \in Tracees, u \in InList', WaitingOn(u, s)'
      PROVE  u \in InList /\ WaitingOn(u, s) /\ config'[u].args = config[u].args
  <2>1. u # t
    BY <1>1, <1>3 DEF WaitingOn
  <2>2. config'[u] = config[u]
    BY <1>1, <2>1
  <2> QED BY <1>2, <1>3, <2>2 DEF WaitingOn
<1> QED
  BY <1>3, SleepersKept

(* The items a receive leaves were all there before.                       *)
LEMMA ConsumeShrinks ==
  ASSUME Inv, Ledger, NEW s \in Slots, NEW r, r.took \in {0} \cup (1 .. Len(queues[s].items)),
         Consume(s, r)
  PROVE  \A u \in Slots : \A i \in DOMAIN queues'[u].items :
           \E j \in DOMAIN queues[u].items : queues'[u].items[i] = queues[u].items[j]
<1>1. CASE r.took = 0
  BY <1>1 DEF Consume
<1>2. CASE r.took # 0
  <2> DEFINE items == queues[s].items
             rest == Without(items, r.took)
  <2>1. queues' = [queues EXCEPT ![s].items = Without(@, r.took), ![s].qnum = @ - 1]
    BY <1>2 DEF Consume
  <2>2. queues \in [Slots -> QueueType] /\ queues[s] \in QueueType
    BY DEF Inv, QueuesPart
  <2>3. queues'[s].items = rest /\ \A u \in Slots \ {s} : queues'[u] = queues[u]
    BY <2>1, <2>2 DEF QueueType
  <2>4. items \in Seq(Item) /\ IdsGrow(items) /\ r.took \in 1 .. Len(items)
    BY <1>2, QueueTypes DEF Ledger, SlotsPart, ItemsOK, IdsGrow
  <2> HIDE DEF items
  <2>5. TookOut(items, r.took, rest)
    BY <2>4, WithoutItems
  <2> HIDE DEF rest
  <2>6. \A i \in DOMAIN rest : \E j \in DOMAIN items : rest[i] = items[j]
    BY <2>5 DEF TookOut
  <2> QED BY <2>3, <2>6 DEF items
<1> QED
  BY <1>1, <1>2

(* msgget puts no message in a queue, so no sleeper has missed one.        *)
LEMMA MsgGetSleepers ==
  ASSUME Inv, DInv, NEW t \in Tracees, NEW key \in Keys, NEW creat \in BOOLEAN,
         NEW excl \in BOOLEAN, MsgGet(t, key, creat, excl)
  PROVE  SleepersWereConsidered'
<1>1. Ready(t) /\ UNCHANGED life /\ \E st : Answer(t, config[t], st)
  BY DEF MsgGet
<1>2. \A s \in Slots : \A i \in DOMAIN queues'[s].items :
         \E j \in DOMAIN queues[s].items : queues'[s].items[i] = queues[s].items[j]
  <2>1. CASE Matching(key) # {} \/ ~creat
    BY <2>1 DEF MsgGet
  <2>2. CASE Matching(key) = {} /\ creat
    <3> DEFINE s == IF Unused # {} THEN Least(Unused) ELSE num_queues + 1
               p == [queues[s] EXCEPT !.key = key, !.valid = TRUE, !.items = <<>>, !.qnum = 0]
    <3>1. s \in Slots /\ queues' = [queues EXCEPT ![s] = p]
      BY <2>2 DEF MsgGet
    <3>2. queues \in [Slots -> QueueType] /\ queues[s] \in QueueType
      BY <3>1 DEF Inv, QueuesPart
    <3> HIDE DEF s
    <3>3. p.items = <<>>
      BY <3>2 DEF QueueType
    <3> HIDE DEF p
    <3>4. queues'[s].items = <<>> /\ \A u \in Slots \ {s} : queues'[u] = queues[u]
      BY <3>1, <3>2, <3>3
    <3>5. DOMAIN queues'[s].items = {}
      BY <3>4, EmptySeq, LenProperties
    <3> QED BY <3>4, <3>5
  <2> QED BY <2>1, <2>2
<1> QED
  BY <1>1, <1>2, AwakeInUserCode, SleepersAnswered DEF DInv

(* msgsnd: a sleeper that could take the new message is one of the         *)
(* receivers, so one of them is woken for it.                              *)
LEMMA MsgSndSleepers ==
  ASSUME Inv, DInv, NEW t \in Tracees, NEW id \in Ids, NEW m \in Messages, MsgSnd(t, id, m)
  PROVE  SleepersWereConsidered'
<1> DEFINE s == id[1]
           woken == Receivers(s, m.mtype)
           r == FirstInList(woken)
           item == [id |-> sent + 1, mtype |-> m.mtype, len |-> m.len, announced |-> woken # {}]
           items == queues[s].items
<1>1. /\ Ready(t) /\ UNCHANGED life
      /\ queues' = [queues EXCEPT ![s].items = Append(@, item), ![s].qnum = @ + 1]
  BY DEF MsgSnd
<1>2. s \in Slots /\ queues \in [Slots -> QueueType] /\ queues[s] \in QueueType
  BY DEF Ids, Inv, QueuesPart
<1>3. item \in Item /\ item.mtype = m.mtype /\ item.announced = (woken # {})
  <2>1. (woken # {}) \in BOOLEAN
    OBVIOUS
  <2>2. sent + 1 \in Nat /\ m.mtype \in Nat /\ m.len \in Nat
    BY MessagesAssumption DEF Inv, HistoryPart
  <2> HIDE DEF woken
  <2> QED BY <2>1, <2>2 DEF Item
<1>4. /\ items \in Seq(Item) /\ Len(items) \in Nat /\ DOMAIN items = 1 .. Len(items)
  BY <1>2, QueueTypes
<1> HIDE DEF item
<1>5. /\ queues'[s].items = Append(items, item)
      /\ \A u \in Slots \ {s} : queues'[u] = queues[u]
  BY <1>1, <1>2 DEF QueueType
<1>6. ASSUME NEW i \in DOMAIN Append(items, item)
      PROVE  Append(items, item)[i] = item
             \/ \E j \in DOMAIN items : Append(items, item)[i] = items[j]
  <2> HIDE DEF items
  <2>1. /\ Append(items, item) \in Seq(Item) /\ Len(Append(items, item)) = Len(items) + 1
        /\ \A j \in 1 .. Len(items) : Append(items, item)[j] = items[j]
        /\ Append(items, item)[Len(items) + 1] = item
    BY <1>3, <1>4, AppendProperties
  <2>2. i \in 1 .. Len(items) + 1
    BY <2>1, LenProperties
  <2> QED BY <1>4, <2>1, <2>2
<1> HIDE DEF woken, r, items
<1>7. PICK b \in BOOLEAN : config' = [u \in Tracees |->
            IF u = t
            THEN [config[u] EXCEPT !.wait = sysvipc_syscall_common(@, 0, b)]
            ELSE IF woken # {} /\ u = r
            THEN [config[u] EXCEPT !.wait = [sysvipc_wake_tracee(@, EAGAIN)
                                               EXCEPT !.chain_state = "MSGRCV_RETRY"]]
            ELSE config[u]]
  BY DEF MsgSnd, woken, r
<1>8. ASSUME NEW v \in Slots, NEW u \in Tracees, u \in InList', WaitingOn(u, v)'
      PROVE  u \in InList /\ WaitingOn(u, v) /\ config'[u] = config[u]
  <2>1. u \in InList
    BY <1>1, <1>8 DEF InList
  <2>2. u # t
    <3>1. config'[t] = [config[t] EXCEPT !.wait = sysvipc_syscall_common(@, 0, b)]
      BY <1>7
    <3>2. config[t] \in ConfigType /\ config[t].wait.wait_reason = "WR_NOT_WAITING"
      BY <1>1, AwakeInUserCode
    <3>3. config'[t].wait.wait_reason = "WR_NOT_WAITING"
      <4>1. [config[t] EXCEPT !.wait = sysvipc_syscall_common(@, 0, b)].wait.wait_reason
              = config[t].wait.wait_reason
        BY <3>2, CommonKeepsReason
      <4> QED BY <3>1, <3>2, <4>1
    <3> QED BY <1>8, <3>3 DEF WaitingOn
  <2>3. ~(woken # {} /\ u = r)
    <3> SUFFICES ASSUME woken # {}, u = r PROVE FALSE
      OBVIOUS
    <3> DEFINE w == [sysvipc_wake_tracee(config[u].wait, EAGAIN) EXCEPT !.chain_state = "MSGRCV_RETRY"]
    <3>1. config'[u] = [config[u] EXCEPT !.wait = w]
      BY <1>7, <2>2
    <3>2. config[u] \in ConfigType
      BY DEF Inv, ConfigPart
    <3>3. w.wait_reason = "WR_NOT_WAITING"
      BY <3>2 DEF sysvipc_wake_tracee, ConfigType, WaitType
    <3> HIDE DEF w
    <3>4. config'[u].wait = w
      BY <3>1, <3>2 DEF ConfigType
    <3> QED BY <1>8, <3>3, <3>4 DEF WaitingOn
  <2>4. config'[u] = config[u]
    BY <1>7, <2>2, <2>3
  <2> QED BY <1>8, <2>1, <2>4 DEF WaitingOn
<1>9. ASSUME NEW v \in Slots, NEW u \in InList', WaitingOn(u, v)',
             NEW i \in DOMAIN queues'[v].items,
             sysvipc_msg_match(queues'[v].items[i].mtype, config'[u].args.typ,
                               config'[u].args.flg)
      PROVE  queues'[v].items[i].announced
  <2>1. u \in Tracees
    BY DEF InList
  <2>2. u \in InList /\ WaitingOn(u, v) /\ config'[u] = config[u]
    BY <1>8, <1>9, <2>1
  <2>3. CASE \E j \in DOMAIN queues[v].items : queues'[v].items[i] = queues[v].items[j]
    BY <1>9, <2>2, <2>3 DEF DInv, SleepersWereConsidered
  <2>4. CASE v = s /\ queues'[v].items[i] = item
    <3>1. sysvipc_msg_match(m.mtype, config[u].args.typ, config[u].args.flg)
      BY <1>3, <1>9, <2>2, <2>4
    <3>2. u \in Receivers(s, m.mtype)
      BY <2>2, <2>4, <3>1 DEF Receivers
    <3>3. woken # {}
      BY <3>2 DEF woken
    <3> QED BY <1>3, <2>4, <3>3
  <2>5. CASE v = s
    <3>1. i \in DOMAIN Append(items, item) /\ queues'[v].items = Append(items, item)
      BY <1>5, <1>9, <2>5
    <3>2. \/ queues'[v].items[i] = item
          \/ \E j \in DOMAIN items : queues'[v].items[i] = items[j]
      BY <1>6, <3>1
    <3> QED BY <2>3, <2>4, <2>5, <3>2 DEF items
  <2>6. CASE v # s
    <3>1. queues'[v] = queues[v]
      BY <1>5, <2>6
    <3> QED BY <1>9, <2>3, <3>1
  <2> QED BY <2>5, <2>6
<1> QED
  BY <1>9 DEF SleepersWereConsidered

(* msgrcv parks its tracee only if no queued message matches.              *)
LEMMA WaitsForNothingThere ==
  ASSUME NEW a, NEW items, sysvipc_do_msgrcv(a, items).waits
  PROVE  /\ sysvipc_do_msgrcv(a, items).took = 0
         /\ \A i \in DOMAIN items : ~sysvipc_msg_match(items[i].mtype, a.typ, a.flg)
<1> DEFINE r == sysvipc_do_msgrcv(a, items)
<1>1. ~BadRcvArgs(a)
  BY DEF sysvipc_do_msgrcv
<1>2. Candidates(a, items) = {}
  BY <1>1 DEF sysvipc_do_msgrcv
<1>3. r.took = 0 /\ "IPC_NOWAIT" \notin a.flg
  BY <1>1, <1>2 DEF sysvipc_do_msgrcv
<1>4. "MSG_COPY" \notin a.flg
  BY <1>1, <1>3 DEF BadRcvArgs
<1> QED
  BY <1>2, <1>3, <1>4 DEF Candidates

(* A receiver that parks was offered everything its queue holds.           *)
LEMMA MsgRcvSleepers ==
  ASSUME Inv, DInv, NEW t \in Tracees, NEW id \in Ids, NEW a \in RcvArgs, MsgRcv(t, id, a)
  PROVE  SleepersWereConsidered'
<1> DEFINE s == id[1]
           r == sysvipc_do_msgrcv(a, queues[s].items)
           c == [config[t] EXCEPT !.args = a]
<1>1. Ready(t) /\ UNCHANGED life /\ config[t] \in ConfigType /\ s \in Slots
  BY AwakeInUserCode DEF MsgRcv, Ids
<1>2. CASE ~LookupOk(id)
  <2>1. Answer(t, config[t], EINVAL) /\ UNCHANGED queues
    BY <1>2 DEF MsgRcv
  <2> QED BY <1>1, <2>1, SleepersAnswered DEF DInv
<1>3. CASE LookupOk(id)
  <2>1. Consume(s, r) /\ Answer(t, IF r.waits THEN StartWait(c, s) ELSE c, r.status)
    BY <1>3 DEF MsgRcv
  <2>2. c \in ConfigType /\ c.wait = config[t].wait /\ c.args = a
    BY <1>1 DEF ConfigType
  <2>3. CASE ~r.waits
    <3>1. a.sz \in Int /\ queues[s].items \in Seq(Item)
      BY <1>1, RcvArgsAssumption, QueueTypes
    <3>2. r.took \in {0} \cup (1 .. Len(queues[s].items))
      BY <3>1, DoMsgrcvType
    <3>3. Answer(t, c, r.status)
      BY <2>1, <2>3
    <3> HIDE DEF r, c
    <3>4. \A u \in Slots : \A i \in DOMAIN queues'[u].items :
             \E j \in DOMAIN queues[u].items : queues'[u].items[i] = queues[u].items[j]
      BY <1>1, <2>1, <3>2, ConsumeShrinks DEF DInv
    <3> QED BY <1>1, <2>2, <3>3, <3>4, SleepersAnswered DEF DInv
  <2>4. CASE r.waits
    <3>1. /\ UNCHANGED queues
          /\ \A i \in DOMAIN queues[s].items :
                ~sysvipc_msg_match(queues[s].items[i].mtype, a.typ, a.flg)
      BY <2>1, <2>4, WaitsForNothingThere DEF Consume
    <3>2. PICK b \in BOOLEAN : config' = [config EXCEPT ![t] =
             Tidy([StartWait(c, s) EXCEPT !.wait = sysvipc_syscall_common(@, r.status, b)])]
      BY <2>1, <2>4 DEF Answer
    <3> DEFINE d == [StartWait(c, s) EXCEPT !.wait = sysvipc_syscall_common(@, r.status, b)]
    <3> HIDE DEF r, c
    <3>3. /\ d.args = a /\ d.wait.waiting_object_index = s
          /\ d.wait.wait_state \in {"RESTARTED_INTO_PPOLL", "ENTERED_PPOLL"}
      BY <2>2 DEF StartWait, sysvipc_syscall_common, ConfigType, WaitType
    <3>4. config'[t] = Tidy(d) /\ \A u \in Tracees \ {t} : config'[u] = config[u]
      BY <3>2 DEF Inv, ConfigPart
    <3> HIDE DEF d
    <3>5. config'[t] = d
      BY <3>3, <3>4 DEF Tidy
    <3>6. ASSUME NEW v \in Slots, NEW u \in InList', WaitingOn(u, v)',
                 NEW i \in DOMAIN queues'[v].items,
                 sysvipc_msg_match(queues'[v].items[i].mtype, config'[u].args.typ,
                                   config'[u].args.flg)
          PROVE  queues'[v].items[i].announced
      <4>1. u \in Tracees /\ u \in InList
        BY <1>1, <3>6 DEF InList
      <4>2. CASE u = t
        <5>1. v = s /\ config'[u].args = a
          BY <3>3, <3>5, <3>6, <4>2 DEF WaitingOn
        <5> QED BY <3>1, <3>6, <5>1
      <4>3. CASE u # t
        <5>1. config'[u] = config[u] /\ WaitingOn(u, v)
          BY <3>4, <3>6, <4>1, <4>3 DEF WaitingOn
        <5> QED BY <3>1, <3>6, <4>1, <5>1 DEF DInv, SleepersWereConsidered
      <4> QED BY <4>2, <4>3
    <3> QED BY <3>6 DEF SleepersWereConsidered
  <2> QED BY <2>3, <2>4
<1> QED
  BY <1>2, <1>3

(* msgctl(IPC_RMID) ends every wait for the queue it removes.              *)
LEMMA MsgRmidSleepers ==
  ASSUME Inv, DInv, NEW t \in Tracees, NEW id \in Ids, MsgRmid(t, id)
  PROVE  SleepersWereConsidered'
<1> DEFINE s == id[1]
           W == {r \in InList : WaitingOn(r, s)}
           p == [Empty EXCEPT !.generation = queues[s].generation + 1]
<1>1. Ready(t) /\ UNCHANGED life /\ queues' = [queues EXCEPT ![s] = p]
  BY DEF MsgRmid
<1>2. s \in Slots /\ queues \in [Slots -> QueueType]
  BY DEF Ids, Inv, QueuesPart
<1>3. p.items = <<>>
  BY DEF Empty
<1> HIDE DEF p
<1>4. queues'[s].items = <<>> /\ \A u \in Slots \ {s} : queues'[u] = queues[u]
  BY <1>1, <1>2, <1>3
<1>5. DOMAIN queues'[s].items = {}
  BY <1>4, EmptySeq, LenProperties
<1>6. \A u \in Slots : \A i \in DOMAIN queues'[u].items :
         \E j \in DOMAIN queues[u].items : queues'[u].items[i] = queues[u].items[j]
  BY <1>4, <1>5
<1>7. PICK b \in BOOLEAN : config' = [u \in Tracees |->
               IF u \in W THEN [config[u] EXCEPT !.wait = sysvipc_wake_tracee(@, EIDRM)]
               ELSE IF u = t
               THEN [config[u] EXCEPT !.wait = sysvipc_syscall_common(@, 0, b)]
               ELSE config[u]]
  BY DEF MsgRmid
<1> HIDE DEF W
<1>8. ASSUME NEW v \in Slots, NEW u \in Tracees, u \in InList', WaitingOn(u, v)'
      PROVE  u \in InList /\ WaitingOn(u, v) /\ config'[u].args = config[u].args
  <2>0. config[u] \in ConfigType
    BY DEF Inv, ConfigPart
  <2>1. u \notin W
    <3> SUFFICES ASSUME u \in W PROVE FALSE
      OBVIOUS
    <3> DEFINE w == sysvipc_wake_tracee(config[u].wait, EIDRM)
    <3>1. config'[u] = [config[u] EXCEPT !.wait = w]
      BY <1>7
    <3>2. w.wait_reason = "WR_NOT_WAITING"
      BY <2>0 DEF sysvipc_wake_tracee, ConfigType, WaitType
    <3> HIDE DEF w
    <3>3. config'[u].wait = w
      BY <2>0, <3>1 DEF ConfigType
    <3> QED BY <1>8, <3>2, <3>3 DEF WaitingOn
  <2>2. u # t
    <3> SUFFICES ASSUME u = t PROVE FALSE
      OBVIOUS
    <3>1. config'[t] = [config[t] EXCEPT !.wait = sysvipc_syscall_common(@, 0, b)]
      BY <1>7, <2>1
    <3>2. config[t] \in ConfigType /\ config[t].wait.wait_reason = "WR_NOT_WAITING"
      BY <1>1, AwakeInUserCode
    <3>3. config'[t].wait.wait_reason = "WR_NOT_WAITING"
      BY <3>1, <3>2, CommonKeepsReason
    <3> QED BY <1>8, <3>3 DEF WaitingOn
  <2>3. config'[u] = config[u]
    BY <1>7, <2>1, <2>2
  <2> QED BY <1>1, <1>8, <2>3 DEF WaitingOn, InList
<1> QED
  BY <1>6, <1>8, SleepersKept DEF DInv

(* The kernel's half starts no wait.                                       *)
LEMMA KernelSleepers ==
  ASSUME Inv, DInv, NEW t \in Tracees,
         ReenterPpoll(t) \/ PpollInterrupted(t) \/ Kill(t) \/ Reap(t)
  PROVE  SleepersWereConsidered'
<1>1. UNCHANGED queues /\ DOMAIN config = Tracees /\ config[t] \in ConfigType
      /\ life \in [Tracees -> {"running", "killed", "freed"}]
  BY DEF ReenterPpoll, PpollInterrupted, Kill, Reap, Inv, ConfigPart, LifePart
<1>2. ASSUME NEW u \in Tracees, u \in InList' PROVE u \in InList
  BY <1>1, <1>2 DEF ReenterPpoll, PpollInterrupted, Kill, Reap, InList
<1>3. ASSUME NEW u \in Tracees
      PROVE  \/ config'[u].wait.wait_reason = "WR_NOT_WAITING"
             \/ /\ config'[u].wait.wait_reason = config[u].wait.wait_reason
                /\ config'[u].wait.waiting_object_index = config[u].wait.waiting_object_index
                /\ config'[u].args = config[u].args
  <2>1. CASE u # t
    <3>1. config'[u] = config[u]
      BY <1>1, <2>1 DEF ReenterPpoll, PpollInterrupted, Kill, Reap
    <3> QED BY <3>1
  <2>2. CASE u = t /\ ReenterPpoll(t)
    BY <1>1, <2>2 DEF ReenterPpoll, EnterPpoll, ConfigType, WaitType
  <2>3. CASE u = t /\ PpollInterrupted(t)
    <3> DEFINE w == AbandonWait(config[t].wait)
               d == [config[t] EXCEPT !.wait = w]
    <3>1. config'[t] = Tidy(d)
      BY <1>1, <2>3 DEF PpollInterrupted
    <3>2. w.wait_reason = "WR_NOT_WAITING" /\ "wait_reason" \in DOMAIN w
      BY <1>1 DEF AbandonWait, ConfigType, WaitType
    <3> HIDE DEF w
    <3>3. d.wait = w
      BY <1>1 DEF ConfigType
    <3> HIDE DEF d
    <3>4. Tidy(d).wait.wait_reason = "WR_NOT_WAITING"
      BY <3>2, <3>3 DEF Tidy
    <3> QED BY <2>3, <3>1, <3>4
  <2>4. CASE u = t /\ Kill(t)
    BY <2>4 DEF Kill
  <2>5. CASE u = t /\ Reap(t)
    <3>1. config'[t] = InitConfig
      BY <1>1, <2>5 DEF Reap
    <3> QED BY <2>5, <3>1 DEF InitConfig, InitWait
  <2> QED BY <2>1, <2>2, <2>3, <2>4, <2>5
<1>4. ASSUME NEW s \in Slots, NEW u \in Tracees, u \in InList', WaitingOn(u, s)'
      PROVE  u \in InList /\ WaitingOn(u, s) /\ config'[u].args = config[u].args
  BY <1>2, <1>3, <1>4 DEF WaitingOn
<1> QED
  BY <1>1, <1>4, SleepersKept DEF DInv

(* A woken receiver that parks again was offered all that is queued.       *)
LEMMA ParkedCallEndsSleepers ==
  ASSUME Inv, DInv, NEW t \in Tracees, ParkedCallEnds(t)
  PROVE  SleepersWereConsidered'
<1> DEFINE c == config[t]
           w == c.wait
           s == w.waiting_object_index
           retry == w.chain_state = "MSGRCV_RETRY" /\ w.status_after_wait = EAGAIN
           r == sysvipc_do_msgrcv(c.args, queues[s].items)
           v == EndWait([w EXCEPT !.chain_state = IF @ = "MSGRCV_RETRY" THEN "NOT_CHAINED" ELSE @])
           over == [c EXCEPT !.wait = v]
<1>1. /\ w.wait_state \in {"RESTARTED_INTO_PPOLL_CANCELED", "SIGNALED_PPOLL", "ENTERED_GETPID"}
      /\ config' = [config EXCEPT ![t] = Tidy(over)] /\ UNCHANGED life
      /\ IF retry /\ queues[s].valid THEN Consume(s, r) ELSE UNCHANGED <<queues, log>>
  BY DEF ParkedCallEnds
<1>2. RecordOK(c, num_queues) /\ num_queues \in 0 .. MaxQueues /\ DOMAIN config = Tracees
  BY DEF Inv, ConfigPart, QueuesPart
<1>3. c \in ConfigType /\ w \in WaitType /\ w.wait_reason = "WR_NOT_WAITING"
  BY <1>1, <1>2 DEF RecordOK, ConfigType, WaitCoherent
<1>4. \A u \in Slots : \A i \in DOMAIN queues'[u].items :
         \E j \in DOMAIN queues[u].items : queues'[u].items[i] = queues[u].items[j]
  <2>1. CASE retry /\ queues[s].valid
    <3>1. s \in Slots
      BY <1>2, <2>1, BoundsAssumption DEF RecordOK, Slots
    <3>2. c.args.sz \in Int /\ queues[s].items \in Seq(Item)
      BY <1>3, <3>1, RcvArgsAssumption, QueueTypes DEF ConfigType, NoArgs
    <3>3. r.took \in {0} \cup (1 .. Len(queues[s].items)) /\ Consume(s, r)
      BY <1>1, <2>1, <3>2, DoMsgrcvType
    <3> HIDE DEF r, s
    <3> QED BY <3>1, <3>3, ConsumeShrinks DEF DInv
  <2>2. CASE ~(retry /\ queues[s].valid)
    BY <1>1, <2>2
  <2> QED BY <2>1, <2>2
<1>5. Tidy(over).wait.wait_reason = "WR_NOT_WAITING"
  <2>1. v.wait_reason = "WR_NOT_WAITING" /\ "wait_reason" \in DOMAIN v
    <3> HIDE DEF w
    <3> QED BY <1>3 DEF EndWait, WaitType
  <2> HIDE DEF v
  <2>2. over.wait = v
    <3> HIDE DEF c
    <3> QED BY <1>3 DEF ConfigType
  <2> HIDE DEF over
  <2> QED BY <2>1, <2>2 DEF Tidy
<1> HIDE DEF over
<1>6. ASSUME NEW x \in Slots, NEW u \in Tracees, u \in InList', WaitingOn(u, x)'
      PROVE  u \in InList /\ WaitingOn(u, x) /\ config'[u].args = config[u].args
  <2>1. u # t
    BY <1>1, <1>2, <1>5, <1>6 DEF WaitingOn
  <2>2. config'[u] = config[u]
    BY <1>1, <2>1
  <2> QED BY <1>1, <1>6, <2>2 DEF WaitingOn, InList
<1> QED
  BY <1>4, <1>6, SleepersKept DEF DInv

-----------------------------------------------------------------------------
(* Nothing is sent, and nobody waits, at the start.                        *)
LEMMA InitDInv == Init => DInv
<1> SUFFICES ASSUME Init PROVE DInv
  OBVIOUS
<1>1. \A s \in Slots : /\ queues[s].items = <<>> /\ ~queues[s].valid
                       /\ queues[s].generation = 0
  BY DEF Init, Empty
<1>2. DOMAIN <<>> = {} /\ log = <<>> /\ sent = 0 /\ removed = {}
  BY DEF Init
<1>3. SlotsPart
  BY <1>1, <1>2, BoundsAssumption DEF SlotsPart, ItemsOK
<1>4. LedgerPart
  BY <1>1, <1>2 DEF LedgerPart, Queued, Handed, IdIn
<1>5. OrderPart /\ SleepersWereConsidered
  BY <1>1, <1>2 DEF OrderPart, FifoPerType, SleepersWereConsidered
<1> QED
  BY <1>3, <1>4, <1>5 DEF DInv, Ledger

(* Every step keeps the ledger and considers the sleepers.                 *)
LEMMA NextDInv == Inv /\ DInv /\ [Next]_vars => DInv'
<1> SUFFICES ASSUME Inv, DInv, [Next]_vars PROVE DInv'
  OBVIOUS
<1>0. Ledger /\ SleepersWereConsidered
  BY DEF DInv
<1>1. CASE UNCHANGED vars
  <2>1. Ledger'
    BY <1>0, <1>1, LedgerUntouched DEF vars
  <2>2. SleepersWereConsidered'
    BY <1>0, <1>1 DEF vars, SleepersWereConsidered, InList, WaitingOn
  <2> QED BY <2>1, <2>2 DEF DInv
<1>2. CASE Next
  <2>1. PICK t \in Tracees :
          \/ Get(t) \/ Send(t) \/ Recv(t)
          \/ \E id \in Ids : MsgSndRefused(t, id) \/ MsgRmid(t, id) \/ MsgCtlOther(t, id)
          \/ ReenterPpoll(t) \/ PpollInterrupted(t) \/ ParkedCallEnds(t)
          \/ Kill(t) \/ Reap(t)
    BY <1>2 DEF Next
  <2>2. CASE Get(t)
    BY <1>0, <2>2, MsgGetLedger, MsgGetSleepers DEF Get, DInv
  <2>3. CASE Send(t)
    BY <1>0, <2>3, MsgSndLedger, MsgSndSleepers DEF Send, DInv
  <2>4. CASE Recv(t)
    BY <1>0, <2>4, MsgRcvLedger, MsgRcvSleepers DEF Recv, DInv
  <2>5. CASE \E id \in Ids : MsgRmid(t, id)
    BY <1>0, <2>5, MsgRmidLedger, MsgRmidSleepers DEF DInv
  <2>6. CASE \E id \in Ids : MsgSndRefused(t, id) \/ MsgCtlOther(t, id)
    <3>1. /\ UNCHANGED <<queues, num_queues, life, sent, log, removed>>
          /\ Ready(t) /\ \E st : Answer(t, config[t], st)
      BY <2>6 DEF MsgSndRefused, MsgCtlOther
    <3>2. Ledger'
      BY <1>0, <3>1, LedgerUntouched
    <3>3. SleepersWereConsidered'
      BY <1>0, <3>1, AwakeInUserCode, SleepersAnswered
    <3> QED BY <3>2, <3>3 DEF DInv
  <2>7. CASE ParkedCallEnds(t)
    BY <1>0, <2>7, ParkedCallEndsLedger, ParkedCallEndsSleepers DEF DInv
  <2>8. CASE ReenterPpoll(t) \/ PpollInterrupted(t) \/ Kill(t) \/ Reap(t)
    <3>1. UNCHANGED <<queues, num_queues, sent, log, removed>>
      BY <2>8 DEF ReenterPpoll, PpollInterrupted, Kill, Reap
    <3> QED BY <1>0, <2>8, <3>1, LedgerUntouched, KernelSleepers DEF DInv
  <2> QED BY <2>1, <2>2, <2>3, <2>4, <2>5, <2>6, <2>7, <2>8
<1> QED
  BY <1>1, <1>2

(* One place means one: the cardinalities of ExactlyOnce.                  *)
LEMMA LedgerIsExact == Inv /\ Ledger => ExactlyOnce
<1> SUFFICES ASSUME Inv, Ledger, NEW n \in 1 .. sent
             PROVE  LET queued == {p \in Slots \X (1 .. MaxSends) :
                                     /\ p[2] \in DOMAIN queues[p[1]].items
                                     /\ queues[p[1]].items[p[2]].id = n}
                        handed == {k \in DOMAIN log : log[k].item.id = n}
                    IN  Cardinality(queued) + Cardinality(handed)
                          + Cardinality(removed \cap {n}) = 1
  BY DEF ExactlyOnce
<1> DEFINE queued == {p \in Slots \X (1 .. MaxSends) :
                        /\ p[2] \in DOMAIN queues[p[1]].items
                        /\ queues[p[1]].items[p[2]].id = n}
           handed == {k \in DOMAIN log : log[k].item.id = n}
<1>0. sent \in 0 .. MaxSends /\ n \in Nat
  BY BoundsAssumption DEF Ledger, SlotsPart
<1>1. ~Queued(n) => queued = {}
  BY DEF Queued, IdIn
<1>2. Queued(n) => \E x : queued = {x}
  <2> SUFFICES ASSUME NEW s \in Slots, NEW i \in DOMAIN queues[s].items,
                      queues[s].items[i].id = n
               PROVE  queued = {<<s, i>>}
    BY DEF Queued, IdIn
  <2>1. i \in 1 .. MaxSends
    <3>1. i \in Nat \ {0}
      BY QueueTypes
    <3>2. n >= i
      BY DEF Ledger, SlotsPart, ItemsOK
    <3> QED BY <1>0, <3>1, <3>2, BoundsAssumption
  <2>2. <<s, i>> \in queued
    BY <2>1
  <2>3. ASSUME NEW p \in queued PROVE p = <<s, i>>
    <3>1. /\ p \in Slots \X (1 .. MaxSends) /\ p[2] \in DOMAIN queues[p[1]].items
          /\ queues[p[1]].items[p[2]].id = n
      OBVIOUS
    <3>2. IdIn(queues[p[1]].items, n) /\ IdIn(queues[s].items, n) /\ p[1] \in Slots
      BY <3>1 DEF IdIn
    <3>3. p[1] = s
      BY <1>0, <3>2 DEF Ledger, LedgerPart
    <3>4. p[2] \in DOMAIN queues[s].items /\ queues[s].items[p[2]].id = n
      BY <3>1, <3>3
    <3>5. ~(p[2] < i) /\ ~(i < p[2])
      <4>1. /\ p[2] < i => queues[s].items[p[2]].id < queues[s].items[i].id
            /\ i < p[2] => queues[s].items[i].id < queues[s].items[p[2]].id
        BY <3>4 DEF Ledger, SlotsPart, ItemsOK
      <4> QED BY <1>0, <3>4, <4>1
    <3>6. p[2] = i
      <4>1. i \in Nat /\ p[2] \in Nat
        BY <2>1, <3>1, BoundsAssumption
      <4> QED BY <3>5, <4>1
    <3>7. p = <<p[1], p[2]>>
      BY <3>1
    <3> QED BY <3>3, <3>6, <3>7
  <2> HIDE DEF queued
  <2> QED BY <2>2, <2>3
<1>3. ~Handed(n) => handed = {}
  BY DEF Handed
<1>4. Handed(n) => \E x : handed = {x}
  <2> SUFFICES ASSUME NEW k \in DOMAIN log, log[k].item.id = n PROVE handed = {k}
    BY DEF Handed
  <2> QED BY DEF Ledger, LedgerPart
<1>5. (n \notin removed => removed \cap {n} = {}) /\ (n \in removed => removed \cap {n} = {n})
  OBVIOUS
<1>6. /\ Queued(n) \/ Handed(n) \/ n \in removed
      /\ ~(Queued(n) /\ Handed(n)) /\ ~(Queued(n) /\ n \in removed)
      /\ ~(Handed(n) /\ n \in removed)
  BY <1>0 DEF Ledger, LedgerPart
<1>7. Cardinality({}) = 0 /\ \A x : Cardinality({x}) = 1
  BY FS_EmptySet, FS_Singleton
<1> HIDE DEF queued, handed
<1>8. CASE Queued(n)
  <2>1. Cardinality(queued) = 1 /\ handed = {} /\ removed \cap {n} = {}
    BY <1>2, <1>3, <1>5, <1>6, <1>7, <1>8
  <2>2. Cardinality(queued) + Cardinality(handed) + Cardinality(removed \cap {n}) = 1
    BY <1>7, <2>1
  <2> QED BY <2>2 DEF queued, handed
<1>9. CASE Handed(n)
  <2>1. queued = {} /\ Cardinality(handed) = 1 /\ removed \cap {n} = {}
    BY <1>1, <1>4, <1>5, <1>6, <1>7, <1>9
  <2>2. Cardinality(queued) + Cardinality(handed) + Cardinality(removed \cap {n}) = 1
    BY <1>7, <2>1
  <2> QED BY <2>2 DEF queued, handed
<1>10. CASE n \in removed
  <2>1. queued = {} /\ handed = {} /\ Cardinality(removed \cap {n}) = 1
    BY <1>1, <1>3, <1>5, <1>6, <1>7, <1>10
  <2>2. Cardinality(queued) + Cardinality(handed) + Cardinality(removed \cap {n}) = 1
    BY <1>7, <2>1
  <2> QED BY <2>2 DEF queued, handed
<1> QED
  BY <1>6, <1>8, <1>9, <1>10

(* Nothing is lost, doubled, reordered or overlooked: every message sent   *)
(* is queued, handed out or removed with its queue, once; messages of one  *)
(* type leave a queue in the order they were sent; and no receiver sleeps  *)
(* next to a message for which msgsnd woke nobody.                         *)
THEOREM MessagesAreDelivered == Spec => []Delivered
<1>1. Init => Inv /\ DInv
  BY InitInv, InitDInv
<1>2. Inv /\ DInv /\ [Next]_vars => (Inv /\ DInv)'
  BY NextInv, StutterInv, NextDInv
<1>3. Inv /\ DInv => Delivered
  BY LedgerIsExact DEF DInv, Ledger, OrderPart, Delivered
<1> QED
  BY <1>1, <1>2, <1>3, PTL DEF Spec
=============================================================================
