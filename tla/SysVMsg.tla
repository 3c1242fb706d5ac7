------------------------------ MODULE SysVMsg ------------------------------
(***************************************************************************)
(* The System V message queues PRoot emulates for its tracees              *)
(* (extension/sysvipc/sysvipc_msg.c), over the wait mechanism of SysVIpc.  *)
(*                                                                         *)
(* PRoot handles one ptrace event at a time, so each handler is one        *)
(* action.  Between two events anything may happen to the other tracees:   *)
(* a receiver that msgsnd woke only takes its message when PRoot sees the  *)
(* exit of its ppoll (sysvipc_msgrcv_retry), and other tracees send,       *)
(* receive, remove and create queues, or die, before that.                 *)
(***************************************************************************)
EXTENDS SysVIpc, FiniteSets, Sequences

CONSTANTS Tracees,      \* the tracees, numbered in order of creation
          Keys,         \* the keys in use; IPC_PRIVATE may be one
          Messages,     \* what a tracee may send: [mtype, len]
          RcvArgs,      \* what it may ask for: [typ, sz, flg, buf_ok]
          MaxQueues,    \* bound: slots of ipc_namespace->queues
          MaxSends,     \* bound: messages sent in a behaviour
          MaxRemovals,  \* bound: IPC_RMIDs of one slot
          MaxKills      \* bound: tracees killed in a behaviour

ASSUME TraceesAssumption == Tracees \subseteq Nat /\ IsFiniteSet(Tracees)
ASSUME BoundsAssumption == MaxQueues \in Nat /\ MaxSends \in Nat /\ MaxRemovals \in Nat
                           /\ MaxKills \in Nat
ASSUME MessagesAssumption == \A m \in Messages : m.mtype \in Nat \ {0} /\ m.len \in Nat
ASSUME RcvArgsAssumption ==
  \A a \in RcvArgs : a.typ \in Int /\ a.sz \in Int /\ a.buf_ok \in BOOLEAN

Slots == 1 .. MaxQueues
IPC_PRIVATE == "IPC_PRIVATE"

VARIABLES queues,      \* ipc_namespace->queues
          num_queues,  \* talloc_array_length(queues)
          config,      \* the SysVIpcConfig of each tracee
          life,        \* "running", "killed" (PRoot has not seen it), "freed"
          sent,        \* number of messages sent so far
          log,         \* the messages handed out, oldest first
          removed,     \* the messages that went with their queue
          failed       \* the assertion that stopped PRoot, if any

vars == <<queues, num_queues, config, life, sent, log, removed, failed>>

(* A queued message.  announced is a history field: did msgsnd wake a       *)
(* receiver for it?                                                         *)
Item == [id : Nat, mtype : Nat, len : Nat, announced : BOOLEAN]
NoArgs == [typ |-> 0, sz |-> 0, flg |-> {}, buf_ok |-> TRUE]
Empty == [key |-> IPC_PRIVATE, generation |-> 0, valid |-> FALSE,
          items |-> <<>>, qnum |-> 0]

InitConfig == [wait |-> InitWait, args |-> NoArgs]
Init == /\ queues = [s \in Slots |-> Empty]
        /\ num_queues = 0
        /\ config = [t \in Tracees |-> InitConfig]
        /\ life = [t \in Tracees |-> "running"]
        /\ sent = 0 /\ log = <<>> /\ removed = {} /\ failed = "none"

-----------------------------------------------------------------------------
(* The tracees list, newest first.  SYSVIPC_FOREACH_TRACEE still meets a    *)
(* tracee that was killed as long as it is not freed.                       *)
InList == {t \in Tracees : life[t] # "freed"}
FirstInList(S) == CHOOSE t \in S : \A u \in S : u <= t

Ready(t) == failed = "none" /\ life[t] = "running" /\ InUserCode(config[t].wait)

(* LOOKUP_IPC_OBJECT: an id is a slot and the generation it was made in.    *)
LookupOk(id) == /\ id[1] <= num_queues
                /\ queues[id[1]].valid
                /\ queues[id[1]].generation = id[2]
Ids == {<<s, g>> : s \in Slots, g \in 0 .. MaxRemovals}

(* The msgrcv arguments, the slot and the status of a call that does not    *)
(* wait are never read again but to be returned: forgetting them only       *)
(* merges equivalent states.                                                *)
Tidy(c) == IF c.wait.wait_state \in {"NOT_WAITING", "ENTERED_GETPID"}
           THEN [wait |-> [c.wait EXCEPT !.status_after_wait = 0,
                                         !.waiting_object_index = 0],
                 args |-> NoArgs]
           ELSE c

(* sysvipc_syscall_common for a handler that changes nothing but its own    *)
(* tracee: new record c, status st.                                         *)
Answer(t, c, st) ==
  \E from_sigsys \in BOOLEAN :
    config' = [config EXCEPT ![t] =
                 Tidy([c EXCEPT !.wait = sysvipc_syscall_common(@, st, from_sigsys)])]

-----------------------------------------------------------------------------
Matching(key) == {s \in 1 .. num_queues :
                    queues[s].valid /\ key # IPC_PRIVATE /\ queues[s].key = key}
Unused == {s \in 1 .. num_queues : ~queues[s].valid}
Least(S) == CHOOSE s \in S : \A u \in S : s <= u

(* sysvipc_msgget; creating reuses the first free slot or grows the array.  *)
MsgGet(t, key, creat, excl) ==
  /\ Ready(t)
  /\ UNCHANGED <<life, sent, log, removed, failed>>
  /\ IF Matching(key) # {}
     THEN /\ UNCHANGED <<queues, num_queues>>
          /\ Answer(t, config[t], IF creat /\ excl THEN EEXIST ELSE Least(Matching(key)))
     ELSE IF ~creat
     THEN /\ UNCHANGED <<queues, num_queues>>
          /\ Answer(t, config[t], ENOENT)
     ELSE LET s == IF Unused # {} THEN Least(Unused) ELSE num_queues + 1 IN
          /\ s \in Slots
          /\ num_queues' = IF s > num_queues THEN s ELSE num_queues
          /\ queues' = [queues EXCEPT ![s] = [@ EXCEPT !.key = key, !.valid = TRUE,
                                                       !.items = <<>>, !.qnum = 0]]
          /\ Answer(t, config[t], s)

(* sysvipc_msg_match                                                        *)
sysvipc_msg_match(type, filter, flg) ==
  LET matched == \/ filter = 0
                 \/ type = filter
                 \/ filter < 0 /\ type <= -filter
  IN  matched # ("MSG_EXCEPT" \in flg)

WaitingOn(t, s) == /\ config[t].wait.wait_reason = "WR_WAIT_QUEUE_RECV"
                   /\ config[t].wait.waiting_object_index = s

(* Fault: receivers on their way into ppoll are not considered.            *)
ReceiversInPpoll(s, mtype) ==
  {r \in InList : /\ WaitingOn(r, s) /\ config[r].wait.wait_state = "ENTERED_PPOLL"
                  /\ sysvipc_msg_match(mtype, config[r].args.typ, config[r].args.flg)}

Receivers(s, mtype) ==
  {r \in InList : /\ WaitingOn(r, s)
                  /\ sysvipc_msg_match(mtype, config[r].args.typ, config[r].args.flg)}

(* sysvipc_msgsnd: one matching receiver is woken to retry, then the        *)
(* message is appended.                                                     *)
MsgSnd(t, id, m) ==
  /\ Ready(t)
  /\ LookupOk(id)
  /\ sent < MaxSends
  /\ LET s == id[1]
         woken == Receivers(s, m.mtype)
         r == FirstInList(woken)
         item == [id |-> sent + 1, mtype |-> m.mtype, len |-> m.len,
                  announced |-> woken # {}]
     IN
     /\ sent' = sent + 1
     /\ queues' = [queues EXCEPT ![s].items = Append(@, item), ![s].qnum = @ + 1]
     /\ \E from_sigsys \in BOOLEAN :
          config' = [u \in Tracees |->
            IF u = t
            THEN [config[u] EXCEPT !.wait = sysvipc_syscall_common(@, 0, from_sigsys)]
            ELSE IF woken # {} /\ u = r
            THEN [config[u] EXCEPT !.wait = [sysvipc_wake_tracee(@, EAGAIN)
                                               EXCEPT !.chain_state = "MSGRCV_RETRY"]]
            ELSE config[u]]
     /\ failed' = IF woken # {} /\ ~CanWake(config[r].wait) THEN "wake" ELSE "none"
     /\ UNCHANGED <<num_queues, life, log, removed>>

(* sysvipc_msgsnd's early returns: EINVAL for a stale or unknown id, EFAULT *)
(* for an unreadable message.  Nothing is queued.                           *)
MsgSndRefused(t, id) ==
  /\ Ready(t)
  /\ \/ ~LookupOk(id) /\ Answer(t, config[t], EINVAL)
     \/ LookupOk(id) /\ Answer(t, config[t], EFAULT)
  /\ UNCHANGED <<queues, num_queues, life, sent, log, removed, failed>>

-----------------------------------------------------------------------------
(* sysvipc_do_msgrcv, for arguments a on the items of a queue.              *)
BadRcvArgs(a) == \/ a.sz < 0
                 \/ "OTHER" \in a.flg
                 \/ "MSG_COPY" \in a.flg /\ ("IPC_NOWAIT" \notin a.flg \/ "MSG_EXCEPT" \in a.flg)

Candidates(a, items) ==
  IF "MSG_COPY" \in a.flg
  THEN {i \in DOMAIN items : i = a.typ + 1}
  ELSE {i \in DOMAIN items : sysvipc_msg_match(items[i].mtype, a.typ, a.flg)}

(* sysvipc_msg_deliver                                                      *)
sysvipc_msg_deliver(a, item) ==
  IF item.len > a.sz /\ "MSG_NOERROR" \notin a.flg THEN E2BIG
  ELSE IF ~a.buf_ok THEN EFAULT
  ELSE IF item.len > a.sz THEN a.sz ELSE item.len

Without(items, i) ==
  [j \in 1 .. Len(items) - 1 |-> IF j < i THEN items[j] ELSE items[j + 1]]

(* What do_msgrcv leaves behind: its status, whether it asks to wait, and   *)
(* the position it consumed (0: none).                                      *)
sysvipc_do_msgrcv(a, items) ==
  IF BadRcvArgs(a) THEN [status |-> EINVAL, waits |-> FALSE, took |-> 0]
  ELSE IF Candidates(a, items) = {}
  THEN [status |-> IF "IPC_NOWAIT" \in a.flg THEN ENOMSG ELSE 0,
        waits |-> "IPC_NOWAIT" \notin a.flg, took |-> 0]
  ELSE LET i == Least(Candidates(a, items))
           st == sysvipc_msg_deliver(a, items[i])
       IN [status |-> st, waits |-> FALSE,
           took |-> IF st >= 0 /\ "MSG_COPY" \notin a.flg THEN i ELSE 0]

(* Fault: msg_qnum is not updated.                                         *)
ConsumeUncounted(s, r) ==
  IF r.took = 0
  THEN UNCHANGED <<queues, log>>
  ELSE /\ queues' = [queues EXCEPT ![s].items = Without(@, r.took)]
       /\ log' = Append(log, [item |-> queues[s].items[r.took],
                              slot |-> s, generation |-> queues[s].generation])

(* The queue's side of do_msgrcv.                                           *)
Consume(s, r) ==
  IF r.took = 0
  THEN UNCHANGED <<queues, log>>
  ELSE /\ queues' = [queues EXCEPT ![s].items = Without(@, r.took), ![s].qnum = @ - 1]
       /\ log' = Append(log, [item |-> queues[s].items[r.took],
                              slot |-> s, generation |-> queues[s].generation])

(* Fault: the 1-based id is recorded instead of the index.                 *)
StartWaitOnId(c, s) == [c EXCEPT !.wait.wait_reason = "WR_WAIT_QUEUE_RECV",
                                 !.wait.waiting_object_index = s + 1]

(* The receiver is to wait for slot s.                                      *)
StartWait(c, s) == [c EXCEPT !.wait.wait_reason = "WR_WAIT_QUEUE_RECV",
                             !.wait.waiting_object_index = s]

(* sysvipc_msgrcv                                                           *)
MsgRcv(t, id, a) ==
  /\ Ready(t)
  /\ IF ~LookupOk(id)
     THEN Answer(t, config[t], EINVAL) /\ UNCHANGED <<queues, log>>
     ELSE LET r == sysvipc_do_msgrcv(a, queues[id[1]].items)
              c == [config[t] EXCEPT !.args = a]
          IN /\ Consume(id[1], r)
             /\ Answer(t, IF r.waits THEN StartWait(c, id[1]) ELSE c, r.status)
  /\ UNCHANGED <<num_queues, life, sent, removed, failed>>

(* sysvipc_msgctl(IPC_RMID): every waiter is woken with EIDRM, the slot     *)
(* becomes free for the next msgget and its generation moves on (the rest   *)
(* of a free slot is never read).                                           *)
MsgRmid(t, id) ==
  /\ Ready(t)
  /\ LookupOk(id)
  /\ id[2] < MaxRemovals
  /\ LET s == id[1]
         W == {r \in InList : WaitingOn(r, s)}
     IN
     /\ queues' = [queues EXCEPT ![s] = [Empty EXCEPT !.generation = queues[s].generation + 1]]
     /\ removed' = removed \cup {queues[s].items[i].id : i \in DOMAIN queues[s].items}
     /\ \E from_sigsys \in BOOLEAN :
          config' = [u \in Tracees |->
               IF u \in W THEN [config[u] EXCEPT !.wait = sysvipc_wake_tracee(@, EIDRM)]
               ELSE IF u = t
               THEN [config[u] EXCEPT !.wait = sysvipc_syscall_common(@, 0, from_sigsys)]
               ELSE config[u]]
     /\ failed' = IF \A r \in W : CanWake(config[r].wait) THEN "none" ELSE "wake"
     /\ UNCHANGED <<num_queues, life, sent, log>>

(* The other outcomes of sysvipc_msgctl: EINVAL for a stale id or an        *)
(* unknown command, IPC_STAT with a good or a bad buffer.                   *)
MsgCtlOther(t, id) ==
  /\ Ready(t)
  /\ \E st \in IF LookupOk(id) THEN {0, EINVAL, EFAULT} ELSE {EINVAL} :
       Answer(t, config[t], st)
  /\ UNCHANGED <<queues, num_queues, life, sent, log, removed, failed>>

-----------------------------------------------------------------------------
(* The kernel's half: when a parked tracee moves, and what PRoot does then. *)

(* The ppoll re-executed after a SIGSYS reaches its sysenter stop.          *)
ReenterPpoll(t) ==
  /\ failed = "none" /\ life[t] = "running"
  /\ config[t].wait.wait_state = "RESTARTED_INTO_PPOLL"
  /\ config' = [config EXCEPT ![t].wait = EnterPpoll(@)]
  /\ UNCHANGED <<queues, num_queues, life, sent, log, removed, failed>>

(* ppoll returns although nobody woke the tracee: a signal, or the timeout. *)
PpollInterrupted(t) ==
  /\ failed = "none" /\ life[t] = "running"
  /\ config[t].wait.wait_state = "ENTERED_PPOLL"
  /\ config' = [config EXCEPT ![t] =
                              Tidy([config[t] EXCEPT !.wait = AbandonWait(@)])]
  /\ failed' = IF config[t].wait.wait_reason = "WR_NOT_WAITING" THEN "ppoll_exit" ELSE "none"
  /\ UNCHANGED <<queues, num_queues, life, sent, log, removed>>

(* The parked call ends after the wait was over: SYSCALL_EXIT_START in      *)
(* SIGNALED_PPOLL or ENTERED_GETPID, or SYSCALL_ENTER_START of a cancelled  *)
(* ppoll.  A receiver that msgsnd woke runs sysvipc_msgrcv_retry here.      *)
ParkedCallEnds(t) ==
  LET c == config[t] w == c.wait s == w.waiting_object_index
      retry == w.chain_state = "MSGRCV_RETRY" /\ w.status_after_wait = EAGAIN
      r == sysvipc_do_msgrcv(c.args, queues[s].items)
      unchained == [w EXCEPT !.chain_state = IF @ = "MSGRCV_RETRY" THEN "NOT_CHAINED" ELSE @]
      over == [c EXCEPT !.wait = EndWait(unchained)]
  IN
  /\ failed = "none" /\ life[t] = "running"
  /\ w.wait_state \in {"RESTARTED_INTO_PPOLL_CANCELED", "SIGNALED_PPOLL", "ENTERED_GETPID"}
  /\ config' = [config EXCEPT ![t] = Tidy(over)]
  /\ failed' = IF w.wait_reason # "WR_NOT_WAITING" THEN "exit_wait_reason"
               ELSE IF retry /\ ~queues[s].valid THEN "queue_valid"
               ELSE "none"
  /\ IF retry /\ queues[s].valid
     THEN Consume(s, r)
     ELSE UNCHANGED <<queues, log>>
  /\ UNCHANGED <<num_queues, life, sent, removed>>

(* SIGKILL takes effect in the kernel; PRoot learns of it later.            *)
Kill(t) ==
  /\ life[t] = "running"
  /\ Cardinality({u \in Tracees : life[u] # "running"}) < MaxKills
  /\ life' = [life EXCEPT ![t] = "killed"]
  /\ UNCHANGED <<queues, num_queues, config, sent, log, removed, failed>>

(* PRoot handles the exit event: the tracee leaves the list.                *)
Reap(t) ==
  /\ failed = "none" /\ life[t] = "killed"
  /\ life' = [life EXCEPT ![t] = "freed"]
  /\ config' = [config EXCEPT ![t] = InitConfig]
  /\ UNCHANGED <<queues, num_queues, sent, log, removed, failed>>

Get(t)  == \E key \in Keys, creat \in BOOLEAN, excl \in BOOLEAN :
             MsgGet(t, key, creat, excl)
Send(t) == \E id \in Ids, m \in Messages : MsgSnd(t, id, m)
Recv(t) == \E id \in Ids, a \in RcvArgs : MsgRcv(t, id, a)
Next == \E t \in Tracees :
          \/ Get(t) \/ Send(t) \/ Recv(t)
          \/ \E id \in Ids : MsgSndRefused(t, id) \/ MsgRmid(t, id) \/ MsgCtlOther(t, id)
          \/ ReenterPpoll(t) \/ PpollInterrupted(t) \/ ParkedCallEnds(t)
          \/ Kill(t) \/ Reap(t)

Spec == Init /\ [][Next]_vars

-----------------------------------------------------------------------------
QueueType == [key : Keys \cup {IPC_PRIVATE}, generation : Nat, valid : BOOLEAN,
              items : Seq(Item), qnum : Int]
WaitType == [wait_reason : {"WR_NOT_WAITING", "WR_WAIT_QUEUE_RECV"},
             wait_state : WaitStates,
             chain_state : {"NOT_CHAINED", "MSGRCV_RETRY"},
             status_after_wait : Int,
             waiting_object_index : Slots \cup {0}]

(* Every variable keeps its type; in particular a wait never records a slot *)
(* outside ipc_namespace->queues.                                           *)
TypeOK ==
  /\ queues \in [Slots -> QueueType]
  /\ num_queues \in 0 .. MaxQueues
  /\ config \in [Tracees -> [wait : WaitType, args : RcvArgs \cup {NoArgs}]]
  /\ life \in [Tracees -> {"running", "killed", "freed"}]
  /\ sent \in Nat
  /\ log \in Seq([item : Item, slot : Slots, generation : Nat])
  /\ removed \subseteq Nat
  /\ failed \in {"none", "wake", "ppoll_exit", "exit_wait_reason", "queue_valid"}

(* Whatever order sends, removals, signals, timeouts and deaths come in, a  *)
(* tracee has a reason to wait exactly while it is parked in a ppoll that   *)
(* nobody ended, and only a receiver whose wait is over is to retry.        *)
WaitsCoherent ==
  \A t \in Tracees :
    /\ WaitCoherent(config[t].wait)
    /\ config[t].wait.chain_state = "MSGRCV_RETRY" =>
         /\ config[t].wait.wait_state \in {"RESTARTED_INTO_PPOLL_CANCELED", "SIGNALED_PPOLL"}
         /\ config[t].wait.status_after_wait = EAGAIN
         /\ config[t].wait.waiting_object_index \in 1 .. num_queues

(* The assertions of sysvipc_wake_tracee and of SYSCALL_EXIT_START never    *)
(* stop PRoot: nobody wakes a tracee twice, and no exit finds a reason to   *)
(* wait that a waker should have cleared.                                   *)
WaitAssertsHold == failed \notin {"wake", "ppoll_exit", "exit_wait_reason"}

(* assert(queue->valid) of sysvipc_msgrcv_retry: the queue a receiver was   *)
(* woken for still exists when it retries.                                  *)
RetryQueueValid == failed # "queue_valid"

(* A message is queued, handed out or removed with its queue, and only one  *)
(* of these, once.                                                          *)
ExactlyOnce ==
  \A n \in 1 .. sent :
    LET queued == {p \in Slots \X (1 .. MaxSends) :
                     /\ p[2] \in DOMAIN queues[p[1]].items
                     /\ queues[p[1]].items[p[2]].id = n}
        handed == {k \in DOMAIN log : log[k].item.id = n}
    IN  Cardinality(queued) + Cardinality(handed)
          + Cardinality(removed \cap {n}) = 1

(* Messages of one type leave one queue in the order they were sent, direct *)
(* receives and retries together.                                           *)
FifoPerType ==
  \A i, j \in DOMAIN log :
    ( /\ i < j
      /\ log[i].item.mtype = log[j].item.mtype
      /\ log[i].slot = log[j].slot /\ log[i].generation = log[j].generation )
    => log[i].item.id < log[j].item.id

(* msg_qnum, which IPC_STAT reports, counts the queued messages.            *)
StatsAgree == \A s \in Slots : queues[s].valid => queues[s].qnum = Len(queues[s].items)

(* A receiver sleeps next to a message it could take only if msgsnd woke    *)
(* another receiver for that message: no wakeup is skipped between the      *)
(* check of the queue and the sleep.                                        *)
SleepersWereConsidered ==
  \A s \in Slots, t \in InList :
    WaitingOn(t, s) =>
      \A i \in DOMAIN queues[s].items :
        sysvipc_msg_match(queues[s].items[i].mtype, config[t].args.typ, config[t].args.flg)
          => queues[s].items[i].announced

(* Delivery: whatever the interleaving of sends, sleeps, retries, signals   *)
(* and removals, nothing is lost, doubled, reordered or overlooked.         *)
Delivered == ExactlyOnce /\ FifoPerType /\ SleepersWereConsidered
=============================================================================
