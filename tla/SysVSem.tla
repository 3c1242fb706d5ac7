------------------------------ MODULE SysVSem ------------------------------
(***************************************************************************)
(* The System V semaphores PRoot emulates (extension/sysvipc/              *)
(* sysvipc_sem.c), over the wait mechanism of SysVIpc.                     *)
(*                                                                         *)
(* A blocked semop is executed by whoever makes it possible: semop tries   *)
(* its own operations, then walks the tracees list once and executes every *)
(* waiting semop that has become possible, waking its caller.              *)
(***************************************************************************)
EXTENDS SysVIpc, FiniteSets, Sequences

CONSTANTS NumTracees,   \* the tracees are numbered in order of creation
          Keys,         \* the keys in use; IPC_PRIVATE may be one
          Sops,         \* the semop arguments in use: sequences of
                        \*   [num, op, nowait], num counted from 1
          SetVals,      \* the values SETVAL may write
          SetSizes,     \* the sizes semget may be asked for
          MaxSets,      \* SYSVIPC_MAX_SEMS, slots of ipc_namespace->semaphores
          MaxVal,       \* SYSVIPC_MAX_SEMVAL
          MaxRemovals,  \* bound: IPC_RMIDs of one slot
          MaxKills      \* bound: tracees killed in a behaviour

Sembuf == [num : Nat \ {0}, op : Int, nowait : BOOLEAN]

ASSUME SemAssumption == /\ NumTracees \in Nat
                        /\ Sops \subseteq Seq(Sembuf) /\ SetVals \subseteq Nat
                        /\ MaxVal \in Nat /\ IsFiniteSet(SetSizes)
                        /\ SetSizes \subseteq Nat \ {0}
                        /\ MaxSets \in Nat /\ MaxRemovals \in Nat /\ MaxKills \in Nat

Tracees == 1 .. NumTracees
Slots == 1 .. MaxSets
MaxSize == CHOOSE n \in SetSizes : \A m \in SetSizes : m <= n
IPC_PRIVATE == "IPC_PRIVATE"

VARIABLES sets,     \* ipc_namespace->semaphores
          num_sets, \* talloc_array_length(semaphores)
          config,   \* per tracee: wait, semop_sops, and the history field
                    \* effect (what its semop added to the set when executed)
          life,     \* "running", "killed" (PRoot has not seen it), "freed"
          told,     \* history: per slot, the sum of what callers were told
                    \* was done, and of what SETVAL wrote
          excused,  \* history: per slot, was SETVAL used while callers waited,
                    \* or did a semop wait that does not only take?
          failed    \* the assertion that stopped PRoot, if any

vars == <<sets, num_sets, config, life, told, excused, failed>>

Empty == [key |-> IPC_PRIVATE, generation |-> 0, valid |-> FALSE, sems |-> <<>>]
InitConfig == [wait |-> InitWait, sops |-> <<>>, effect |-> 0]

Init == /\ sets = [s \in Slots |-> Empty]
        /\ num_sets = 0
        /\ config = [t \in Tracees |-> InitConfig]
        /\ life = [t \in Tracees |-> "running"]
        /\ told = [s \in Slots |-> 0]
        /\ excused = [s \in Slots |-> FALSE]
        /\ failed = "none"

-----------------------------------------------------------------------------
InList == {t \in Tracees : life[t] # "freed"}
(* Fault: the walk stops one tracee early.                                 *)
TraceeListButOldest == [i \in 1 .. NumTracees - 1 |-> NumTracees + 1 - i]
(* The tracees list: a new tracee is inserted at its head.                 *)
TraceeList == [i \in 1 .. NumTracees |-> NumTracees + 1 - i]
Ready(t) == failed = "none" /\ life[t] = "running" /\ InUserCode(config[t].wait)

Ids == {<<s, g>> : s \in Slots, g \in 0 .. MaxRemovals}
LookupOk(id) == /\ id[1] <= num_sets
                /\ sets[id[1]].valid
                /\ sets[id[1]].generation = id[2]

(* What a call that is over leaves in the record is never read again.       *)
Tidy(c) == IF \/ c.wait.wait_state = "NOT_WAITING"
              \/ c.wait.wait_state = "ENTERED_GETPID" /\ c.effect = 0
           THEN [wait |-> [c.wait EXCEPT !.status_after_wait = 0,
                                         !.waiting_object_index = 0],
                 sops |-> <<>>, effect |-> 0]
           ELSE c

Answer(t, c, st) ==
  \E from_sigsys \in BOOLEAN :
    config' = [config EXCEPT ![t] =
                 Tidy([c EXCEPT !.wait = sysvipc_syscall_common(@, st, from_sigsys)])]

(* f[1] + ... + f[n]                                                        *)
Sum(f, n) ==
  LET upto[i \in 0 .. n] == IF i = 0 THEN 0 ELSE upto[i - 1] + f[i] IN upto[n]
Total(sems) == Sum(sems, Len(sems))
Effect(sops) == Sum([i \in 1 .. Len(sops) |-> sops[i].op], Len(sops))

-----------------------------------------------------------------------------
Matching(key) == {s \in 1 .. num_sets :
                    sets[s].valid /\ key # IPC_PRIVATE /\ sets[s].key = key}
Unused == {s \in 1 .. num_sets : ~sets[s].valid}
Least(S) == CHOOSE s \in S : \A u \in S : s <= u

(* sysvipc_semget                                                           *)
SemGet(t, key, nsems, creat, excl) ==
  /\ Ready(t)
  /\ UNCHANGED <<life, failed>>
  /\ IF Matching(key) # {}
     THEN LET s == Least(Matching(key)) IN
          /\ Answer(t, config[t],
                    IF creat /\ excl THEN EEXIST
                    ELSE IF Len(sets[s].sems) < nsems THEN EINVAL ELSE s)
          /\ UNCHANGED <<sets, num_sets, told, excused>>
     ELSE IF ~creat \/ (Unused = {} /\ num_sets >= MaxSets)
     THEN /\ Answer(t, config[t], ENOENT)
          /\ UNCHANGED <<sets, num_sets, told, excused>>
     ELSE LET s == IF Unused # {} THEN Least(Unused) ELSE num_sets + 1 IN
          /\ num_sets' = IF s > num_sets THEN s ELSE num_sets
          /\ sets' = [sets EXCEPT ![s] = [@ EXCEPT !.key = key, !.valid = TRUE,
                                                   !.sems = [i \in 1 .. nsems |-> 0]]]
          /\ told' = [told EXCEPT ![s] = 0]
          /\ excused' = [excused EXCEPT ![s] = FALSE]
          /\ Answer(t, config[t], s)

(* sysvipc_sem_check: the operations on a copy of the set, all or none.     *)
(* status 1 means that the caller must wait.                                *)
ApplyOp(acc, o) ==
  LET v == acc.sems[o.num] + o.op IN
  IF acc.status # 0 THEN acc
  ELSE IF (o.op = 0 /\ acc.sems[o.num] # 0) \/ (o.op # 0 /\ v < 0)
  THEN [acc EXCEPT !.status = IF o.nowait THEN EAGAIN ELSE 1]
  ELSE IF o.op # 0 /\ v > MaxVal THEN [acc EXCEPT !.status = ERANGE]
  ELSE [acc EXCEPT !.sems[o.num] = v]

RunOps(sops, sems) ==
  LET done[i \in 0 .. Len(sops)] ==
        IF i = 0 THEN [status |-> 0, sems |-> sems] ELSE ApplyOp(done[i - 1], sops[i])
  IN  done[Len(sops)]

(* Fault: the operations before the one that blocks stay done.             *)
CheckInPlace(sops, sems) == RunOps(sops, sems)

sysvipc_sem_check(sops, sems) ==
  LET r == RunOps(sops, sems)
  IN  IF r.status = 0 THEN r ELSE [r EXCEPT !.sems = sems]

WaitingOn(t, s) == /\ config[t].wait.wait_reason = "WR_WAIT_SEMOP"
                   /\ config[t].wait.waiting_object_index = s

OnlyTakes(sops) == \A i \in DOMAIN sops : sops[i].op < 0
Sleepers(s) == {t \in InList : WaitingOn(t, s)}

(* The record of a waiting tracee whose operations ended with status st.    *)
Woken(c, st) == [wait |-> sysvipc_wake_tracee(c.wait, st), sops |-> <<>>,
                 effect |-> IF st = 0 THEN Effect(c.sops) ELSE 0]

(* The loop of sysvipc_semop over the other tracees: one pass, in list      *)
(* order, each waiter tried on the values the ones before it left.          *)
Visit(t, s, acc, u) ==
  LET r == sysvipc_sem_check(config[u].sops, acc.sems) IN
  IF u = t \/ u \notin Sleepers(s) THEN acc
  ELSE IF r.status = 1 THEN acc
  ELSE [sems |-> r.sems,
        config |-> [acc.config EXCEPT ![u] = Woken(config[u], r.status)],
        failed |-> IF CanWake(config[u].wait) THEN acc.failed ELSE "wake"]

WakeWaiters(t, s, sems) ==
  LET done[i \in 0 .. Len(TraceeList)] ==
        IF i = 0 THEN [sems |-> sems, config |-> config, failed |-> "none"]
        ELSE Visit(t, s, done[i - 1], TraceeList[i])
  IN  done[Len(TraceeList)]

(* The caller's record when its own operations are to wait.                 *)
StartWait(c, s, sops) ==
  [c EXCEPT !.wait.wait_reason = "WR_WAIT_SEMOP",
            !.wait.waiting_object_index = s, !.sops = sops]

(* sysvipc_semop                                                            *)
SemOp(t, id, sops) ==
  /\ Ready(t)
  /\ LookupOk(id)
  /\ \A i \in DOMAIN sops : sops[i].num <= Len(sets[id[1]].sems)
  /\ LET s == id[1]
         mine == sysvipc_sem_check(sops, sets[s].sems)
         all == WakeWaiters(t, s, mine.sems)
     IN
     /\ sets' = [sets EXCEPT ![s].sems = all.sems]
     /\ failed' = all.failed
     /\ excused' = [excused EXCEPT ![s] = @ \/ (mine.status = 1 /\ ~OnlyTakes(sops))]
     /\ \E from_sigsys \in BOOLEAN :
          LET c == IF mine.status = 1 THEN StartWait(all.config[t], s, sops)
                   ELSE [all.config[t] EXCEPT !.effect =
                           IF mine.status = 0 THEN Effect(sops) ELSE 0,
                         !.wait.waiting_object_index = s]
              w == sysvipc_syscall_common(c.wait, IF mine.status = 1 THEN 0 ELSE mine.status,
                                          from_sigsys)
          IN  /\ config' = [all.config EXCEPT ![t] = Tidy([c EXCEPT !.wait = w])]
              /\ told' = IF w.wait_state = "NOT_WAITING"
                           THEN [told EXCEPT ![s] = @ + c.effect] ELSE told
     /\ UNCHANGED <<num_sets, life>>

(* sysvipc_semop's early returns: stale id, no or too many operations,      *)
(* unreadable operations, a semaphore number out of range.                  *)
SemOpRefused(t) ==
  /\ Ready(t)
  /\ Answer(t, config[t], EINVAL)
  /\ UNCHANGED <<sets, num_sets, life, told, excused, failed>>

(* sysvipc_semctl(SETVAL)                                                   *)
SemSetVal(t, id, num, val) ==
  /\ Ready(t)
  /\ LookupOk(id)
  /\ IF val > MaxVal \/ num > Len(sets[id[1]].sems)
     THEN /\ Answer(t, config[t], ERANGE)
          /\ UNCHANGED <<sets, told, excused>>
     ELSE /\ Answer(t, config[t], 0)
          /\ sets' = [sets EXCEPT ![id[1]].sems[num] = val]
          /\ told' = [told EXCEPT ![id[1]] = @ + val - sets[id[1]].sems[num]]
          /\ excused' = [excused EXCEPT ![id[1]] = @ \/ Sleepers(id[1]) # {}]
  /\ UNCHANGED <<num_sets, life, failed>>

(* sysvipc_semctl(IPC_RMID)                                                 *)
SemRmid(t, id) ==
  /\ Ready(t)
  /\ LookupOk(id)
  /\ id[2] < MaxRemovals
  /\ LET s == id[1]
         W == {u \in InList : WaitingOn(u, s)}
     IN
     /\ sets' = [sets EXCEPT ![s] = [Empty EXCEPT !.generation = sets[s].generation + 1]]
     /\ told' = [told EXCEPT ![s] = 0]
     /\ excused' = [excused EXCEPT ![s] = FALSE]
     /\ \E from_sigsys \in BOOLEAN :
          config' = [u \in Tracees |->
            IF u \in W THEN [config[u] EXCEPT !.wait = sysvipc_wake_tracee(@, EIDRM)]
            ELSE IF u = t
            THEN Tidy([config[u] EXCEPT !.wait = sysvipc_syscall_common(@, 0, from_sigsys)])
            ELSE IF config[u].wait.waiting_object_index = s
            THEN [config[u] EXCEPT !.effect = 0]  \* the history ends with the set
            ELSE config[u]]
     /\ failed' = IF \A u \in W : CanWake(config[u].wait) THEN "none" ELSE "wake"
     /\ UNCHANGED <<num_sets, life>>

(* The commands of sysvipc_semctl that only read (GETVAL, GETALL, IPC_INFO, *)
(* SEM_INFO), a stale id and an unknown command.                            *)
SemCtlOther(t) ==
  /\ Ready(t)
  /\ \E st \in {0, EINVAL} : Answer(t, config[t], st)
  /\ UNCHANGED <<sets, num_sets, life, told, excused, failed>>

-----------------------------------------------------------------------------
(* The kernel's half, as in SysVMsg.                                        *)
ReenterPpoll(t) ==
  /\ failed = "none" /\ life[t] = "running"
  /\ config[t].wait.wait_state = "RESTARTED_INTO_PPOLL"
  /\ config' = [config EXCEPT ![t].wait = EnterPpoll(@)]
  /\ UNCHANGED <<sets, num_sets, life, told, excused, failed>>

(* A signal or the timeout of semtimedop (sysvipc_semop_timedout).          *)
PpollInterrupted(t) ==
  /\ failed = "none" /\ life[t] = "running"
  /\ config[t].wait.wait_state = "ENTERED_PPOLL"
  /\ config' = [config EXCEPT ![t] =
                  Tidy([config[t] EXCEPT !.wait = AbandonWait(@), !.sops = <<>>])]
  /\ failed' = IF config[t].wait.wait_reason = "WR_NOT_WAITING" THEN "ppoll_exit" ELSE "none"
  /\ UNCHANGED <<sets, num_sets, life, told, excused>>

ParkedCallEnds(t) ==
  LET w == config[t].wait s == w.waiting_object_index IN
  /\ failed = "none" /\ life[t] = "running"
  /\ w.wait_state \in {"RESTARTED_INTO_PPOLL_CANCELED", "SIGNALED_PPOLL", "ENTERED_GETPID"}
  /\ config' = [config EXCEPT ![t] = Tidy([config[t] EXCEPT !.wait = EndWait(@)])]
  /\ told' = IF w.status_after_wait = 0 /\ s \in Slots
               THEN [told EXCEPT ![s] = @ + config[t].effect] ELSE told
  /\ failed' = IF w.wait_reason # "WR_NOT_WAITING" THEN "exit_wait_reason" ELSE "none"
  /\ UNCHANGED <<sets, num_sets, life, excused>>

Kill(t) ==
  /\ life[t] = "running"
  /\ Cardinality({u \in Tracees : life[u] # "running"}) < MaxKills
  /\ life' = [life EXCEPT ![t] = "killed"]
  /\ UNCHANGED <<sets, num_sets, config, told, excused, failed>>

(* The exit event; what its executed semop did stays done.                  *)
Reap(t) ==
  LET s == config[t].wait.waiting_object_index IN
  /\ failed = "none" /\ life[t] = "killed"
  /\ life' = [life EXCEPT ![t] = "freed"]
  /\ told' = IF s \in Slots THEN [told EXCEPT ![s] = @ + config[t].effect] ELSE told
  /\ config' = [config EXCEPT ![t] = InitConfig]
  /\ UNCHANGED <<sets, num_sets, excused, failed>>

Get(t) == \E key \in Keys, n \in SetSizes, creat \in BOOLEAN, excl \in BOOLEAN :
            SemGet(t, key, n, creat, excl)
Next == \E t \in Tracees :
          \/ Get(t)
          \/ \E id \in Ids, sops \in Sops : SemOp(t, id, sops)
          \/ \E id \in Ids, num \in 1 .. MaxSize, val \in SetVals : SemSetVal(t, id, num, val)
          \/ \E id \in Ids : SemRmid(t, id)
          \/ SemOpRefused(t) \/ SemCtlOther(t)
          \/ ReenterPpoll(t) \/ PpollInterrupted(t) \/ ParkedCallEnds(t)
          \/ Kill(t) \/ Reap(t)

Spec == Init /\ [][Next]_vars

-----------------------------------------------------------------------------
(* What tracee c's executed semop added to set s and was not reported yet.  *)
Share(c, s) == IF c.wait.waiting_object_index = s THEN c.effect ELSE 0

(* What happened to a set is exactly what callers were told (or will be,    *)
(* or died before hearing): a semop whose caller gets EINTR, EAGAIN or      *)
(* EIDRM has done nothing, one that returns 0 has done everything, even     *)
(* when another tracee executed it.                                         *)
EffectIffToldSo ==
  \A s \in Slots : sets[s].valid =>
    Total(sets[s].sems) = told[s] + Sum([t \in Tracees |-> Share(config[t], s)], NumTracees)

(* A sleeping tracee is one whose operations cannot be executed now.        *)
SleepersBlocked ==
  \A s \in Slots : \A t \in Sleepers(s) :
    sysvipc_sem_check(config[t].sops, sets[s].sems).status = 1

(* Semaphore values stay between 0 and SYSVIPC_MAX_SEMVAL (they live in a   *)
(* uint16_t), a tracee has a reason to wait exactly while it is parked in a *)
(* ppoll that nobody ended, and the assertions of sysvipc_wake_tracee and   *)
(* SYSCALL_EXIT_START hold.                                                 *)
ValuesAndWaitsOk ==
  /\ \A s \in Slots : \A i \in DOMAIN sets[s].sems : sets[s].sems[i] \in 0 .. MaxVal
  /\ \A t \in Tracees : WaitCoherent(config[t].wait)
  /\ failed = "none"

(* Besides, when every waiter of a set only takes and SETVAL stays out of   *)
(* it, the single pass of sysvipc_semop is enough: no tracee sleeps whose   *)
(* operations could be executed.                                            *)
TakersServed ==
  /\ ValuesAndWaitsOk
  /\ \A s \in Slots : ~excused[s] => \A t \in Sleepers(s) :
       sysvipc_sem_check(config[t].sops, sets[s].sems).status # 0
=============================================================================
