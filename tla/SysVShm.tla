------------------------------ MODULE SysVShm ------------------------------
(***************************************************************************)
(* The System V shared memory PRoot emulates (extension/sysvipc/           *)
(* sysvipc_shm.c), without its libandroid-shmem mode.                      *)
(*                                                                         *)
(* The memory of a segment is a file descriptor of a helper process.  To   *)
(* attach it PRoot makes the tracee run a chain of syscalls: socket,       *)
(* connect to the helper, recvmsg the descriptor, mmap it.  PRoot tells    *)
(* the helper which descriptor to send when it sees the exit of connect,   *)
(* and the helper sends it to the next connection it accepts: nothing but  *)
(* the order of events ties the two together.  Meanwhile other tracees     *)
(* attach, detach, fork, execve, remove segments, get signals and die.     *)
(*                                                                         *)
(* Calls that are refused or only read (IPC_STAT, shmget of an existing    *)
(* key) change nothing here and are left out; so are the closes that end a *)
(* chain, and the getpid a call is answered through (see SysVMsg).         *)
(***************************************************************************)
EXTENDS SysVIpc, FiniteSets, Sequences

CONSTANTS Tracees,      \* the tracees, numbered in order of creation
          Procs,        \* the thread groups
          ProcOf,       \* the thread group of each tracee
          Newborn,      \* the tracees that exist only once forked
          Attachers,    \* bound: the tracees that call shmat
          MaxShms,      \* bound: slots of ipc_namespace->shms
          MaxRemovals,  \* bound: removals of one slot
          MaxMaps,      \* bound: mappings of one segment in one process
          MaxKills      \* bound: tracees killed in a behaviour

ASSUME ShmAssumption == /\ Tracees \subseteq Nat /\ IsFiniteSet(Tracees)
                        /\ ProcOf \in [Tracees -> Procs] /\ Newborn \subseteq Tracees
                        /\ MaxShms \in Nat /\ MaxRemovals \in Nat
                        /\ MaxMaps \in Nat /\ MaxKills \in Nat
(* fork gives the child a process of its own.                               *)
ASSUME ForkAssumption ==
  \A u \in Newborn, t \in Tracees : ProcOf[u] = ProcOf[t] => u = t

Slots == 1 .. MaxShms
NoFd == 0
Segment == Slots \X (0 .. MaxRemovals)   \* a slot and its generation
NoSegment == <<0, 0>>

VARIABLES shms,      \* ipc_namespace->shms: [valid, generation, rmid_pending, fd]
          maps,      \* per process and slot: mappings [pending, done]; a
                     \* pending one has size 0, its mmap is still to come
          config,    \* the wait and chain state of each tracee
          life,      \* "unborn", "running", "killed" (PRoot not told), "freed"
          call,      \* kernel: has the chained connect of t gone through?
          fds,       \* helper: descriptor -> segment it holds
          requests,  \* helper: requests in the pipe, oldest first
          backlog,   \* helper: connections to accept, [tracee, open]
          inbox,     \* the segment the helper sent to t, if any
          got,       \* history: the attaches <<asked, received>> that went wrong
          failed     \* the assertion that stopped PRoot, if any

vars == <<shms, maps, config, life, call, fds, requests, backlog, inbox, got, failed>>
helper == <<fds, requests, backlog, inbox>>

FreeShm == [valid |-> FALSE, generation |-> 0, rmid_pending |-> FALSE, fd |-> NoFd]
Fds == 1 .. MaxShms

Init == /\ shms = [s \in Slots |-> FreeShm]
        /\ maps = [p \in Procs |-> [s \in Slots |-> [pending |-> 0, done |-> 0]]]
        /\ config = [t \in Tracees |-> InitWait]
        /\ life = [t \in Tracees |-> IF t \in Newborn THEN "unborn" ELSE "running"]
        /\ call = [t \in Tracees |-> FALSE]
        /\ fds = [f \in Fds |-> NoSegment]
        /\ requests = <<>> /\ backlog = <<>>
        /\ inbox = [t \in Tracees |-> NoSegment]
        /\ got = {} /\ failed = "none"

-----------------------------------------------------------------------------
InList == {t \in Tracees : life[t] \in {"running", "killed"}}
FirstInList(S) == CHOOSE t \in S : \A u \in S : u <= t
Running(t) == failed = "none" /\ life[t] = "running"
Ready(t) == Running(t) /\ InUserCode(config[t])
LookupOk(id) == shms[id[1]].valid /\ shms[id[1]].generation = id[2]
Ids == Slots \X (0 .. MaxRemovals)

Chained == {"SHMAT_SOCKET", "SHMAT_CONNECT", "SHMAT_RECVMSG", "SHMAT_MMAP"}

(* The mappings a segment has in mp: LIST_EMPTY(shm->mappings) or not.      *)
Mapped(mp, s) == \E p \in Procs : mp[p][s].pending + mp[p][s].done > 0

(* sysvipc_do_rmid of the slots in S: the helper is told to close the       *)
(* descriptors (in any order), the slots become free.                       *)
sysvipc_do_rmid(sh, S) ==
  [s \in Slots |-> IF s \in S THEN [FreeShm EXCEPT !.generation = sh[s].generation + 1]
                   ELSE sh[s]]
FreeRequests(S) == [op |-> "FREE", fds |-> {shms[s].fd : s \in S}]

(* sysvipc_shm_memmap_destructor, for a step that leaves mappings mp: the   *)
(* segments to remove whose last mapping just went.                         *)
LastUnmapped(mp) == {s \in Slots : /\ shms[s].rmid_pending
                                   /\ Mapped(maps, s) /\ ~Mapped(mp, s)}
DropMaps(mp) ==
  LET R == LastUnmapped(mp) IN
  /\ maps' = mp
  /\ shms' = sysvipc_do_rmid(shms, R)
  /\ requests' = IF R = {} THEN requests ELSE Append(requests, FreeRequests(R))

(* sysvipc_shm_wake_pending_shmat: one tracee that waits for the helper is  *)
(* woken into the socket of its own chain.                                  *)
sysvipc_shm_wake_pending_shmat(c) ==
  LET W == {t \in InList : c[t].wait_reason = "WR_WAIT_SHMAT_HELPER_BUSY"}
      u == FirstInList(W)
  IN  IF W = {} THEN c
      ELSE [c EXCEPT ![u] = [sysvipc_wake_tracee(@, 0) EXCEPT !.chain_state = "SHMAT_SOCKET"]]

-----------------------------------------------------------------------------
(* sysvipc_shmget that creates: PRoot waits for the descriptor, so the      *)
(* helper has served all earlier requests.  ALLOC may fail.                 *)
ShmGet(t) ==
  /\ Ready(t) /\ requests = <<>>
  /\ \E s \in Slots, f \in Fds :
       /\ ~shms[s].valid /\ \A u \in Slots : ~shms[u].valid => s <= u
       /\ fds[f] = NoSegment /\ \A g \in Fds : fds[g] = NoSegment => f <= g
       /\ fds' = [fds EXCEPT ![f] = <<s, shms[s].generation>>]
       /\ shms' = [shms EXCEPT ![s] = [@ EXCEPT !.valid = TRUE, !.fd = f]]
  /\ UNCHANGED <<maps, config, life, call, requests, backlog, inbox, got, failed>>

(* sysvipc_shmat: the mapping is registered first, then the tracee starts   *)
(* its chain or waits for another one to finish.                            *)
sysvipc_shmat_busy ==
  \E u \in InList : config[u].chain_state \in Chained \ {"SHMAT_SOCKET"}
ShmAt(t, id) ==
  LET p == ProcOf[t] s == id[1] IN
  /\ Ready(t) /\ LookupOk(id)
  /\ maps[p][s].pending + maps[p][s].done < MaxMaps
  /\ maps' = [maps EXCEPT ![p][s].pending = @ + 1]
  /\ \E from_sigsys \in BOOLEAN :
       LET c == [config[t] EXCEPT !.waiting_object_index = s] IN
       config' = [config EXCEPT ![t] =
         IF sysvipc_shmat_busy
         THEN sysvipc_syscall_common([c EXCEPT !.wait_reason = "WR_WAIT_SHMAT_HELPER_BUSY"],
                                     0, from_sigsys)
         ELSE [c EXCEPT !.chain_state = "SHMAT_SOCKET"]]
  /\ UNCHANGED <<shms, life, call, helper, got, failed>>

(* The common prologue of sysvipc_shmat_chain at chain state cs.            *)
AtChain(t, cs) == /\ Running(t)
                  /\ config[t].chain_state = cs
                  /\ config[t].wait_state = "NOT_WAITING"
                  /\ shms[config[t].waiting_object_index].valid
(* sysvipc_shm_find_pending_mapping finds one.                              *)
HasPending(t) == maps[ProcOf[t]][config[t].waiting_object_index].pending > 0
ShmOf(t) == shms[config[t].waiting_object_index]
ChainTo(t, cs) == config' = [config EXCEPT ![t].chain_state = cs]
ChainOver(t) == [config EXCEPT ![t] = [@ EXCEPT !.chain_state = "NOT_CHAINED",
                                                !.waiting_object_index = 0]]

(* The socket of t, if it is waiting to be accepted, is closed.             *)
Closed(t) == [i \in DOMAIN backlog |->
                IF backlog[i].tracee = t THEN [backlog[i] EXCEPT !.open = FALSE]
                ELSE backlog[i]]

(* The failure exits of sysvipc_shmat_chain: the pending mapping is freed,  *)
(* the next waiter is woken.                                                *)
ShmAtFails(t) ==
  LET p == ProcOf[t] s == config[t].waiting_object_index IN
  /\ \E cs \in {"SHMAT_SOCKET", "SHMAT_CONNECT", "SHMAT_RECVMSG"} : AtChain(t, cs)
  /\ HasPending(t)
  /\ config' = sysvipc_shm_wake_pending_shmat(ChainOver(t))
  /\ call' = [call EXCEPT ![t] = FALSE]
  /\ inbox' = [inbox EXCEPT ![t] = NoSegment]
  /\ backlog' = Closed(t)
  /\ DropMaps([maps EXCEPT ![p][s].pending = @ - 1])
  /\ UNCHANGED <<life, fds, got, failed>>

(* socket succeeded: connect is chained.                                    *)
SocketExit(t) ==
  /\ AtChain(t, "SHMAT_SOCKET")
  /\ ChainTo(t, "SHMAT_CONNECT")
  /\ UNCHANGED <<shms, maps, life, call, helper, got, failed>>

(* The kernel connects: listen(fd, 1) lets two connections wait.            *)
KernelConnect(t) ==
  /\ AtChain(t, "SHMAT_CONNECT") /\ ~call[t]
  /\ Len(backlog) < 2
  /\ backlog' = Append(backlog, [tracee |-> t, open |-> TRUE])
  /\ call' = [call EXCEPT ![t] = TRUE]
  /\ UNCHANGED <<shms, maps, config, life, fds, requests, inbox, got, failed>>

(* PRoot sees the exit of connect: the helper is asked to send the          *)
(* descriptor, recvmsg is chained.                                          *)
ConnectExit(t) ==
  /\ AtChain(t, "SHMAT_CONNECT") /\ call[t]
  /\ requests' = Append(requests, [op |-> "DISTRIBUTE", fds |-> {ShmOf(t).fd}])
  /\ call' = [call EXCEPT ![t] = FALSE]
  /\ ChainTo(t, "SHMAT_RECVMSG")
  /\ UNCHANGED <<shms, maps, life, fds, backlog, inbox, got, failed>>

(* recvmsg returned a descriptor: mmap is chained.                          *)
RecvmsgExit(t) ==
  /\ AtChain(t, "SHMAT_RECVMSG") /\ inbox[t] # NoSegment
  /\ ChainTo(t, "SHMAT_MMAP")
  /\ UNCHANGED <<shms, maps, life, call, helper, got, failed>>

(* mmap is done: the mapping is no longer pending.  What mmap returned is   *)
(* not looked at.                                                           *)
MmapExit(t) ==
  LET p == ProcOf[t] s == config[t].waiting_object_index IN
  /\ AtChain(t, "SHMAT_MMAP") /\ HasPending(t)
  /\ config' = sysvipc_shm_wake_pending_shmat(ChainOver(t))
  /\ inbox' = [inbox EXCEPT ![t] = NoSegment]
  /\ got' = (got \cup {<< <<s, shms[s].generation>>, inbox[t] >>})
                  \ {<<g, g>> : g \in Segment}
  /\ maps' = [maps EXCEPT ![p][s].pending = @ - 1, ![p][s].done = @ + 1]
  /\ UNCHANGED <<shms, life, call, fds, requests, backlog, failed>>

(* The assertions of the chain: the segment is gone, or the mapping that    *)
(* was registered for this shmat is.                                        *)
ChainAsserts(t) ==
  /\ Running(t) /\ config[t].wait_state = "NOT_WAITING"
  /\ \/ /\ config[t].chain_state \in Chained /\ ~ShmOf(t).valid
        /\ failed' = "shm_valid"
     \/ /\ \E cs \in Chained : AtChain(t, cs)
        /\ ~HasPending(t)
        /\ failed' = "no_pending_mapping"
  /\ UNCHANGED <<shms, maps, config, life, call, helper, got>>

(* sysvipc_shmdt of an attached address, or of address 0, which is what a   *)
(* mapping that is still to come has.                                       *)
ShmDt(t, s) ==
  LET p == ProcOf[t] IN
  /\ Ready(t)
  /\ \/ maps[p][s].done > 0 /\ DropMaps([maps EXCEPT ![p][s].done = @ - 1])
     \/ maps[p][s].pending > 0 /\ DropMaps([maps EXCEPT ![p][s].pending = @ - 1])
  /\ UNCHANGED <<config, life, call, fds, backlog, inbox, got, failed>>

(* Fault: the helper is told to close the memory of a segment in use.      *)
ShmRmidFreesEarly(t, id) ==
  LET s == id[1] IN
  /\ Ready(t) /\ LookupOk(id) /\ id[2] < MaxRemovals
  /\ shms' = IF Mapped(maps, s) THEN [shms EXCEPT ![s].rmid_pending = TRUE]
             ELSE sysvipc_do_rmid(shms, {s})
  /\ requests' = Append(requests, FreeRequests({s}))
  /\ UNCHANGED <<maps, config, life, call, fds, backlog, inbox, got, failed>>

(* sysvipc_shmctl(IPC_RMID)                                                 *)
ShmRmid(t, id) ==
  LET s == id[1] IN
  /\ Ready(t) /\ LookupOk(id) /\ id[2] < MaxRemovals
  /\ IF Mapped(maps, s)
     THEN /\ shms' = [shms EXCEPT ![s].rmid_pending = TRUE]
          /\ UNCHANGED requests
     ELSE /\ shms' = sysvipc_do_rmid(shms, {s})
          /\ requests' = Append(requests, FreeRequests({s}))
  /\ UNCHANGED <<maps, config, life, call, fds, backlog, inbox, got, failed>>

(* execve of a process is about to start (SYSCALL_ENTER_END): all its       *)
(* mappings are dropped (sysvipc_shm_remove_mappings_from_process).         *)
Exec(t) ==
  /\ Ready(t)
  /\ DropMaps([maps EXCEPT ![ProcOf[t]] = [s \in Slots |-> [pending |-> 0, done |-> 0]]])
  /\ UNCHANGED <<config, life, call, fds, backlog, inbox, got, failed>>

(* fork (INHERIT_CHILD, sysvipc_shm_inherit_process): the child's process   *)
(* has a copy of every mapping, the pending ones included.                  *)
Fork(t, u) ==
  /\ Ready(t) /\ life[u] = "unborn"
  /\ life' = [life EXCEPT ![u] = "running"]
  /\ maps' = [maps EXCEPT ![ProcOf[u]] = maps[ProcOf[t]]]
  /\ UNCHANGED <<shms, config, call, helper, got, failed>>

-----------------------------------------------------------------------------
(* The waits, as in SysVMsg.                                                *)
ReenterPpoll(t) ==
  /\ Running(t)
  /\ config' = [config EXCEPT ![t].wait_state =
                  IF @ = "RESTARTED_INTO_PPOLL" THEN "ENTERED_PPOLL" ELSE "SIGNALED_PPOLL"]
  /\ config[t].wait_state \in {"RESTARTED_INTO_PPOLL", "RESTARTED_INTO_PPOLL_CANCELED"}
  /\ UNCHANGED <<shms, maps, life, call, helper, got, failed>>

(* A signal ends the wait for the helper: EINTR.                            *)
PpollInterrupted(t) ==
  /\ Running(t) /\ config[t].wait_state = "ENTERED_PPOLL"
  /\ config' = [config EXCEPT ![t] = [AbandonWait(@) EXCEPT !.waiting_object_index = 0]]
  /\ UNCHANGED <<shms, maps, life, call, helper, got, failed>>

(* SYSCALL_CHAINED_EXIT of a woken waiter's ppoll: its socket comes next.   *)
WokenPpollExit(t) ==
  /\ Running(t) /\ config[t].wait_state = "SIGNALED_PPOLL"
  /\ config' = [config EXCEPT ![t] = EndWait(@)]
  /\ UNCHANGED <<shms, maps, life, call, helper, got, failed>>

Kill(t) ==
  /\ life[t] = "running"
  /\ Cardinality({u \in Tracees : life[u] \in {"killed", "freed"}}) < MaxKills
  /\ life' = [life EXCEPT ![t] = "killed"]
  /\ backlog' = Closed(t)
  /\ UNCHANGED <<shms, maps, config, call, fds, requests, inbox, got, failed>>

(* PRoot handles the exit; the last thread of a process takes its mappings  *)
(* with it.                                                                 *)
Reap(t) ==
  LET last == \A u \in InList \ {t} : ProcOf[u] # ProcOf[t] IN
  /\ failed = "none" /\ life[t] = "killed"
  /\ life' = [life EXCEPT ![t] = "freed"]
  /\ config' = [config EXCEPT ![t] = InitWait]
  /\ call' = [call EXCEPT ![t] = FALSE] /\ inbox' = [inbox EXCEPT ![t] = NoSegment]
  /\ IF last
     THEN DropMaps([maps EXCEPT ![ProcOf[t]] = [s \in Slots |-> [pending |-> 0, done |-> 0]]])
     ELSE UNCHANGED <<maps, shms, requests>>
  /\ UNCHANGED <<fds, backlog, got, failed>>

-----------------------------------------------------------------------------
(* sysvipc_shm_helper_main: the next request; DISTRIBUTE sends the          *)
(* descriptor to the oldest connection, whoever made it.                    *)
HelperFree ==
  /\ requests # <<>> /\ Head(requests).op = "FREE"
  /\ fds' = [f \in Fds |-> IF f \in Head(requests).fds THEN NoSegment ELSE fds[f]]
  /\ requests' = Tail(requests)
  /\ UNCHANGED <<shms, maps, config, life, call, backlog, inbox, got, failed>>

HelperDistribute ==
  /\ requests # <<>> /\ Head(requests).op = "DISTRIBUTE"
  /\ backlog # <<>>
  /\ LET client == Head(backlog) f == CHOOSE f \in Head(requests).fds : TRUE IN
     inbox' = IF client.open THEN [inbox EXCEPT ![client.tracee] = fds[f]] ELSE inbox
  /\ backlog' = Tail(backlog) /\ requests' = Tail(requests)
  /\ UNCHANGED <<shms, maps, config, life, call, fds, got, failed>>

Chain(t) == \/ SocketExit(t) \/ KernelConnect(t) \/ ConnectExit(t)
            \/ RecvmsgExit(t) \/ MmapExit(t) \/ ShmAtFails(t) \/ ChainAsserts(t)
Wait(t) == ReenterPpoll(t) \/ PpollInterrupted(t) \/ WokenPpollExit(t)
Next == \/ HelperFree \/ HelperDistribute
        \/ \E t \in Tracees :
             \/ ShmGet(t) \/ \E id \in Ids : ShmRmid(t, id)
             \/ t \in Attachers /\ \E id \in Ids : ShmAt(t, id)
             \/ \E s \in Slots : ShmDt(t, s)
             \/ Exec(t) \/ \E u \in Newborn : Fork(t, u)
             \/ Chain(t) \/ Wait(t) \/ Kill(t) \/ Reap(t)

Spec == Init /\ [][Next]_vars

-----------------------------------------------------------------------------
(* A segment is never removed under a mapping, done or still to come: what  *)
(* registering the mapping before the chain starts is for ("to prevent      *)
(* IPC_RMID concurrent to shmat").                                          *)
MappedIsValid == \A s \in Slots : Mapped(maps, s) => shms[s].valid

(* A removal is only put off while something maps the segment: the last     *)
(* detach, execve or exit completes it.                                     *)
DeferredRemovalHasUser == \A s \in Slots : shms[s].rmid_pending => Mapped(maps, s)

(* The helper holds the memory of every valid segment under the descriptor  *)
(* PRoot knows, whatever was freed and allocated meanwhile.                 *)
HelperHoldsSegments ==
  \A s \in Slots : shms[s].valid => fds[shms[s].fd] = <<s, shms[s].generation>>

(* Memory lives as long as it is used, and no longer: all three, whatever   *)
(* the chains of the tracees and the helper do in between.                  *)
SegmentsAreKept == MappedIsValid /\ DeferredRemovalHasUser /\ HelperHoldsSegments

(* The wait machinery's records are coherent, and a chain only runs on a    *)
(* tracee that does not wait for the helper.                                *)
ShmWaitsCoherent ==
  \A t \in Tracees : WaitCoherent(config[t]) /\ (config[t].chain_state \in Chained =>
     config[t].wait_state \in {"NOT_WAITING", "SIGNALED_PPOLL", "RESTARTED_INTO_PPOLL_CANCELED"})

(* shmat maps the segment it was asked for.                                 *)
AttachesOwnSegment == got = {}
=============================================================================
