# A TLA+ model of PRoot (Improot)

PRoot runs programs in another root file system without privileges. It is one
single-threaded tracer: it waits for a ptrace stop of one of its tracees, handles
the stop to the end, restarts the tracee and waits again. Everything that is hard
about it comes from what happens *between* two stops: other tracees run, are
signalled and die, the kernel delivers stops in an order that depends on its
version, and a system call that PRoot has to answer later is parked in another one.

All paths below are relative to `src/` of this repository unless they start with
`src/`; `PROJECT.json` maps every definition to its lines.

## Inventory

| Component | State | Operations | Interactions and hard parts | What makes it correct |
|---|---|---|---|---|
| Event loop and syscall stages (`tracee/event.c`, `tracee/seccomp.c`, `syscall/syscall.c`, `syscall/chain.c`, `tracee/reg.c`) | per tracee: `status`, `restart_how`, `seccomp`, `sysexit_pending`, chain, saved registers; two statics about the kernel | one handler per kind of stop | enter and exit stops look alike; seccomp before or after ptrace; cancelled and trapped calls; chains and restarts; stops that were not asked for | PRoot's stage is the kernel's; each call is translated once per stage; faked results survive |
| SysV IPC waits (`extension/sysvipc/sysvipc.c`) | per tracee: wait reason, wait state, recorded object, status after the wait | park in `ppoll`/`getpid`, wake by signal, retry, give up | a wake-up, a signal, a removal and death may hit one sleeper in any order | records coherent, assertions hold |
| SysV message queues (`sysvipc_msg.c`) | queues per namespace | msgget, msgsnd, msgrcv, msgctl | a woken receiver takes its message later | exactly once, in order, no forgotten sleeper |
| SysV semaphores (`sysvipc_sem.c`) | sets per namespace | semget, semop, semctl | several operations at once, sleepers served in one pass | all or nothing, nobody sleeps for nothing |
| SysV shared memory (`sysvipc_shm.c`) | segments, mappings per process, helper process | shmget, shmat (chain of four calls), shmdt, shmctl, fork, exec | helper answers later, removal is deferred, one chain at a time | no segment freed under a mapping, each gets its own |
| Tracee lifecycle (`tracee/tracee.c`) | list of tracees, shared parts by clone flags | get, new_child, remove | child may stop before its parent reports it | nobody waits for a dead tracee |
| ptrace and wait emulation (`ptrace/`) | ptracer/ptracee links, pending events, wait state | ptrace requests, wait4 | two tracers, PRoot's and the guest's, for one process | no event lost or reported twice |
| Paths (`path/path.c`, `canon.c`, `proc.c`) | recursion of one resolution | translate, detranslate, canonicalize | links, `..`, bindings, `/proc`; other processes change links between two components | what the kernel would resolve with real mounts; it ends |
| Bindings (`path/binding.c`, `glue.c`, mounts in `syscall/enter.c`) | two sorted lists per namespace | start, mount, umount, pivot_root, chroot, clone | nested bindings; insertion keeps the order that look-up relies on | the first match is the innermost, both lists agree |
| Syscall translation (`syscall/enter.c`, `exit.c`, `socket.c`) | flags left from enter to exit, working directory, tracked descriptors | one case per call; netlink substitution | descriptors are reused; buffers have the guest's size; answers are read in pieces | results are those Linux would give the guest; answers arrive |
| Heap (`syscall/heap.c`) | base, size, disabled; shared by threads | brk | result of the real call seen at exit | the break is where the last brk left it |
| Pipe shadows (`syscall/pipe_shadow.c`) | read ends PRoot keeps open | close, reap, timer | blocked writers cause no event | first write not refused, no writer blocked for good |
| seccomp filters (`syscall/seccomp.c`) | merged list of calls | merge, generate | flags of several extensions | a call's exit is seen if anyone needs it |
| execve and loader (`execve/`, `loader/`) | load info, remembered library paths | expand shebangs, rewrite argv and envp, write and run the load script | one step of several failing; page boundaries | memory, arguments and record of the program are the kernel's |
| fake_id0 | ids, groups, capability; modes lent to a call; meta files | set*id, chown, chmod, stat, ... | sequences of calls; the host's file is changed before the call | Linux's rules; what is lent is given back; owner and mode follow the file |
| link2symlink | link counts in file names | link, unlink, rename, stat | failure or crash between host calls | hard links (refinement) |
| vdisk | cache directory, table of copied directories | look-ups, exit that saves | copies on demand; commands that fail | transparent; saved whole |
| kompat | chained calls, host name | replaced calls | descriptors known only at exit | does what the virtual kernel does |
| portmap, port_switch | table of ports, one pending port | bind, listen, connect, sendto | two tracees between bind and listen | a connect to the guest's port finds its socket |
| CARE | sets of archived paths | paths seen, getdents, exit | archived before the call, once | the archive has the files as they were |
| jit | shared hash table | insert, clear, look up | readers without a lock | no torn or stale hit |
| talloc (vendored, `lib/talloc`) | tree of chunks, references, pools | allocate, reference, steal, unlink, free | destructors refuse, references keep | frees only what nothing keeps |
| other extensions, temporary files, CLI | see `PROJECT.json` | | | |

## Modules

- `SysVIpc`: the wait machinery, operators on one tracee's `SysVIpcConfig`. A call that
  has to wait is turned into a `ppoll` without end (`ENTERED_PPOLL`; after a SIGSYS it
  is restarted into it), a call that is answered at once into `getpid`
  (`ENTERED_GETPID`), and its result is poked at the exit of that call.
  `sysvipc_wake_tracee` clears the reason and sends a signal to end the `ppoll`.
- `SysVMsg`, `SysVSem`, `SysVShm`: one module per object type over `SysVIpc`. PRoot
  handles one stop at a time, so a handler is one action; `ReenterPpoll`,
  `PpollInterrupted` and `ParkedCallEnds` are the later stops of the parked call.
  Tracees are numbered in order of creation because the handlers walk the list of
  tracees newest first and stop at the first match. `Kill` (external) ends a
  tracee, `Reap` is PRoot's notice of it; in between PRoot acts on a dead tracee.
  The loops of `SysVSem` (over the operations of a semop, over the tracees) and its sums
  are recursive functions, so that they can be proved about.
  `SysVShm` adds the helper process, with its queue of requests and its backlog of
  connections, and the chain socket - connect - recvmsg - mmap in the tracee.
- `SyscallStops`: one tracee's way through system calls. `k` is the kernel's side
  (where the process is, what it executes), written from the comments of `event.c`
  and `syscall.c` and marked external; `tr` is PRoot's record of the tracee, and
  `SyscallStop`, `SeccompStop`, `SigsysStop`, `EventStop` and `SignalStop` are the
  cases of `handle_tracee_event`. What the translation of a particular call asks for is
  a nondeterministic outcome (`EnterOutcomes`, `ExitOutcomes`).
- `Tracees`: several tracees, their parents, ptracers and ptracees. `t[p]` is PRoot's
  record of a process, `k[p]` the kernel's (external). PRoot's functions keep their
  names and map a state `[t, k, failed]` to the next one, because they call each
  other on different tracees; `HandleReport` is one iteration of `event_loop`. Every call
  is seen at enter and exit. Where the code takes the first of the list of
  tracees, any one of them may be taken. `remove_tracee` releases the ptracees of a dead
  tracee one by one; a release reads and writes the ptracee's own record only, so
  `ReleasePtracees` does it for all of them at once. `new_child` is in three parts: the
  record (`TraceChild`), the introduction to a ptracer (`Introduce`) and the start of a
  child that already stopped (`StartChild`).
- `BindingTable`: the operators of `binding.c` (insertion, look-up, substitution both
  ways), shared by `Bindings` (the life of the tables: start, mount, umount, pivot_root,
  chroot, clone) and `Paths` (one resolution, a stack of `canonicalize` activations;
  `Step` is one component, `Change` another process that swaps an entry).
- `Netlink`: the substituted and the real NETLINK_ROUTE sockets of two tracees, from
  socket(2) to the last datagram read, with fork, close, reuse of numbers and full arrays. `host` says whether
  the host blocks such sockets and whether PRoot's seccomp filter is on (`event.c:130`).
- `PipeShadow`: PRoot's loop (`LoopTop`, `Waits`, `OtherEvent`, `Alarm`), the shadows, the timer as a
  count of `Tick`s, and pipes with a reader and a writer each.
- `Answers`: results put in the guest's terms: working directory and renames, readlink,
  socket names, auxv.

  These three depend on when close(2) is a stop. It is in no list of filtered calls (`seccomp.c:331-434`, nor in one of
  an extension), so with the filter, which is the default, PRoot sees it only as the next call of a tracee it had told
  to stop there. In `Netlink` a close is seen without the filter only (`Close`, `PR_close`); in `PipeShadow` any close may
  be seen or not (`Close`, `CloseUnseen`); in `Answers` it is seen without the filter, or right after the open of
  `/proc/self/auxv` or a read of it that was corrected, which ask for it (`Stops`, `Asks`). Descriptors that dup2(2) or
  close-on-exec take away are not modelled; the code does not look at them either.
- `Loader`, `ExecArgs`, `Execve`: a program's memory (ELF headers to load script to the
  loader's statements), its arguments and environment, and PRoot's record of it with the
  emulated heap. They meet in one execve but share no state: the file to load is what
  `ExecArgs` ends with, the load script what `Loader` starts from, and `Execve` keeps only
  which stage failed (`Outcomes`): PRoot before it changed the record ("path") or after ("load", "interp"), or
  the kernel (`Refused`).
- `HardLinks`: what hard links promise; `Link2Symlink` implements it. The mapping is
  the view a guest has between two calls: while PRoot executes the host calls of one
  guest call the mapped state is the one before it, so every call is one abstract step.
  A crash ends the behaviour; that it loses no file is `FileIsKept`.
- `Vdisk`, `FakeIds`, `FakeModes`, `MetaFiles`, `Kompat`, `Ports`, `Care`, `Jit`, `Talloc`: one
  extension or library each.
- `MCFiles`, `MCProcesses`: these modules in two runs. They share no state, so a
  behaviour chooses one `part` at the start and stays in it; the parts take turns with the
  variables `v1`, `v2`, ... (the extended modules, `Link2Symlink` in the one, `Execve` and `PipeShadow` in the other, have variables of their
  own; hence the names `PipesInit`, `PipesNext` and `PipesSpec`). A property of a part is guarded by it. `Parts` in the .cfg selects parts.
- `MCSysVMsg`, `MCSysVSem`, `MCSysVShm`, `MCSyscallStops`, `MCTracees`: the other instances.
- `SysVMsgProofs`, `SysVSemProofs`, `SysVShmProofs`, `SyscallStopsProofs`, `TraceesProofs`,
  `ProcessesProofs`, `FilesProofs`, `Link2SymlinkProofs`: the theorems. `ProcessesProofs` is of `Execve` and
  `PipeShadow`, which it extends, and of `Jit`, `Ports` and `Netlink` (its instances `J`, `P` and `N`); `FilesProofs` of `MetaFiles`, which it extends,
  and of `FakeIds`, `FakeModes`, `Bindings` and `Answers` (its instances `F`, `M`, `B` and `An`); the others are of the component they are named for.

An assertion of the code is modelled as the variable `failed` (or `tr.failed`): it names
the assertion that stopped PRoot, and nothing happens after it.
What a kernel would do is stated in a module as a reference (`kernel` in `FakeIds`,
`Kernel` in `Paths`, `view` in `Vdisk`, `want` in `MetaFiles`, ...), written independently of
the emulation, and the property compares the two.

`Quirks` are cases in which the code is known to answer otherwise than its reference. A
passing run has none of them; naming one in the .cfg makes TLC show it. They are listed under
"Known differences".

Operators whose comment starts with "Fault" are plausible mistakes that the
properties were tried against; no specification uses them.

## Runs

| Run | Checks | Bounds, and why they are enough |
|---|---|---|
| `stops` | `StagesAgree`, `TranslatedOnce`, `FakedResultKept` | every plausible host; chains of up to 2 more calls (a chain is consumed one by one, so 2 has a first, a middle and a last call); the number of calls is unbounded |
| `msg` | `TypeOK`, `WaitsCoherent`, `WaitAssertsHold`, `StatsAgree`, `Delivered` (at most once, in order per type, no receiver asleep past a message nobody was told of) | 3 tracees (sender, two receivers or a remover), 2 messages, 1 removal (a reused slot), 1 death |
| `sem` | `EffectIffToldSo`, `TakersServed` (nobody sleeps whose operations could be executed, i.e. `sysvipc_sem_check` gives other than 0; not exactly 1, because a sleeper whose earlier operation has IPC_NOWAIT may come to give EAGAIN) | 3 tracees, a set of 2 semaphores with values up to 2, a three-step operation, 1 removal, 1 death |
| `shm` | `SegmentsAreKept` (mapped segments exist, a deferred removal has a user, the helper holds what PRoot records), `ShmWaitsCoherent` | 2 threads and a process they may fork, 1 slot used twice, 2 mappings, 1 death |
| `tracees` | `LinksAgree` (exact counts, no dangling links), `StoppedHasCause` | a debugger, a child that may ask to be traced and a process either may fork; every modelled request, a wait for any process and one for the child with a bad address, signals to the third process, deaths in any order; the number of calls is unbounded |
| `files` | `CountIsLinks`, `FileIsKept`, `ImplementsHardLinks`; `InnermostFirst`; `LazyIsTransparent`, `SavedIsTheView`; `IdsLikeLinux`; `ModesAreTheGuests`; `MetaFollowsFile`; `ReproducesTheOriginal`; `AnswersAreTheGuests` | see the next table |
| `processes` | `RecordIsTheProgram`, `BrkLikeLinux`; `ResolvesLikeKernel`, `Terminates`; `NetlinkIsHonest`, `AnswersArrive`; `BlockedWriterIsFreed`, `FirstWriteIsKept`; `OwnershipIsSound`, `FreedIsUnkept`; `HitIsCurrent`; `LoadedLikeKernel`; `ArgsLikeLinux`; `LikeTheVirtualKernel`; `PortsAreTheGuests` | see the next table |
| `msg_retry` | `RetryQueueValid`, violated | see Findings |
| `sem_sleep` | `SleepersBlocked`, violated | see Findings |
| `shm_attach` | `AttachesOwnSegment`, violated | see Findings |
| `stops_traceme` | `TranslatedOnce`, violated | see Findings |
| `tracees_freed` | `FreedIsRestarted`, violated | see Findings |

| Part | Bounds, and why they are enough |
|---|---|
| links | 3 names, 2 files, counts to 3, one failed host call or a crash anywhere, unbounded calls: a file reaches a count above 2 and comes back |
| bindings | 2 processes with shared or own namespaces, 2 start-ups, depth 2, 4 bindings, 1 tmpfs, 2 calls: a binding inside, over and outside of another |
| vdisk | 3 images, 2 writes, 2 sessions; a table of 4 copied directories instead of 512, so that it is full |
| ids, modes, meta | root and 3 other user ids (so that real, effective and saved all differ; who does not start as root starts as one of them, which are alike), 2 group ids, 3 calls (drop, set, take back); 2 files and a directory, 3 calls |
| care | a directory with a file, a file, a fifo, an unused name, 2 tracees, 2 calls; a size on each side of the limit |
| answers | buffers of every size around the lengths that matter, 2 directories one in the other, 3 calls beside reads, closes and unlinks (open, close and open again of a number; two moves of a working directory), with the filter and without; the theorem is for any number |
| execve | 3 tracees (a parent, a thread of it and a child of either), 4 calls, each execve refused at every stage; a program of the host and a 32-bit one of the guest's processor; breaks below the heap, inside a page and over several |
| pipes | 2 pipes of 1 and 2 slots, 1 shadow slot (so that it is missing for the other pipe), ages to 2, time unbounded; any close may go unseen |
| paths | 40 trees with up to three links (circular, to the host's names, out of a binding), MAXSYMLINKS 3 instead of 40, one change by another process at any component |
| netlink | 2 tracees, 2 descriptors, 2 sockets, 2 requests: a number is closed and used again while an answer is unread; room for one recorded real socket, so that the array is full. A host that blocks the sockets is in the run without the filter only: with it a guest that reads from a reused number may wait for good, so that `AnswersArrive` fails. The theorem has every host |
| talloc | 4 chunks, 5 calls, a pool of 3, one destructor that refuses: a parent, a child, a reference and its holder |
| jit | 2 guest paths that may share an entry, 2 host paths, 2 writes, 1 reader, stores seen in order. Nothing in this tree inserts entries: the part checks the algorithm, not a hazard of the program |
| loader | pages of 4 bytes, segments that end at, before and after a page |
| args, kompat, ports | chains of 5 programs, 2 replaced calls for every release, with one descriptor or two, 2 calls on a table of 4 ports that probing goes around |

The number of calls from one state is bounded by `MaxCalls` of each module, the only
bound that is not a size of the system.

Deadlock is checked in `stops` (the process can always go on). In the SysV runs the
system may stop: the sends, removals and deaths are bounded and tracees may sleep for
good. In `tracees` all processes may die, and a failed assertion stops PRoot.

In `files` and `processes` the calls are bounded.

Fairness is stated where a property needs it, in `processes`, and is weak everywhere:

- `Paths`: `Step`. PRoot's handler is running and nothing it calls blocks.
- `Netlink`: `Read(t)` for a tracee that has sent a request. The guest's own reading loop is assumed to
  go on; the property is that its reads are answered. Sends, closes and deaths are not fair.
- `PipeShadow`: `LoopTop`, `Waits` and `Alarm` (PRoot's loop takes its next step when it can),
  `Tick` (time passes) and `Unblock(p)` (the kernel wakes a writer that can go on). That
  a tracee writes, reads, closes or ends, or that an event comes, is never assumed.

The other specifications are `Init /\ [][Next]_vars`: a kernel that never schedules a tracee,
or a guest that never calls, is a legal behaviour of them. The SysV waits have no progress
property: `sem_sleep` and the announcements that are made once (`Delivered`) show
why none holds.

### Findings

1. `msg_retry`: a receiver that was woken retries later; a queue removed meanwhile fails
   `assert(queue->valid)` (`extension/sysvipc/sysvipc_msg.c:259`) and PRoot aborts.
2. `sem_sleep`: `SETVAL` wakes nobody (`sysvipc_sem.c:209-215`). `TakersServed` is what
   does hold: a semop leaves no sleeper behind that only takes and could be served.
3. `shm_attach`: the check for a concurrent `shmat` uses `> CSTATE_SHMAT_SOCKET`
   (`sysvipc_shm.c:411`), so a second chain may start while the first is in its socket
   call, and the helper answers the wrong one.
4. `stops_traceme`: a PTRACE_TRACEME whose avoider an outer policy traps leaves
   `seccomp` at DISABLING, and the next call is not translated (`tracee/event.c:644-651`).
5. `tracees_freed`: a ptracer dies after it collected a stop that PRoot had handled
   first (a syscall exit) and before it restarted the ptracee; `remove_tracee` finds no
   pending event (`tracee/tracee.c:109-117`) and the "free" ptracee stays stopped.
   `StoppedHasCause` is what does hold: apart from these, and from a child whose
   creator is killed before its FORK event is reported (the variable `deserted` collects both),
   whoever is kept stopped has someone to restart it.

`Tracees` also reaches failures that no run is about, because nothing in the
repository says otherwise; they are values of `failed`: PTRACE_CONT for a
ptracee not yet seen stopped (`event.c:897`), ATTACH before the FORK event, or a FORK event handled
twice because its waiting ptracer was killed (`tracee.c:422`), and TRACEME by an orphan,
whose parent is NULL (`ptrace.c:109`).

With four processes instead of the three of the run, `StoppedHasCause` fails as well. A process whose FORK event is
not handled yet is made to run by a ptracer, forks and stops by SIGSTOP, which PRoot holds back
(`SIGSTOP_PENDING`) until the FORK event; the TRACEME of its child then sets its `sigstop` to IGNORED
(`ptrace.c:169`), the note is lost, and `new_child` does not restart it.

### Known differences

Each is reachable by naming the quirk in the .cfg (with `Parts` reduced to its part; `Cycles` and
`Weak` are in `MCProcesses`), and then violates the property of its module. They are not findings of a run unless the
repository says otherwise somewhere; where it does, the place is given.

- `Link2Symlink`: the count is changed before the tracee's call is performed, so a refused
  rename ("refused", against the comment at `link2symlink.c:1168`), a rename to itself ("same"),
  two calls at a time ("race", with two guests), `/proc/self/fd` ("procfd") or a second failing host call
  ("fault") leave it wrong.
- `Paths`: a link swapped in by another process fails the assertion at `canon.c:371` (in the run, as
  the outcome "abort"); a trailing slash in a link's target is lost; `/proc/<pid>/root` leads to a host path.
- `Bindings`: pivot_root walks a snapshot of the list in which a binding that one of its own insertions
  replaced may have been freed (`stale`; the comment at `syscall/enter.c:333` takes the snapshot for safe).
- `Netlink`: with the seccomp filter a closed number stays tracked (no quirk: `host.filter` is part of the model), so that
  PRoot answers for, or rewrites the answers of, another file that gets it. This is what the comment at `syscall/enter.c:2816`
  rules out; `NetlinkIsHonest` claims it where `~host.filter` only, and TLC shows the failure when `TrackedIsSubstitute` is
  stated without that condition.
- `PipeShadow`: with `Late = TRUE` the one-shot timer rings before waitpid(2) and is lost. With the filter most closes are
  no stops and no shadow is taken, although `syscall/enter.c:2822` wants one for each; `FirstWriteIsKept` says when.
- `Talloc`: `Cycles = TRUE`; the children of a chunk that cannot be freed go to the NULL context
  (`talloc.c:1657`), not to a grandparent.
- `Jit`: `Weak = TRUE` (ARM64) tears an entry. Nothing in this tree inserts entries.
- `Vdisk`: files the guest removes come back ("delete", against the usage text in `vdisk.c` and
  `README.md:34`), an image with partitions becomes one without ("partitions"), a last command that
  fails is said to have saved ("install"), a reused process id ("stale"), directories deeper than 20 are dropped.
- `FakeIds`: "both" (setreuid to the effective and the saved id at once, when neither is the other's: the comment at
  `fake_id0.c:175` asks whether it is possible; Linux grants it, the code refuses), "reuid", "same", "held", "exec". `FakeModes`: "concurrent", "rename". `MetaFiles`: "fails", "host", "link",
  "group" and, where no property looks, "exec" (a failed execve of a set-user-id program keeps the ids).
- `Loader`: "bss" (against the comment at `execve/enter.c:93`), "phdr". `Execve`: "qemu", "threads". Refusals after the record was changed are in the run; what they leave
  behind is excepted by name in `RecordIsTheProgram` (the history field `late`): a program the kernel refuses leaves its word
  size and a masked ptracer ("kernel", `execve/exit.c:477-483`, `execve/enter.c:718`), one that PRoot could not read leaves load
  information without mappings, from which the first brk(2) computes an address (`syscall/heap.c:105-107`): PRoot crashes ("load",
  the call "crash"). `ExecArgs`:
  "changed", "unset", "rpath", "eof", "empty".
- `Kompat`: "mask", "follow". `Ports`: "fd", "again", "full" (with a table of 2 entries and 5 calls), "zero", "orphan", "result", "udp6", and
  "refused" (3 calls): a `--netcoop` bind that the kernel refuses leaves its port pending (`portmap.c:46`), and the next
  listen on that file number enters another socket's port for it.
- `Care`: "links", "unreadable", and a limit whose product with 1024 * 1024 overflows an int (`care.c:236`).
- `Answers`: "other", "renameat2", "concurrent", "again", "exact", "small", "brim", "threads".

## Proofs

The theorems hold for every value of the constants that satisfies the ASSUMEs of the modules and,
where a theorem has one, its hypothesis. The runs' instances satisfy all of them.

| Theorem | States | Hypotheses |
|---|---|---|
| `SysVMsgProofs`: `InvHolds`, `TypesHold`, `WaitsStayCoherent`, `WaitAssertsNeverFail`, `StatsStayExact`, `MessagesAreDelivered` | `TypeOK`, `WaitsCoherent`, `WaitAssertsHold`, `StatsAgree`, `Delivered` | types of the constants |
| `SysVSemProofs`: `EffectsAreTold`, `TakersAreServed` | `EffectIffToldSo`, `TakersServed` | types of the constants; any number of tracees, sets, semaphores and operations |
| `SyscallStopsProofs`: `StopsAreCounted`, `StagesAreTranslatedOnce`, `ResultsAreKept` | `StagesAgree`, `TranslatedOnce`, `FakedResultKept` | `Covered`: the hosts of the run `stops` |
| `SysVShmProofs`: `SegmentsStay`, `ShmWaitsStayCoherent` | `SegmentsAreKept`, `ShmWaitsCoherent` | types; `ForkAssumption`: fork gives the child a process of its own |
| `TraceesProofs`: `OkAlways`, `LinksAgreeAlways` | types and `Ok`; `LinksAgree` | `TraceesAssumption`: finitely many processes, numbered from 1 |
| `ProcessesProofs`: `RecordsAreThePrograms`, `BreaksAreLinuxs` | `RecordIsTheProgram`, `BrkLikeLinux` of `Execve` | `Usual`: no quirk (no runner, one tracee of a memory in brk(2) at a time), as in the run `processes`; finitely many tracees; pages and breaks are numbers. Refusals at every stage are included |
| `FilesProofs`: `MetaFilesFollow` | `MetaFollowsFile` of `MetaFiles` (which `MCFiles` checks for its part) | `MetaUsual`: no quirk, as in the run `files`; modes are modes, and nobody is called "none" |
| `FilesProofs`: `IdsAreLinuxs` | `IdsLikeLinux` of `FakeIds` (which `MCFiles` checks for its part) | `IdsUsual`: no quirk, as in the run `files`; ids are numbers |
| `FilesProofs`: `ModesFollow` | `ModesAreTheGuests` of `FakeModes` (which `MCFiles` checks for its part) | `ModesUsual`: no quirk, as in the run `files`; modes are modes, and no file is called as the directory |
| `FilesProofs`: `InnermostStaysFirst` | `InnermostFirst` of `Bindings` (which `MCFiles` checks for its part) | `BindUsual`: every command line binds `/` (`initialize_bindings` asserts it), the temporary directories are paths, there is a first process |
| `FilesProofs`: `AnswersAreLinuxs` | `AnswersAreTheGuests` of `Answers` (which `MCFiles` checks for its part) | `AnswersUsual`: no quirk, as in the run `files`, with and without the filter; directories start at places of their own, below directories; a socket's name fits in `sun_path`, and its shorter path is no other's (`mktemp` makes it) and not under the root file system |
| `ProcessesProofs`: `HitsAreCurrent` | `HitIsCurrent` of `Jit` (which `MCProcesses` checks for its part) | `Ordered`: stores are seen in order, and the sequence counter (32 bits in the code) does not come around within the bound on writes |
| `ProcessesProofs`: `PortsFollow` | `PortsAreTheGuests` of `Ports` (which `MCProcesses` checks for its part) | `PortsUsual`: no quirk, as in the run `processes`; ports are numbers other than 0, the table has entries |
| `ProcessesProofs`: `NetlinkStaysHonest` | `NetlinkIsHonest` of `Netlink` (action property, which `MCProcesses` checks for its part) | `NetUsual`: there is a tracee; descriptors are numbers, sequence numbers are positive. Every host, with and without the filter; of reused numbers the property speaks without it |
| `ProcessesProofs`: `FirstWritesAreKept` | `FirstWriteIsKept` (action property) | `PipeAssumption`: a pipe holds something |
| `Link2SymlinkProofs`: `CountsAreLinks`, `FilesAreKept`, `LinksAreHardLinks` | `CountIsLinks`, `FileIsKept`, `ImplementsHardLinks` (refinement) | `Simple`: no quirk, as in the run `files`; finitely many names |

`Covered` leaves out the host of the finding `stops_traceme` and two kinds of host that `MCSyscallStops` leaves out:
a policy that traps the exit, or traps a call again, under a kernel that evaluates seccomp first. `Simple`,
`Usual`, `MetaUsual`, `IdsUsual`, `ModesUsual`, `AnswersUsual` and `PortsUsual` leave out the cases in which `Link2Symlink`, `Execve`, `MetaFiles`, `FakeIds`,
`FakeModes`, `Answers` and `Ports`
are known to be wrong. `Ordered` leaves out `Weak` memory, where the property fails.

None of the properties is inductive alone. The inductive invariants, and why they are needed:

- `SysVMsgProofs.Inv`. That waking never fails its assertion depends on what a record with a wait reason looks like; that
  depends on the reason being cleared whenever a `ppoll` ends, and on the recorded slot being one of the existing
  queues; and that the count of a queue is right depends on what a receive removes. `Inv` has five parts, one
  per group of variables: `QueuesPart`, `HistoryPart`, `ConfigPart` (`RecordOK` for every tracee), `LifePart` and
  `FailedPart`. Facts shared by actions are lemmas about the operators: what waking (`WakeOK`), parking
  (`ParkOK`), tidying (`TidyOK`) and answering (`AnswerOK`) do to a record, what
  `sysvipc_do_msgrcv` returns (`DoMsgrcvType`) and what consuming does to a queue (`ConsumeOK`).
- `SysVMsgProofs.DInv`. "At most once" and "in order" speak of the history only. What carries them is a ledger: every message
  that was sent is queued in one slot, was handed to one receiver, or went with a removed queue, and never two of these
  (`SlotsPart`, `LedgerPart`), and what left a queue was sent before what is still in it, type by type (`OrderPart`). `SleepersWereConsidered` says why a sleeper may
  sleep: every message that was queued for it was announced to somebody.
- `SysVSemProofs.Inv`. That what is done is what is told is a sum over the tracees; it is kept because a waiting record has done
  nothing and is on a set that exists (`SleeperOK`), and because an effect not told yet belongs to a call about to report 0
  (`DoneOK`). That nobody sleeps for nothing needs a fact about `sysvipc_sem_check`: operations that only take and fail
  also fail on smaller values (`CheckLess`), so no call executed later in the walk makes an earlier one possible. `WalkOK` is
  what holds after each tracee of the walk. `Recursion` and `Induction` are proved over `0 .. n`, on
  sets of numbers, and give what the three recursive functions compute. `Inv` was model-checked first, with
  an operation that mixes IPC_NOWAIT with waiting.
- `TraceesProofs.OkInv`. While no assertion has failed, the links agree (`Agree`): the counts are exact (`Counted`), no link dangles
  (`Linked`), zombies are gone in the kernel (`ZombiesGone`, without which a tracee could be counted twice), and a report
  comes from where it can (`Reported`). PRoot's functions map a state to a state; of each it is shown that it leaves the links
  alone (`Quiet`), relinks one ptracee and one counter (`Relinked`) or is a chain of such (`Fine`, which is transitive).
  `remove_tracee` alone takes a tracee off the list (`Left`). It was model-checked on the run's instance first.
- `SyscallStopsProofs.Inv`. For each place a tracee can be stopped at, what PRoot remembers there: eight parts that relate
  `k` (where the process is, which translations its call had) and `tr` (`status`, `restart_how`, `seccomp`, the pending exit,
  the chain). It was model-checked on the run's instance first.
- `SysVShmProofs.Inv`. A segment can be freed while a request of the helper is still in its pipe; `FreedNotHeld` says
  that no FREE request in the pipe names the descriptor of a valid segment, `FdKnown` that the helper holds what PRoot
  records, `UnbornUnmapped` that a process that does not exist maps nothing (which is why `ForkAssumption` is needed), and
  `RecordsOK` is about the waits. It was model-checked on the run's instance first.
- `ProcessesProofs.Inv`, of `Execve`. What PRoot records is right at the end of a call because of what it is in the middle
  of one: `new_exe` and `host_exe` are alike, whatever refused call left them, and go to `exe` only when the kernel has accepted
  the program; the word size and the mask are those of the program unless `late` has "kernel", and there is load information
  unless it has "load" (`ProgramPart`); a heap
  and an address space have the same sharers (`SharePart`), of which one at most is in brk(2) (`OnePart`), so that the call it
  was translated to still fits the heap when it returns (`BrkOK`), and the mapping is as long as the recorded size, rounded up, plus the
  page that is never given (`HeapPart`). A child and a program that leaves a shared memory find an identifier left because
  there are as many as tracees (`FreeIs`, by the pigeonhole principle). It was model-checked first, with three tracees and five calls.
- `FilesProofs.Inv`, of `MetaFiles`. The handlers of the entry write meta files for a call the kernel has not performed. Inductive is
  that meanwhile the meta files are ahead of the files by exactly that call if it will succeed, and not at all if it will be
  refused (`Ahead`); that no handler writes for a call the kernel then refuses is what the lemma of each handler shows.
- `FilesProofs.IdsInv`, of `FakeIds`. PRoot's rules and Linux's are written differently: PRoot keeps one capability flag,
  Linux a permitted and an effective set, and each tests its own. They grant the same calls because both sides hold the same ids, PRoot's flag
  and Linux's permitted capability are both "one of the user ids is root", and the effective capability is "the effective id is
  root" (`Alike`). `SetAlike` and `ReplacedAlike` keep that for any change of ids. A first attempt failed at `SetReIdAlike`, for a
  setreuid that exchanges three different ids: it is the quirk "both", which the run had too few ids to reach.
- `FilesProofs.ModesInv`, of `FakeModes`. In the middle of a call the modes of the files are not those wanted, and not even those
  that will be put back are: the node of a chmod has the mode to come (`InCall`, per path). That the mode found is what comes back rests
  on each path having one node at most (`NodesOK`), and that a stat is not lied to on its own path having none. `DoesIsWanted` then
  says that the kernel's call and the putting back commute. It was model-checked first, with two tracees and three calls.
- `FilesProofs.BindInv`, of `Bindings`. Every table in use is `Rooted`: something is bound to `/`, and the lists are in order pair by pair
  and hold the same bindings, each once (`GoodLists`). The last is what replacing needs: the binding that goes
  from one list must be there once in the other. `InsortGood` is the core: after everything the new binding contains, or at the head, is
  a right place because containment is an order and the list was in order. The tables of the start and of a clone and
  the loop of `pivot_root` repeat an insertion or a removal, so that they keep it by induction over their steps
  (`Recursion`, `Induction`); in what order the loop takes the bindings, and whether a binding of its
  snapshot is still there, does not matter.
- `FilesProofs.AnswersInv`, of `Answers`. Between the kernel's rename and its exit the name PRoot keeps of a working directory is an old one;
  inductive is that it is the right one already or that this exit makes it so (`CwdPart`, which also says of a removed directory that no other has
  its name). That moving a name cannot make it another's rests on a fact about the tree: all that leads to a directory is one, so that nothing is
  below a free name (`PlacesPart`). A socket's host path is where a connect looks and fits in `sun_path` (`SocketPart`): once
  shortened a name is not too long, so that it is not shortened again. The number in `auxv_fd` may be stale under the filter; then no
  read of it is a stop (`FilePart`: whenever the next call of a tracee stops, the number is that of the file).
- `ProcessesProofs.PipeInv`, of `PipeShadow`: a writer that did not write has an empty pipe (`Fresh`), so that the loop, which gives up the
  shadow of a pipe with data, leaves it alone. How each action can take the last reader away is a lemma (`ReaderGoes`).
- `ProcessesProofs.JitInv`, of `Jit`: who holds the lock (`LockPart`), how far the writer's stores are (`StoresPart`), and for each reader
  which of the fields it copied are still those of the entry if the sequence number did not move (`LookupsPart`).
- `ProcessesProofs.PortInv`, of `Ports`: every socket has the port its own leads to through the table, but that of the
  pending port, which no listen has been told of (`SockPart`). That a new entry only moves this one rests on a lemma about
  the table (`EntryAdded`: probing finds every other port where it was), and on the pending port being no other socket's
  and in no bind on its way (`BindOK`). A first attempt failed at `BindOK`, for a bind that the kernel refuses: it is the
  quirk "refused", which two calls are too few to reach.
- `ProcessesProofs.NetInv`, of `Netlink`. A refusal is recognised by descriptor and sequence number only. It is the one expected because what
  waits on a real socket answers the request of its one reader, a status waits alone, and it is expected (`netlink_ack_*`) exactly if
  the namespace is pretended and the socket was recorded (`QueuePart`, `HostPart`); who has the host's namespace expects none (`QuietPart`). `TrackedPart` says that a
  tracked descriptor has one entry and, without the filter, is a substitute, and that a recorded one is real, which the swap in
  `unmark_fake_netlink_fd` (`UnmarkedIs`) and the copies for a child keep. It was model-checked first, with two tracees and three requests.
- `Link2SymlinkProofs.Inv`. In the middle of a handler names lead nowhere and counts are wrong. Inductive is where in the
  handler PRoot is: `dir` comes from a directory that was in order (`WF`) by the host calls done so far, `todo` holds the
  rest of the plan, and guests still see the old directory (`Shows`). `DecStage`, `LinkStage` and `UndoStage` are the plans;
  their lemmas say that every call of them is possible, that no stage loses a file, that a failure is either not seen yet
  or taken back, and that the end is in order again. The old directory is an unbounded quantifier, so that this
  invariant is proved and not model-checked. For the refinement, `May` is the next-state relation of `HardLinks` on values.

Every module is laid out alike: lemmas about operators and records, one lemma per action of Next (with one step per conjunct that
the action can disturb), the initial states, `Invariance` or its like, and the theorems.

Only model-checked: the properties of the modules not named in the table. In particular:

- `StoppedHasCause`: it does not hold for every value of the constants (see Findings: with four processes a held back
  SIGSTOP is forgotten), so there is no theorem; the run shows it for the three processes of its instance.
- `ResolvesLikeKernel`, `LoadedLikeKernel`, `LazyIsTransparent` and `SavedIsTheView`: they are about walks over
  components, headers and trees, and what such a walk computes for every input needs induction over data. The
  loops of `SysVSem` and `Bindings` run over `0 .. n` and carry a value, which `Recursion` covers; these are not of that form.
- `Terminates`, `AnswersArrive`, `BlockedWriterIsFreed`: liveness under fairness is out of the prover's reach, as is ENABLED.

## Not modelled

The components with status `not_modelled` in `PROJECT.json`, with the reason there; a component that is
`partly` modelled names there what is left out. In general: the cases of `enter.c` that only
translate a path argument (`Paths` is what they call), string formats, archive formats, option parsing,
and failures to read or write a tracee's registers or memory. Inside the modelled parts: the
contents of messages and segments, timeouts of semtimedop as durations (a timeout is an
interruption), several IPC namespaces, the libandroid-shmem mode of shared memory, threads and
CLONE_PARENT in `Tracees`, single stepping and the pokedata workaround.

Known hazards that no property is about: one `suppressed_signal` slot per tracee (a second held
signal replaces the first, `tracee/event.c:846`); ids of IPC objects after 32768 removals
(`sysvipc_internal.h:218`); an error of the chained mmap recorded as an address
(`sysvipc_shm.c:522`); an event handled twice when its waiting ptracer was killed (`ptrace/wait.c:387`).
In fake_id0, read and not modelled: a path used before it is set (`chroot.c:90`), a group id compared
with a user id (`stat.c:171`).

## Plan

The model is complete as far as it is planned. What is left is proof, in this order:

1. `Talloc`: `OwnershipIsSound`. It is about a tree that `_talloc_free` walks; what is needed is an induction over its height, which
   the prover cannot instantiate, so a proof has to bring the walk into the state (one action per chunk) first.
2. `Tracees`: `StoppedHasCause`, once `ptrace.c:169` keeps a pending SIGSTOP, or for the processes whose FORK event was handled.
