-------------------------------- MODULE Kompat --------------------------------
(***************************************************************************)
(* extension/kompat/kompat.c: a system call that the kernel is too old for *)
(* is replaced by an older one; the flags the older one does not take are  *)
(* given to the file descriptor by calls chained to it; the release, the   *)
(* names and the auxiliary vectors are those of the virtual kernel.        *)
(*                                                                         *)
(* An argument is the word for what it means, so that a register holds the *)
(* right thing when it has the word the call that is made expects there.   *)
(* A release is its third number, 2.6.x; "unknown" is a flag that the call *)
(* does not have.  Quirks: "mask" the calls that wait with a signal mask,  *)
(* of which pselect6 has a struct timespec where select has a struct       *)
(* timeval; "follow" linkat is asked to follow links.                      *)
(***************************************************************************)
EXTENDS Naturals, Integers, Sequences, FiniteSets, SequencesExt

CONSTANTS Releases,     \* of the actual kernel; 0 is PROOT_FORCE_KOMPAT
          Virtual,      \* the releases that are asked for
          Avoided,      \* the calls this architecture does not have
          MaxCalls, Quirks

VARIABLES actual_release, virtual_release,
          call,         \* the call, as it is made and as it was asked
          regs,         \* its arguments
          chain,        \* the fcntl calls chained to it
          fds,          \* the flags of each descriptor it made
          utsname, calls
vars == <<actual_release, virtual_release, call, regs, chain, fds, utsname, calls>>

(* External: the arguments of each call, in order, and where it appeared.  *)
Sig == [
  accept |-> <<"fd", "addr", "len">>, accept4 |-> <<"fd", "addr", "len", "flags">>,
  dup2 |-> <<"old", "new">>, dup3 |-> <<"old", "new", "flags">>,
  epoll_create |-> <<"positive">>, epoll_create1 |-> <<"flags">>,
  epoll_wait |-> <<"fd", "events", "max", "timeout">>, epoll_pwait |-> <<"fd", "events", "max", "timeout", "mask">>,
  eventfd |-> <<"count">>, eventfd2 |-> <<"count", "flags">>,
  access |-> <<"path", "mode">>, faccessat |-> <<"dirfd", "path", "mode">>,
  chmod |-> <<"path", "mode">>, fchmodat |-> <<"dirfd", "path", "mode">>,
  chown |-> <<"path", "uid", "gid">>, lchown |-> <<"path", "uid", "gid">>, fchownat |-> <<"dirfd", "path", "uid", "gid", "flags">>,
  stat |-> <<"path", "buf">>, lstat |-> <<"path", "buf">>, newfstatat |-> <<"dirfd", "path", "buf", "flags">>,
  utimes |-> <<"path", "times">>, futimesat |-> <<"dirfd", "path", "times">>,
  inotify_init |-> <<>>, inotify_init1 |-> <<"flags">>,
  link |-> <<"path", "path2">>, linkat |-> <<"dirfd", "path", "dirfd2", "path2", "flags">>,
  mkdir |-> <<"path", "mode">>, mkdirat |-> <<"dirfd", "path", "mode">>,
  mknod |-> <<"path", "mode", "dev">>, mknodat |-> <<"dirfd", "path", "mode", "dev">>,
  open |-> <<"path", "flags", "mode">>, openat |-> <<"dirfd", "path", "flags", "mode">>,
  pipe |-> <<"fds">>, pipe2 |-> <<"fds", "flags">>,
  select |-> <<"n", "in", "out", "ex", "timeval">>, pselect6 |-> <<"n", "in", "out", "ex", "timespec", "mask">>,
  readlink |-> <<"path", "buf", "size">>, readlinkat |-> <<"dirfd", "path", "buf", "size">>,
  rename |-> <<"path", "path2">>, renameat |-> <<"dirfd", "path", "dirfd2", "path2">>,
  signalfd |-> <<"fd", "mask", "size", "zero">>, signalfd4 |-> <<"fd", "mask", "size", "flags">>,
  socket |-> <<"domain", "flags", "protocol">>, socketpair |-> <<"domain", "flags", "protocol", "fds">>,
  timerfd_create |-> <<"clock", "flags">>, fcntl |-> <<"fd", "flags">>,
  symlink |-> <<"target", "path">>, symlinkat |-> <<"target", "dirfd", "path">>,
  unlink |-> <<"path">>, rmdir |-> <<"path">>, unlinkat |-> <<"dirfd", "path", "flags">> ]

At == {"faccessat", "fchmodat", "fchownat", "newfstatat", "futimesat", "linkat", "mkdirat", "mknodat", "openat",
       "readlinkat", "renameat", "symlinkat", "unlinkat", "pselect6"}
Since(c) ==
  CASE c \in At -> 16 [] c = "epoll_pwait" -> 19 [] c = "accept4" -> 28
    [] c \in {"dup3", "epoll_create1", "eventfd2", "inotify_init1", "pipe2", "signalfd4"} -> 27
    [] OTHER -> 0
(* Since when the flags of a call are known, for the calls that were there *)
(* before them.                                                            *)
FlagsSince(c) ==
  CASE c \in {"open", "openat"} -> 23 [] c = "fcntl" -> 24 [] c \in {"socket", "socketpair", "timerfd_create"} -> 27 [] OTHER -> 0

Calls == {c \in DOMAIN Sig : Since(c) > 0 \/ FlagsSince(c) > 0}
FlagsOf(c) ==
  CASE c \in {"accept4", "epoll_create1", "inotify_init1", "pipe2", "signalfd4", "socket", "socketpair", "timerfd_create"} -> {"cloexec", "nonblock"}
    [] c = "eventfd2" -> {"cloexec", "nonblock", "semaphore"}
    [] c \in {"dup3", "open", "openat", "fcntl"} -> {"cloexec"}
    [] c = "fchownat" -> {"nofollow"} [] c = "newfstatat" -> {"nofollow", "unknown"}
    [] c = "unlinkat" -> {"removedir"}
    [] c = "linkat" -> {"unknown"} \cup ({"follow"} \cap Quirks)
    [] OTHER -> {}
Waits == {"pselect6", "epoll_pwait"}
MakesFd == {c \in Calls : FlagsOf(c) \cap {"cloexec"} # {}}
FdFlags == {"cloexec", "nonblock"}

(* The descriptors a call makes, in the order they are told.               *)
Made(c) == IF c \notin MakesFd THEN {} ELSE IF c \in {"pipe2", "socketpair"} THEN {1, 2} ELSE {1}

Idle == [was |-> "none", now |-> "none", flags |-> {}, same |-> FALSE, stage |-> "idle", result |-> "none"]
Init ==
  /\ actual_release \in Releases /\ virtual_release \in Virtual
  /\ call = Idle /\ regs = <<>> /\ chain = <<>> /\ fds = <<>>
  /\ utsname = [node |-> "host", told |-> "host", release |-> virtual_release] /\ calls = 0

-----------------------------------------------------------------------------
needs_kompat(expected) == expected > actual_release /\ expected <= virtual_release

(* The call that replaces c, and the arguments that are moved: from the    *)
(* first on, how many, and by how many places.                             *)
Replaced(c, flags) ==
  CASE c = "accept4" -> "accept" [] c = "dup3" -> "dup2" [] c = "epoll_create1" -> "epoll_create"
    [] c = "epoll_pwait" -> "epoll_wait" [] c = "eventfd2" -> "eventfd" [] c = "faccessat" -> "access"
    [] c = "fchmodat" -> "chmod" [] c = "fchownat" -> (IF "nofollow" \in flags THEN "lchown" ELSE "chown")
    [] c = "newfstatat" -> (IF "nofollow" \in flags THEN "lstat" ELSE "stat")
    [] c = "futimesat" -> "utimes" [] c = "inotify_init1" -> "inotify_init" [] c = "linkat" -> "link"
    [] c = "mkdirat" -> "mkdir" [] c = "mknodat" -> "mknod" [] c = "openat" -> "open" [] c = "pipe2" -> "pipe"
    [] c = "pselect6" -> "select" [] c = "readlinkat" -> "readlink" [] c = "renameat" -> "rename"
    [] c = "signalfd4" -> "signalfd" [] c = "symlinkat" -> "symlink"
    [] c = "unlinkat" -> (IF "removedir" \in flags THEN "rmdir" ELSE "unlink")
    [] OTHER -> c

Shift(first, nb, offset) == [first |-> first, nb |-> nb, offset |-> offset]

Shifts(c) ==
  CASE c \in {"faccessat", "fchmodat", "newfstatat", "futimesat", "mkdirat"}  -> <<Shift(2, 2, -1)>>
    [] c \in {"fchownat", "mknodat", "openat", "readlinkat"}                  -> <<Shift(2, 3, -1)>>
    [] c \in {"linkat", "renameat"}                                           -> <<Shift(2, 1, -1), Shift(4, 1, -2)>>
    [] c = "symlinkat"                                                        -> <<Shift(3, 1, -1)>>
    [] c = "unlinkat"                                                         -> <<Shift(2, 1, -1)>>
    [] OTHER                                                                  -> <<>>

Shifted(args, s) ==
  FoldLeft(LAMBDA a, j : [a EXCEPT ![s.first + j - 1 + s.offset] = a[s.first + j - 1]], args, [j \in 1 .. s.nb |-> j])

modify_syscall(c) == needs_kompat(Since(c)) /\ Since(c) > 0 /\ Replaced(c, {}) \notin Avoided

(* handle_sysenter_end.  What is written in the registers besides.         *)
Poked(c, flags, args) ==
  CASE c = "epoll_create1" -> [args EXCEPT ![1] = "positive"]
    [] c = "signalfd4"     -> [args EXCEPT ![4] = "zero"]
    [] OTHER               -> args

discard_fd_flags(c) == FlagsSince(c) > 0 /\ needs_kompat(FlagsSince(c))

(* EINVAL; dup3 of a descriptor to itself, which dup2 takes, whatever the  *)
(* release.                                                                *)
Refuses(c, flags, same) ==
  \/ c = "eventfd2" /\ modify_syscall(c) /\ "semaphore" \in flags
  \/ c = "dup3" /\ same
  \/ c \in {"linkat", "newfstatat"} /\ "unknown" \in flags

Enter(c, flags, same) ==
  LET modified == modify_syscall(c)
      args     == IF modified THEN Poked(c, flags, FoldLeft(Shifted, Sig[c], Shifts(c))) ELSE Sig[c]
  IN  /\ call.stage = "idle" /\ calls < MaxCalls /\ calls' = calls + 1
      /\ regs' = args
      /\ call' = [was |-> c, now |-> IF modified THEN Replaced(c, flags) ELSE c, flags |-> flags, same |-> same,
                  kept |-> IF discard_fd_flags(c) THEN flags \ FdFlags ELSE flags,
                  stage |-> IF Refuses(c, flags, same) THEN "refused" ELSE "kernel", result |-> "none"]
      /\ UNCHANGED <<actual_release, virtual_release, chain, fds, utsname>>

(* External: the actual kernel.  It does not know what came later; forced  *)
(* to be old, it knows everything.                                         *)
Knows(since) == actual_release = 0 \/ since <= actual_release
Kernel ==
  /\ call.stage = "kernel"
  /\ \E ok \in {TRUE, FALSE} :
       /\ ok => /\ Knows(Since(call.now)) /\ (call.kept \cap FdFlags # {} => Knows(FlagsSince(call.now)))
       /\ call' = [call EXCEPT !.stage = "exit", !.result = IF ok THEN "ok" ELSE "error"]
       /\ LET given == IF \E i \in DOMAIN Sig[call.now] : Sig[call.now][i] = "flags" THEN call.kept \cap FdFlags ELSE {}
          IN  fds' = [f \in IF ok THEN Made(call.was) ELSE {} |-> given]
  /\ UNCHANGED <<actual_release, virtual_release, regs, chain, utsname, calls>>

(* emulate_fd_flags: the calls chained for each flag that was asked.       *)
Fcntl(f, flag) == [fd |-> f, flag |-> flag]
emulate_fd_flags(f, flags) ==
  (IF "cloexec" \in flags THEN <<Fcntl(f, "cloexec")>> ELSE <<>>)
    \o (IF "nonblock" \in flags THEN <<Fcntl(f, "nonblock")>> ELSE <<>>)

(* handle_sysexit_end; the numbers pipe2 and socketpair told are read back *)
(* from the memory of the tracee.                                          *)
OnlyFirst(made, flags) == emulate_fd_flags(1, flags)                             \* Fault
Emulated(made, flags) ==
  emulate_fd_flags(1, flags) \o (IF 2 \in made THEN emulate_fd_flags(2, flags) ELSE <<>>)
Exit ==
  /\ call.stage = "exit"
  /\ LET emulates == call.result = "ok" /\ call.was \in MakesFd /\ (call.now # call.was \/ discard_fd_flags(call.was))
     IN  chain' = IF emulates THEN Emulated(Made(call.was), call.flags \cap FdFlags) ELSE <<>>
  /\ call' = [call EXCEPT !.stage = "chain"]
  /\ UNCHANGED <<actual_release, virtual_release, regs, fds, utsname, calls>>

Chained ==
  /\ call.stage = "chain" /\ chain # <<>>
  /\ fds' = [fds EXCEPT ![Head(chain).fd] = @ \cup {Head(chain).flag}] /\ chain' = Tail(chain)
  /\ UNCHANGED <<actual_release, virtual_release, call, regs, utsname, calls>>

Return ==
  /\ \/ call.stage = "chain" /\ chain = <<>>
     \/ call.stage = "refused"
  /\ call' = [call EXCEPT !.stage = "done"]
  /\ UNCHANGED <<actual_release, virtual_release, regs, chain, fds, utsname, calls>>

Forget ==
  /\ call.stage = "done" /\ call' = Idle /\ regs' = <<>> /\ fds' = <<>>
  /\ UNCHANGED <<actual_release, virtual_release, chain, utsname, calls>>

(* sethostname and setdomainname, once the kernel has agreed; uname.       *)
SetName(n) ==
  /\ call.stage = "idle" /\ calls < MaxCalls /\ calls' = calls + 1
  /\ utsname' = [utsname EXCEPT !.node = n]
  /\ UNCHANGED <<actual_release, virtual_release, call, regs, chain, fds>>
Uname ==
  /\ call.stage = "idle" /\ utsname.told # utsname.node
  /\ utsname' = [utsname EXCEPT !.told = utsname.node]
  /\ UNCHANGED <<actual_release, virtual_release, call, regs, chain, fds, calls>>

-----------------------------------------------------------------------------
(* adjust_elf_auxv, on the types of the vectors: the release cannot be     *)
(* read from the kernel's page, and there is an AT_RANDOM.                 *)
adjust_elf_auxv(auxv) ==
  LET stop   == IF actual_release # 0 THEN SelectInSeq(auxv, LAMBDA v : v = "RANDOM") ELSE 0
      hidden == [i \in DOMAIN auxv |-> IF auxv[i] \in {"SYSINFO", "SYSINFO_EHDR"} /\ (stop = 0 \/ i < stop) THEN "IGNORE" ELSE auxv[i]]
  IN  IF stop # 0 \/ ~needs_kompat(29) THEN hidden ELSE Append(hidden, "RANDOM")

Auxvs == {<<"SYSINFO_EHDR", "HWCAP">> \o (IF Knows(29) THEN <<"RANDOM">> ELSE <<>>)}

Next ==
  \/ \E c \in Calls \ (IF "mask" \in Quirks THEN {} ELSE Waits) : \E flags \in SUBSET FlagsOf(c) :
       \E same \in {FALSE} \cup {c = "dup3"} : Enter(c, flags, same)
  \/ Kernel \/ Exit \/ Chained \/ Return \/ Forget
  \/ SetName("guest") \/ Uname

Spec == Init /\ [][Next]_vars

-----------------------------------------------------------------------------
Asked == call.flags \cap FdFlags
Newest == IF actual_release > virtual_release THEN actual_release ELSE virtual_release

(* The guest has a kernel of the release it is told: a call that kernel    *)
(* has finds each of its arguments where the call that is really made      *)
(* expects it and makes each descriptor with exactly the flags that were   *)
(* asked for, or is refused, never done otherwise: nor is what it refuses  *)
(* done because an older one takes it.  The vectors do not show the        *)
(* kernel's page and end with AT_RANDOM once such a kernel has it.         *)
LikeTheVirtualKernel ==
  /\ (call.stage = "done" /\ call.result = "ok") =>
       /\ Since(call.was) <= Newest \/ actual_release = 0
       /\ \A i \in DOMAIN Sig[call.now] : regs[i] = Sig[call.now][i]
       /\ \A i \in DOMAIN Sig[call.was] :
            \/ \E k \in DOMAIN Sig[call.now] : Sig[call.now][k] = Sig[call.was][i]
            \/ Sig[call.was][i] \in {"dirfd", "dirfd2"}
            \/ Sig[call.was][i] = "flags" /\ (call.now # call.was => call.flags \cap {"semaphore", "follow"} = {})
       /\ fds = [f \in Made(call.was) |-> Asked]
       /\ ~call.same /\ "unknown" \notin call.flags
       /\ "nofollow" \in call.flags => call.now \in {"lchown", "lstat", "fchownat", "newfstatat"}
  /\ \A auxv \in Auxvs :
       LET new == adjust_elf_auxv(auxv)
       IN  /\ \A i \in DOMAIN new : new[i] \notin {"SYSINFO", "SYSINFO_EHDR"}
           /\ Newest >= 29 => \E i \in DOMAIN new : new[i] = "RANDOM"
=============================================================================
