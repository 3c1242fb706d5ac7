----------------------------- MODULE MCProcesses -----------------------------
(***************************************************************************)
(* What guests see of their programs and of what these talk to: execve and *)
(* the loader, path resolution, kompat, netlink sockets, ports and pipes;  *)
(* and two parts of PRoot itself, talloc and the shared cache of the jit.  *)
(* The modules share no state, so a behaviour exercises one of them, its   *)
(* part.  Execve and PipeShadow have variables of their own, the other     *)
(* modules take turns with v1 to v10.                                      *)
(***************************************************************************)
EXTENDS Execve, PipeShadow, TLC

CONSTANT Parts     \* those a run is about

VARIABLES part, v1, v2, v3, v4, v5, v6, v7, v8, v9, v10
all == <<vars, pipeVars, part, v1, v2, v3, v4, v5, v6, v7, v8, v9, v10>>

TwoTracees == {1, 2}
TwoFds == {1, 2}

-----------------------------------------------------------------------------
(* A root file system with one binding inside it and /proc.  Three places  *)
(* hold a link, to a directory, to a file, to one another or to themselves *)
(* (through the host's names too), or something else.                      *)
B == INSTANCE BindingTable
Tables ==
  LET root == B!Binding(<<"r">>, <<>>, TRUE)
      first == [guest |-> <<root>>, host |-> <<root>>]
  IN  {B!insort_binding(B!insort_binding(first, B!Binding(<<"h">>, <<"a", "b">>, TRUE)),
                        B!Binding(<<"proc">>, <<"proc">>, TRUE))}
Named(abs, names, slash) == [abs |-> abs, names |-> names, slash |-> slash]
Dir == [kind |-> "dir"]
Plain == [kind |-> "file"]
Link(abs, names) == [kind |-> "link", to |-> Named(abs, names, FALSE)]
Fixed == [h \in {<<>>, <<"r">>, <<"r", "a">>, <<"h">>, <<"proc">>, <<"proc", "1">>,
                 <<"proc", "1", "fd">>} |-> Dir]
         @@ [h \in {<<"r", "f">>, <<"h", "f">>} |-> Plain]
         @@ (<<"proc", "self">> :> Link(FALSE, <<"1">>))
         @@ (<<"proc", "1", "cwd">> :> Link(TRUE, <<"r", "a">>))
         @@ (<<"proc", "1", "fd", "3">> :> Link(TRUE, <<"h", "n">>))
Targets == {Link(TRUE, <<"a">>), Link(FALSE, <<"..", "l">>), Link(TRUE, <<"r", "a", "b", "n">>),
            Link(TRUE, <<"h", "f">>), Dir}
Trees ==
  {Fixed @@ (<<"r", "l">> :> x) @@ (<<"r", "a", "m">> :> y) @@ (<<"h", "n">> :> z) :
     x \in {Link(TRUE, <<"a">>), Link(TRUE, <<"a", "m">>), Link(FALSE, <<".", "f">>), Dir},
     y \in Targets, z \in {Dir, Link(TRUE, <<"a", "m">>)}}
Swapped(tree) ==
  {[tree EXCEPT ![<<"r", "a", "m">>] = x] : x \in {Link(FALSE, <<"..", "l">>), Dir}} \ {tree}
Names ==
  {<<"l">>, <<"l", "m">>, <<"l", "..", "f">>, <<"a", "b", "n">>, <<"a", "b", "n", "m">>,
   <<"a", "m", "b", "n">>, <<"l", "b", ".", "f">>, <<"proc", "self", "cwd", "m">>,
   <<"proc", "self", "fd", "3">>, <<"proc", "1", "fd", "3", "m">>, <<"a", "m", ".">>, <<"..">>}
Requests ==
  {[base |-> B!NoPath, path |-> Named(TRUE, n, FALSE), deref |-> d] : n \in Names, d \in BOOLEAN}
  \cup {[base |-> B!NoPath, path |-> Named(FALSE, n, s), deref |-> d] :
          n \in {<<"m">>, <<"..", "l">>, <<"b", "n">>}, s \in BOOLEAN, d \in BOOLEAN}
  \cup {[base |-> h, path |-> Named(FALSE, <<"n">>, FALSE), deref |-> TRUE] :
          h \in {<<"h">>, <<"etc">>}}
Cwd == <<"a">>
PathsPart == INSTANCE Paths WITH
  Pid <- "1", MAXSYMLINKS <- 3, MaxChanges <- 1,
  lists <- v1, tree <- v2, request <- v3, frames <- v4, gp <- v5, outcome <- v6, changes <- v7

Sockets == {"s", "t"}
NetlinkPart == INSTANCE Netlink WITH
  Tracees <- TwoTracees, Fds <- TwoFds, MAX_FAKE_NETLINK_FDS <- 2,
  MAX_NETLINK_ROUTE_FDS <- 1, MaxItems <- 1,
  Seqs <- {1, 2}, MaxSends <- 2,
  host <- v1, alive <- v2, files <- v3, queue <- v4, fake <- v5, route <- v6, netns <- v7,
  ack <- v8, guest <- v9, sends <- v10

FourChunks == {"c1", "c2", "c3", "c4"}
TallocPart == INSTANCE Talloc WITH
  Chunks <- FourChunks, PoolSize <- 3, MaxDestructors <- 1, MaxCalls <- 5, Cycles <- FALSE,
  m <- v1, calls <- v2, ret <- v3, done <- v4, before <- v5

GuestPaths == {"g1", "g2"}
HostPaths == {"h1", "h2"}
JitPart == INSTANCE Jit WITH
  Guests <- GuestPaths, Hosts <- HostPaths, Tracees <- {"t1"}, Entries <- {0, 1},
  MaxRetries <- 0, MaxWrites <- 2, SeqMod <- 8, Weak <- FALSE,
  idx <- v1, seqlock <- v2, entries <- v3, pending <- v4, writing <- v5, looking <- v6,
  current <- v7, writes <- v8

(* Programs of two segments, with every remainder of a page of 4 that the  *)
(* end of the file and the start of a segment can have, position dependent *)
(* or not, with an interpreter or without; and what is not a program.      *)
Seg(v, o, f, x) ==
  [type |-> "LOAD", vaddr |-> v, offset |-> o, filesz |-> f, memsz |-> f + x, exec |-> FALSE]
Header(t, e) == [type |-> t, exec |-> e]
Interp == Header("INTERP", FALSE)
FileOf(type, hs, entry) ==
  [ident |-> "elf", type |-> type, phentsize |-> "known", mode |-> "ok", headers |-> hs,
   entry |-> entry, phoff |-> 0, size |-> 17]
LoaderPart == INSTANCE Loader WITH
  PageSize <- 4, EXEC_PIC_ADDRESS <- 40, INTERP_PIC_ADDRESS <- 80,
  prog <- v1, interp <- v2, script <- v3, cursor <- v4, mem <- v5, fd <- v6, at_base <- v7,
  reset_at_base <- v8, started <- v9, stage <- v10
Loaded ==
  {FileOf(t, <<Seg(v, v % 4, f, x), Seg(LoaderPart!RoundUp(v + f + x) + k, 8 + k, g, y)>> \o end, v) :
     t \in {"exec", "dyn"}, v \in {0, 1}, f \in {3, 4}, x \in {0, 2}, k \in {0, 1, 3},
     g \in {0, 2, 5}, y \in {0, 1, 4, 6}, end \in {<<>>, <<Interp>>}}
  \cup {FileOf("exec", <<Seg(4, 4, 4, 0)>>, 4)}
Odd ==
  LET ok == FileOf("dyn", <<Seg(0, 0, 4, 0), Interp, Header("STACK", TRUE), Header("NOTE", FALSE)>>, 0)
  IN  {ok, [ok EXCEPT !.ident = "text"], [ok EXCEPT !.type = "rel"],
       [ok EXCEPT !.phentsize = "other"], [ok EXCEPT !.headers = @ \o <<Interp>>]}
Ldso == FileOf("dyn", <<Seg(0, 0, 3, 0), Seg(4, 4, 2, 3), Header("STACK", FALSE)>>, 1)
Interps ==
  {Ldso, [Ldso EXCEPT !.mode = "missing"], [Ldso EXCEPT !.mode = "noexec"],
   [Ldso EXCEPT !.ident = "text"],
   [Ldso EXCEPT !.headers = <<Interp>> \o @ \o <<Header("STACK", TRUE)>>]}
LoaderInit ==
  \/ \E p \in {q \in Loaded : LoaderPart!Usual(q)} : LoaderPart!InitWith(p, Ldso)
  \/ \E p \in Odd, i \in Interps : LoaderPart!InitWith(p, i)

(* Programs of the guest and of the host, a script, a script of a script,  *)
(* one of a program of the host, one that names itself and one that names  *)
(* nothing.                                                                *)
Prog(kind, rpath) == [kind |-> kind, rpath |-> rpath, runpath |-> <<>>]
Script(by, arg, eof) == [kind |-> "script", interp |-> by, argument |-> arg, eof |-> eof]
ContentOf(f) ==
  CASE f = "bin"  -> Prog("guest", <<>>)
    [] f = "tool" -> Prog("host", IF "rpath" \in Quirks THEN <<"r">> ELSE <<>>)
    [] f = "qemu" -> Prog("host", <<>>)
    [] f = "s1"   -> Script("bin", "-x", "eof" \in Quirks)
    [] f = "s2"   -> Script("s1", "", FALSE)
    [] f = "s3"   -> Script("tool", "", FALSE)
    [] f = "loop" -> Script("loop", "", FALSE)
    [] f = "dang" -> Script("gone", "", FALSE)
    [] OTHER      -> [kind |-> "none"]
Executed == {"bin", "tool", "s1", "s2", "s3", "loop", "dang"}
Qemu == <<"qemu", "-cpu">>
Values == {<< <<"guest", "a">> >>, << <<"guest", "b">> >>}
ExecArgsPart == INSTANCE ExecArgs WITH
  Files <- Executed, MAXSYMLINKS <- 4, MaxCalls <- 5,
  running <- v1, logical <- v2, host_ldso_paths <- v3, guest_ldso_paths <- v4, calls <- v5

KompatPart == INSTANCE Kompat WITH
  Releases <- {0, 15, 25, 30}, Virtual <- {20, 30}, Avoided <- {}, MaxCalls <- 2,
  actual_release <- v1, virtual_release <- v2, call <- v3, regs <- v4, chain <- v5, fds <- v6,
  utsname <- v7, calls <- v8

(* A table of four entries that a port hashes into from both ends, one of  *)
(* them taken by an option.                                                *)
Given == {<<3, 9>>}
PortsPart == INSTANCE Ports WITH
  Tracees <- TwoTracees, Fds <- {3, 4}, Asked <- {1, 3, 7}, Ephemeral <- {20, 21},
  PORTMAP_SIZE <- 4, PORT_THRESHOLD <- 4, PORT_ADDITION <- 10, MaxCalls <- 2,
  mode <- v1, map <- v2, pending <- v3, extension <- v4, socks <- v5, call <- v6, calls <- v7

-----------------------------------------------------------------------------
(* Variables that a part does not use; the pipes and the program of the   *)
(* parts that are not about them.  What Execve does is the same for every  *)
(* tracee, so that tracee 1 may be the first one.                          *)
From9 == v9 = 0 /\ v10 = 0
From8 == v8 = 0 /\ From9
From6 == v6 = 0 /\ v7 = 0 /\ From8
All == v1 = 0 /\ v2 = 0 /\ v3 = 0 /\ v4 = 0 /\ v5 = 0 /\ From6
StillPipes == PipesInit /\ \A p, q \in Pipes, c \in Capacities : pipe[p].slots <= c
First == Init /\ 1 \in Live
Still == StillPipes /\ First /\ ~tracee[1].traced

AllInit ==
  /\ part \in Parts
  /\ \/ part = "execve" /\ All /\ StillPipes /\ First
     \/ /\ part = "pipes" /\ All /\ First /\ ~tracee[1].traced
        /\ PipesInit /\ pipe["p"].slots < pipe["q"].slots
     \/ part = "paths" /\ PathsPart!Init /\ From8 /\ Still
     \/ part = "netlink" /\ NetlinkPart!Init /\ ~(v1.blocked /\ v1.filter) /\ Still
     \/ part = "talloc" /\ TallocPart!Init /\ From6 /\ Still
     \/ part = "jit" /\ JitPart!Init /\ From9 /\ Still
     \/ part = "loader" /\ LoaderInit /\ Still
     \/ part = "args" /\ ExecArgsPart!Init /\ From6 /\ Still
     \/ part = "kompat" /\ KompatPart!Init /\ From9 /\ Still
     \/ part = "ports" /\ PortsPart!Init /\ From8 /\ Still

Others == UNCHANGED <<part, vars, pipeVars>>
InExecve == part = "execve" /\ UNCHANGED <<v1, v2, v3, v4, v5, v6, v7, v8, v9, v10, part, pipeVars>>
InPipes == part = "pipes" /\ UNCHANGED <<v1, v2, v3, v4, v5, v6, v7, v8, v9, v10, part, vars>>
InPaths == part = "paths" /\ Others /\ UNCHANGED <<v8, v9, v10>>
InNetlink == part = "netlink" /\ Others

AllNext ==
  \/ InExecve /\ Next
  \/ InPipes /\ PipesNext
  \/ InPaths /\ PathsPart!Next
  \/ InNetlink /\ NetlinkPart!Next
  \/ part = "talloc" /\ TallocPart!Next /\ Others /\ UNCHANGED <<v6, v7, v8, v9, v10>>
  \/ part = "jit" /\ JitPart!Next /\ Others /\ UNCHANGED <<v9, v10>>
  \/ part = "loader" /\ LoaderPart!Next /\ Others
  \/ part = "args" /\ ExecArgsPart!Next /\ Others /\ UNCHANGED <<v6, v7, v8, v9, v10>>
  \/ part = "kompat" /\ KompatPart!Next /\ Others /\ UNCHANGED <<v9, v10>>
  \/ part = "ports" /\ PortsPart!Next /\ Others /\ UNCHANGED <<v8, v9, v10>>

(* The fairness of the modules: PRoot goes on with what it resolves, a     *)
(* tracee that reads an answer goes on, and see PipeShadow.                *)
AllSpec ==
  /\ AllInit /\ [][AllNext]_all
  /\ WF_all(InPaths /\ PathsPart!Step)
  /\ \A t \in TwoTracees : WF_all(InNetlink /\ NetlinkPart!Read(t))
  /\ WF_all(InPipes /\ LoopTop) /\ WF_all(InPipes /\ Waits) /\ WF_all(InPipes /\ Alarm)
  /\ WF_all(InPipes /\ Tick) /\ \A p \in Pipes : WF_all(InPipes /\ Unblock(p))

-----------------------------------------------------------------------------
(* The properties of the parts, each stated in full in its module.         *)

(* canon.c: a path resolves as the kernel would with mounts. *)
ResolvesLikeKernel == part = "paths" => PathsPart!ResolvesLikeKernel
(* canon.c: resolution ends, whatever other processes do to links. *)
Terminates == <>(part = "paths" => PathsPart!Ended)
(* enter.c: only substitutes are answered for, refusals are rewritten only where meant. *)
NetlinkIsHonest == [][part = "netlink" => NetlinkPart!HonestStep]_all
(* enter.c: a tracee that reads for its answer gets it. *)
AnswersArrive ==
  \A t \in TwoTracees :
    (part = "netlink" /\ NetlinkPart!Waits(t)) ~> (part = "netlink" => ~NetlinkPart!Waits(t))
(* talloc.c: no chunk in use has lost its parent, its references or its pool. *)
OwnershipIsSound == part = "talloc" => TallocPart!OwnershipIsSound
(* talloc.c: a free takes only what nothing keeps. *)
FreedIsUnkept == [][part = "talloc" => TallocPart!FreesUnkept]_all
(* jit: a hit is a path the cache held during the lookup. *)
HitIsCurrent == part = "jit" => JitPart!HitIsCurrent
(* execve, loader.c: memory and start are those of the kernel. *)
LoadedLikeKernel == part = "loader" => LoaderPart!LoadedLikeKernel
(* shebang.c, ldso.c: arguments and environment are those Linux gives. *)
ArgsLikeLinux == part = "args" => ExecArgsPart!ArgsLikeLinux
(* kompat.c: a replaced call does what the virtual kernel would. *)
LikeTheVirtualKernel == part = "kompat" => KompatPart!LikeTheVirtualKernel
(* portmap.c, port_switch.c: a connect to the port bound finds the socket. *)
PortsAreTheGuests == part = "ports" => PortsPart!PortsAreTheGuests
=============================================================================
