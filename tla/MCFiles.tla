------------------------------- MODULE MCFiles -------------------------------
(***************************************************************************)
(* What guests see of files and of their own identity: the extensions      *)
(* link2symlink, vdisk, fake_id0 and CARE, the bindings and the results    *)
(* that syscall/exit.c rewrites.  The modules share no state, so a         *)
(* behaviour exercises one of them, its part; the others stay as they are. *)
(* Link2Symlink has variables of its own, the other modules take turns     *)
(* with v1 to v12.                                                         *)
(***************************************************************************)
EXTENDS Link2Symlink

CONSTANT Parts      \* those a run is about

VARIABLES part, v1, v2, v3, v4, v5, v6, v7, v8, v9, v10, v11, v12
all == <<vars, part, v1, v2, v3, v4, v5, v6, v7, v8, v9, v10, v11, v12>>

-----------------------------------------------------------------------------
(* Two processes; a root file system or "/", nested bindings, a binding    *)
(* given twice, a mount point that a read-only root file system lacks.     *)
Bound(h, g) == [host |-> h, guest |-> g, startup |-> TRUE]
Arg(abs, path) == [abs |-> abs, path |-> path]
Startups ==
  {<<Bound(<<>>, <<>>), Bound(<<"h">>, <<"x">>)>>,
   <<Bound(<<"r">>, <<>>), Bound(<<"h">>, <<"x", "y">>), Bound(<<"h">>, <<"y", "x">>)>>}
Args == {Arg(TRUE, <<>>), Arg(TRUE, <<"x">>), Arg(TRUE, <<"x", "y">>), Arg(FALSE, <<"y">>)}
Procs == {"p1", "p2"}
Missing == {<<"y">>}
BindingsPart == INSTANCE Bindings WITH
  MaxDepth <- 2, MaxBindings <- 4, MaxTmpfs <- 1, MaxCalls <- 2,
  guest <- v1, host <- v2, ns <- v3, fs <- v4, cwd <- v5, newns <- v6, tmpfs <- v7,
  stale <- v8, calls <- v9

(* An ordinary image, one where a file has the name of a directory of      *)
(* PATH, and one where a file has the name of a mount point.               *)
DiskPaths ==
  {<<>>, <<".proot.jit.so">>, <<"bin">>, <<"etc">>, <<"etc", "hostname">>, <<"lib">>,
   <<"lib", "f">>, <<"lib", "sub">>, <<"lib", "sub", "g">>, <<"tmp">>, <<"tmp", "x">>,
   <<"root">>, <<"usr">>, <<"usr", "bin">>}
Old(files, dirs) ==
  [p \in DiskPaths |-> IF p \in files THEN "old"
                       ELSE IF p \in dirs \cup {<<>>} THEN "dir" ELSE "none"]
Images ==
  {Old({<<"etc", "hostname">>, <<"lib", "f">>, <<"lib", "sub", "g">>, <<"tmp", "x">>},
       {<<"bin">>, <<"etc">>, <<"lib">>, <<"lib", "sub">>, <<"tmp">>, <<"usr">>, <<"usr", "bin">>}),
   Old({<<"bin">>}, {<<"lib">>, <<"etc">>}),
   Old({<<"lib">>}, {<<"etc">>})}
Writable == DiskPaths \ {<<>>, <<".proot.jit.so">>, <<"usr">>, <<"root">>, <<"etc">>}
VdiskPart == INSTANCE Vdisk WITH
  Paths <- DiskPaths, SetupPaths <- TRUE, Excluded <- {"games"},
  MAX_LOADED_DIRS <- 4, MAX_DEPTH <- 20, MaxOps <- 2, MaxSessions <- 2,
  image <- v1, target <- v2, cache <- v3, loaded_dirs <- v4, persistent <- v5, phase <- v6,
  raw_tmp <- v7, path_env <- v8, view <- v9, told <- v10, ops <- v11, sessions <- v12

FakeIdsPart == INSTANCE FakeIds WITH
  Uids <- {0, 1, 2, 3}, Gids <- {0, 1}, MaxGroups <- 2, MaxCalls <- 3,
  config <- v1, auxv <- v2, kernel <- v3, told <- v4, calls <- v5
(* Users other than root differ in nothing but their numbers.              *)
SomeUser(config) == config.r["u"] \in {0, 1}

TwoFiles == {"f", "g"}
TwoTracees == {1, 2}
ReadModes == {{}, {"r"}}
FakeModesPart == INSTANCE FakeModes WITH
  Tracees <- TwoTracees, Files <- TwoFiles, Modes <- ReadModes, MaxCalls <- 3,
  mode <- v1, want <- v2, nodes <- v3, call <- v4, seen <- v5, calls <- v6

AccessModes == {[own |-> {"r", "w", "x"}, grp |-> {"r", "w"}, oth |-> {}],
                [own |-> {}, grp |-> {"r"}, oth |-> {"r"}]}
MetaFilesPart == INSTANCE MetaFiles WITH
  Files <- TwoFiles, Ids <- {"0", "1"}, MaxCalls <- 3, Modes <- AccessModes,
  there <- v1, meta <- v2, want <- v3, euid <- v4, ruid <- v5, call <- v6, result <- v7,
  calls <- v8

(* A file of a directory and one beside it, a fifo, a name not used yet;   *)
(* a size below and one above the limit of a MB of 4 bytes.                *)
CareDirs == {<<"d">>}
CareFiles == {<<"d", "x">>, <<"y">>}
CareFifos == {<<"f">>}
CareNames == CareDirs \cup CareFiles \cup CareFifos \cup {<<"z">>}
CareVolatile == {{}, CareDirs}
CarePart == INSTANCE Care WITH
  Tracees <- TwoTracees, Dirs <- CareDirs, Files <- CareFiles, Fifos <- CareFifos,
  Names <- CareNames, Sizes <- {3, 5}, Limits <- {1}, MB <- 4, INT_RANGE <- 16,
  Volatile <- CareVolatile, MaxCalls <- 2,
  inodes <- v1, names <- v2, care <- v3, limit <- v4, call <- v5, orig <- v6, touched <- v7,
  calls <- v8

(* A root file system two bytes away, buffers of every size around the     *)
(* length of a host path and of a guest path, a sun_path of four bytes.    *)
Places == {<<"a">>, <<"b">>, <<"a", "c">>, <<"b", "c">>}
FirstPlaces == <<(<<"a">>), (<<"a", "c">>)>>
Root == <<"r", "o">>
Sockets == {<<"s">>, <<"s", "l", "o">>, <<"s", "m">>}
Targets == {<<"r", "o", "x", "y">>, <<"h">>}
AnswersPart == INSTANCE Answers WITH
  Tracees <- TwoTracees, Dirs <- {1, 2}, SizeofPath <- 4,
  Sizes <- {0, 1, 2, 3, 4, 5, 8}, Fds <- {3, 4}, MaxCalls <- 3,
  shared <- v1, where <- v2, cwd <- v3, real <- v4, renaming <- v5, shorts <- v6, bound <- v7,
  files <- v8, auxv_fd <- v9, calls <- v10, filter <- v11, watched <- v12

-----------------------------------------------------------------------------
(* Variables that a part does not use.                                     *)
From11 == v11 = 0 /\ v12 = 0
From9 == v9 = 0 /\ v10 = 0 /\ From11
From7 == v7 = 0 /\ v8 = 0 /\ From9
All == v1 = 0 /\ v2 = 0 /\ v3 = 0 /\ v4 = 0 /\ v5 = 0 /\ v6 = 0 /\ From7

AllInit ==
  /\ part \in Parts /\ Init
  /\ \/ part = "links" /\ All
     \/ part = "bindings" /\ BindingsPart!Init /\ v10 = 0 /\ From11
     \/ part = "vdisk" /\ VdiskPart!Init
     \/ part = "ids" /\ FakeIdsPart!Init /\ SomeUser(v1) /\ v6 = 0 /\ From7
     \/ part = "modes" /\ FakeModesPart!Init /\ From7
     \/ part = "meta" /\ MetaFilesPart!Init /\ From9
     \/ part = "care" /\ CarePart!Init /\ From9
     \/ part = "answers" /\ AnswersPart!Init

AllNext ==
  \/ part = "links" /\ Next /\ UNCHANGED <<v1, v2, v3, v4, v5, v6, v7, v8, v9, v10, v11, v12, part>>
  \/ part = "bindings" /\ BindingsPart!Next /\ UNCHANGED <<v10, v11, v12, part, vars>>
  \/ part = "vdisk" /\ VdiskPart!Next /\ UNCHANGED <<part, vars>>
  \/ part = "ids" /\ FakeIdsPart!Next /\ UNCHANGED <<v6, v7, v8, v9, v10, v11, v12, part, vars>>
  \/ part = "modes" /\ FakeModesPart!Next /\ UNCHANGED <<v7, v8, v9, v10, v11, v12, part, vars>>
  \/ part = "meta" /\ MetaFilesPart!Next /\ UNCHANGED <<v9, v10, v11, v12, part, vars>>
  \/ part = "care" /\ CarePart!Next /\ UNCHANGED <<v9, v10, v11, v12, part, vars>>
  \/ part = "answers" /\ AnswersPart!Next /\ UNCHANGED <<part, vars>>

AllSpec == AllInit /\ [][AllNext]_all

-----------------------------------------------------------------------------
(* The properties of the parts, each stated in full in its module.         *)

(* binding.c: in each namespace a path finds its innermost binding. *)
InnermostFirst == part = "bindings" => BindingsPart!InnermostFirst
(* vdisk.c: what is copied on demand shows as if all were mounted. *)
LazyIsTransparent == part = "vdisk" => VdiskPart!LazyIsTransparent
(* vdisk.c: what an exit says it saved is what the guest saw. *)
SavedIsTheView == part = "vdisk" => VdiskPart!SavedIsTheView
(* fake_id0.c: set*id calls are granted, and take effect, as Linux does. *)
IdsLikeLinux == part = "ids" => FakeIdsPart!IdsLikeLinux
(* fake_id0.c: permissions lent to a call are given back. *)
ModesAreTheGuests == part = "modes" => FakeModesPart!ModesAreTheGuests
(* fake_id0: a file keeps the owner and mode the guest gave it. *)
MetaFollowsFile == part = "meta" => MetaFilesPart!MetaFollowsFile
(* care.c: the archive has what the run used, as it was before. *)
ReproducesTheOriginal == part = "care" => CarePart!ReproducesTheOriginal
(* exit.c, socket.c: results are what Linux would tell this guest. *)
AnswersAreTheGuests == part = "answers" => AnswersPart!AnswersAreTheGuests
=============================================================================
