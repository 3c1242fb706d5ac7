---------------------------- MODULE FilesProofs ----------------------------
(***************************************************************************)
(* What a guest is shown of files stays true, for every set of ids, files, *)
(* modes, paths and bindings and every number of calls: files have the     *)
(* owners and modes they were given (MetaFiles), a process has the ids and *)
(* the rights it would have under Linux (FakeIds), the modes of files that *)
(* had to be made usable are put back (FakeModes), a path is looked up in  *)
(* the innermost binding that has it (Bindings), and the answers of calls  *)
(* are in the guest's terms (Answers).                                     *)
(*                                                                         *)
(* MetaFiles.  A meta file is written when a call is entered, before the   *)
(* kernel performs the call on the file itself.  In between the meta files *)
(* are ahead of the files, by that call if it will succeed and not at all  *)
(* if it will not (Ahead); that the handlers of the entry leave them so    *)
(* has a lemma per handler.  A handler that lets a call through, but wrote *)
(* for a file the kernel then refuses, would break it.                     *)
(*                                                                         *)
(* FakeIds.  PRoot and Linux hold the same ids, and agree on who is        *)
(* privileged because the capability of both is an id of root (Alike).     *)
(*                                                                         *)
(* FakeModes.  In the middle of a call, what its nodes will put back of a  *)
(* path is the mode wanted of it, but for a call to chmod, whose node has  *)
(* the mode to come (InCall).  A path made usable a second time in a call  *)
(* would break it: its first node decides, which NodesOK makes the only.   *)
(*                                                                         *)
(* Bindings.  A search takes the first binding that matches.  Sorted pair  *)
(* by pair is enough for it to be the innermost, and is what every         *)
(* insertion and removal keeps on either list (GoodLists), whatever        *)
(* sequence of them a start, a clone or the loop of pivot_root makes.      *)
(*                                                                         *)
(* Answers.  A working directory has its own name or, until the rename it  *)
(* is below has its exit, one that this exit makes its own (CwdPart).  A   *)
(* name is found again because whatever leads to a directory is one, so    *)
(* that nothing can be below a name that is free (PlacesPart).             *)
(***************************************************************************)
EXTENDS MetaFiles, Sequences, FiniteSets, SequenceTheorems, WellFoundedInduction, TLAPS

(* Of FakeIds.                                                             *)
CONSTANTS Uids, Gids, MaxGroups
VARIABLES config, auxv, kernel, told
F == INSTANCE FakeIds

(* Of FakeModes.                                                           *)
CONSTANTS Tracees
VARIABLES mode, nodes, seen
M == INSTANCE FakeModes

(* Of Bindings; calls is that of MetaFiles again.                          *)
CONSTANTS Procs, Startups, Args, Missing, MaxDepth, MaxBindings, MaxTmpfs, Components
VARIABLES guest, host, ns, fs, cwd, newns, tmpfs, stale
B == INSTANCE Bindings

(* Of Answers; cwd and calls are those of Bindings and MetaFiles again.    *)
CONSTANTS Dirs, Spots, FirstSpots, HostRoot, SizeofPath, Sockets, Targets, Sizes, Fds
VARIABLES shared, where, real, renaming, shorts, bound, files, auxv_fd, filter, watched
An == INSTANCE Answers WITH Places <- Spots, FirstPlaces <- FirstSpots, Root <- HostRoot

-----------------------------------------------------------------------------
Perms == SUBSET {"r", "w", "x"}
Mode == [own : Perms, grp : Perms, oth : Perms]
Owners == Ids \cup {"none", Root}

(* What the theorem about MetaFiles asks of the constants: no quirk, modes *)
(* are modes, and no owner is called as the value that stands for none.    *)
MetaUsual == Quirks = {} /\ Modes \subseteq Mode /\ "none" \notin Ids

Metas == [AllPaths -> [mode : Mode, owner : Owners, group : Owners]]
Dos == {"none", "open", "creat", "mkdir", "unlink", "rename", "chmod", "chown", "access", "utimensat", "link", "symlink"}
CallType == [go : {"none", "EACCES", "kernel", "void", "exit"}, do : Dos, path : AllPaths, to : AllPaths, mode : Mode,
             owner : Owners, group : Owners, access : Perms]

(* The meta files say what is wanted, and only of files there are.         *)
Agree(mf, w, th) == \A f \in Files : mf[f] = w[f] /\ (f \notin th => mf[f] = None)

(* A call the kernel is to perform: the meta files are as after it, if it  *)
(* will succeed.                                                           *)
Ahead(c, go, mf) ==
  /\ go = "EACCES" => Agree(mf, want, there)
  /\ (go = "kernel" /\ Succeeds(c)) \/ go = "void" => Agree(mf, After(c, want), FilesAfter(c))
  /\ go = "kernel" /\ ~Succeeds(c) => Agree(mf, want, there)

TypesPart == meta \in Metas /\ want \in Metas /\ euid \in Ids \cup {Root} /\ call \in CallType
FilesPart ==
  /\ call.go = "none" => call = Idle
  /\ call.go \in {"none", "exit"} => Agree(meta, want, there)
  /\ Ahead(call, call.go, meta)
Inv == TypesPart /\ FilesPart

-----------------------------------------------------------------------------
(* Nothing is there at the start.                                          *)
LEMMA InitInv == MetaUsual /\ Init => Inv
<1> SUFFICES ASSUME MetaUsual, Init PROVE Inv
  OBVIOUS
<1>1. meta \in Metas /\ want = meta /\ there = {Dir} /\ \A f \in Files : f # Dir => meta[f] = None
  BY DEF MetaUsual, Init, Metas, Mode, Perms, Owners, None, NoMode, AllPaths
<1>2. euid \in Ids /\ call = Idle /\ call \in CallType /\ call.go = "none"
  BY DEF Init, Idle, Made, CallType, Dos, AllPaths, Mode, Perms, NoMode, Owners
<1> QED BY <1>1, <1>2 DEF Inv, TypesPart, FilesPart, Agree, Ahead

(* No call.                                                                *)
LEMMA IdleType == Idle \in CallType /\ Idle.go = "none"
  BY DEF Idle, Made, CallType, Dos, AllPaths, Mode, Perms, NoMode, Owners

(* The calls that are made, but for link(2), a quirk.                      *)
LEMMA CallsAre ==
  ASSUME MetaUsual, NEW c \in Calls
  PROVE  /\ c \in CallType /\ c.go = "none" /\ c.path \in Files /\ c.to \in Files
         /\ c.do \in Dos \ {"none", "link"} /\ (c.do = "chown" => c.group \in Ids)
         /\ c.do # "rename" => c.to = c.path
<1> DEFINE A == {Made(d, f, m, {"w"}) : d \in {"creat", "mkdir", "chmod"}, f \in Files, m \in Modes}
           C == {Made(d, f, NoMode, {"r"}) : d \in {"open", "access", "unlink", "utimensat", "symlink"}, f \in Files}
           D == {Between("rename", f, g) : f, g \in Files}
           E == {Chowned(f, o, g) : f \in Files, o \in Ids \cup {"none"}, g \in Ids}
<1>1. c \in A \/ c \in C \/ c \in D \/ c \in E
  BY DEF Calls, MetaUsual
<1>2. CASE c \in A
  <2>1. PICK d \in {"creat", "mkdir", "chmod"}, f \in Files, m \in Modes : c = Made(d, f, m, {"w"})
    BY <1>2
  <2> QED BY <2>1 DEF MetaUsual, Made, CallType, Dos, AllPaths, Mode, Perms, NoMode, Owners
<1>3. CASE c \in C
  <2>1. PICK d \in {"open", "access", "unlink", "utimensat", "symlink"}, f \in Files : c = Made(d, f, NoMode, {"r"})
    BY <1>3
  <2> QED BY <2>1 DEF Made, CallType, Dos, AllPaths, Mode, Perms, NoMode, Owners
<1>4. CASE c \in D
  <2>1. PICK f \in Files, g \in Files : c = Between("rename", f, g)
    BY <1>4
  <2>2. c = [go |-> "none", do |-> "rename", path |-> f, to |-> g, mode |-> NoMode, owner |-> "none", group |-> "none", access |-> {}]
    BY <2>1 DEF Made, Between, Chowned
  <2> QED BY <2>2 DEF CallType, Dos, AllPaths, Mode, Perms, NoMode, Owners
<1>5. CASE c \in E
  <2>1. PICK f \in Files, o \in Ids \cup {"none"}, g \in Ids : c = Chowned(f, o, g)
    BY <1>5
  <2>2. c = [go |-> "none", do |-> "chown", path |-> f, to |-> f, mode |-> NoMode, owner |-> o, group |-> g, access |-> {}]
    BY <2>1 DEF Made, Between, Chowned
  <2> QED BY <2>2 DEF CallType, Dos, AllPaths, Mode, Perms, NoMode, Owners
<1> HIDE DEF A, C, D, E
<1> QED BY <1>1, <1>2, <1>3, <1>4, <1>5

(* What the handlers of the entry leave behind.                            *)
EntersOK(c, e) == e.go \in {"EACCES", "kernel", "void"} /\ e.meta \in Metas /\ Ahead(c, e.go, e.meta)

(* A call is entered.                                                      *)
Asks(c) ==
  /\ meta \in Metas /\ want \in Metas /\ euid \in Ids \cup {Root} /\ Agree(meta, want, there)
  /\ c \in CallType /\ c.path \in Files /\ c.to \in Files

-----------------------------------------------------------------------------
(* The handlers of the entry, one by one.                                  *)
LEMMA RefusedOK ==
  ASSUME NEW c, Asks(c)
  PROVE  EntersOK(c, Refused)
  BY DEF Asks, EntersOK, Ahead, Refused

(* A call that changes no meta file and that the host alone performs.      *)
LEMMA ThroughOK ==
  ASSUME NEW c, Asks(c), Succeeds(c) => After(c, want) = want /\ Agree(meta, want, FilesAfter(c))
  PROVE  EntersOK(c, Through(meta))
  BY DEF Asks, EntersOK, Ahead, Through

(* A new file has the mode that was asked, its maker as owner.             *)
LEMMA MadeOK ==
  ASSUME NEW c, Asks(c), c.do \in {"creat", "mkdir"}, c.path \notin there
  PROVE  EntersOK(c, Through([meta EXCEPT ![c.path] = [mode |-> Masked(c.mode), owner |-> euid, group |-> euid]]))
<1> DEFINE new == [mode |-> Masked(c.mode), owner |-> euid, group |-> euid]
           made == [meta EXCEPT ![c.path] = new]
<1>1. new \in [mode : Mode, owner : Owners, group : Owners]
  BY DEF Asks, CallType, Masked, umask, Mode, Perms, Owners
<1>2. made \in Metas
  BY <1>1 DEF Asks, Metas, AllPaths
<1>3. After(c, want) = [want EXCEPT ![c.path] = new]
  BY DEF After
<1>4. FilesAfter(c) = there \cup {c.path} /\ Succeeds(c)
  BY DEF FilesAfter, Succeeds, Exists
<1>5. Agree(made, After(c, want), FilesAfter(c))
  BY <1>3, <1>4 DEF Agree, Asks, Metas, AllPaths
<1> QED BY <1>2, <1>4, <1>5 DEF EntersOK, Ahead, Through

(* handle_open_enter_end: what is opened is there, is created or is neither*)
LEMMA OpenOK ==
  ASSUME MetaUsual, NEW c, Asks(c), c.do \in {"open", "creat"}
  PROVE  EntersOK(c, handle_open_enter_end(c))
<1> DEFINE goes == check_dir_perms("x") /\ c.access \subseteq get_permissions(c.path, euid)
<1>1. c.do = "open" \/ c.path \in there => EntersOK(c, Through(meta))
  <2> SUFFICES ASSUME c.do = "open" \/ c.path \in there PROVE EntersOK(c, Through(meta))
    OBVIOUS
  <2>1. After(c, want) = want /\ (FilesAfter(c) = there)
    BY DEF After, FilesAfter
  <2> QED BY <2>1, ThroughOK DEF Asks
<1>2. CASE c.do = "open" /\ meta[c.path] = None
  BY <1>1, <1>2 DEF handle_open_enter_end
<1>3. CASE c.do = "creat" /\ c.path \notin there
  <2>1. handle_open_enter_end(c) = IF check_dir_perms("w")
         THEN Through([meta EXCEPT ![c.path] = [mode |-> Masked(c.mode), owner |-> euid, group |-> euid]])
         ELSE Refused
    BY <1>3 DEF handle_open_enter_end
  <2> QED BY <1>3, <2>1, MadeOK, RefusedOK
<1>4. CASE ~(c.do = "open" /\ meta[c.path] = None) /\ ~(c.do = "creat" /\ c.path \notin there)
  <2>1. handle_open_enter_end(c) = IF goes THEN Through(meta) ELSE Refused
    BY <1>4 DEF handle_open_enter_end
  <2> QED BY <1>1, <1>4, <2>1, RefusedOK
<1> QED BY <1>2, <1>3, <1>4

(* handle_mk_enter_end: a directory is made, or there is a file.           *)
LEMMA MkOK ==
  ASSUME NEW c, Asks(c), c.do = "mkdir"
  PROVE  EntersOK(c, handle_mk_enter_end(c))
<1>1. c.path \in there => EntersOK(c, Through(meta))
  BY ThroughOK DEF Succeeds, Exists
<1> QED BY <1>1, MadeOK, RefusedOK DEF handle_mk_enter_end

(* handle_unlink_enter_end: no meta file is left, even where there is no fi*)
LEMMA UnlinkOK ==
  ASSUME NEW c, Asks(c), c.do = "unlink"
  PROVE  EntersOK(c, handle_unlink_enter_end(c))
<1> DEFINE left == [meta EXCEPT ![c.path] = None]
<1>1. left \in Metas
  BY DEF Asks, Metas, AllPaths, None, NoMode, Mode, Perms, Owners
<1>2. After(c, want) = [want EXCEPT ![c.path] = None] /\ FilesAfter(c) = there \ {c.path}
  BY DEF After, FilesAfter
<1>3. Agree(left, After(c, want), FilesAfter(c))
  BY <1>2 DEF Agree, Asks, Metas, AllPaths
<1>4. ~Succeeds(c) => Agree(left, want, there)
  BY DEF Succeeds, Exists, Agree, Asks, Metas, AllPaths
<1>5. EntersOK(c, Through(left))
  BY <1>1, <1>3, <1>4 DEF EntersOK, Ahead, Through
<1> QED BY <1>5, RefusedOK DEF handle_unlink_enter_end

(* handle_rename_enter_end: the meta file follows its file, to itself as we*)
LEMMA RenameOK ==
  ASSUME NEW c, Asks(c), c.do = "rename", meta[c.path] = None => meta[c.to] = None
  PROVE  EntersOK(c, handle_rename_enter_end(c))
<1> DEFINE moved == [[meta EXCEPT ![c.path] = None] EXCEPT ![c.to] = meta[c.path]]
           now == IF c.to = c.path THEN want ELSE [[want EXCEPT ![c.path] = None] EXCEPT ![c.to] = want[c.path]]
<1>1. moved \in Metas
  BY DEF Asks, Metas, AllPaths, None, NoMode, Mode, Perms, Owners
<1>2. After(c, want) = now /\ FilesAfter(c) = (there \ {c.path}) \cup {c.to}
  BY DEF After, FilesAfter
<1>3. Succeeds(c) <=> c.path \in there
  BY DEF Succeeds, Exists
<1>4. CASE meta[c.path] = None
  <2>1. Succeeds(c) => Agree(meta, now, FilesAfter(c))
    BY <1>2, <1>3, <1>4 DEF Agree, Asks, Metas, AllPaths
  <2>2. EntersOK(c, Through(meta))
    BY <1>2, <2>1 DEF EntersOK, Ahead, Through, Asks
  <2> QED BY <1>4, <2>2, RefusedOK DEF handle_rename_enter_end
<1>5. CASE meta[c.path] # None
  <2>1. c.path \in there
    BY <1>5 DEF Asks, Agree
  <2>2. Agree(moved, now, FilesAfter(c))
    BY <1>2, <2>1 DEF Agree, Asks, Metas, AllPaths
  <2>3. EntersOK(c, Through(moved))
    BY <1>1, <1>2, <1>3, <2>1, <2>2 DEF EntersOK, Ahead, Through
  <2> QED BY <1>5, <2>3, RefusedOK DEF handle_rename_enter_end
<1> QED BY <1>4, <1>5

(* handle_chmod_enter_end: the call is voided where there is a meta file.  *)
LEMMA ChmodOK ==
  ASSUME NEW c, Asks(c), c.do = "chmod"
  PROVE  EntersOK(c, handle_chmod_enter_end(c))
<1> DEFINE new == [meta EXCEPT ![c.path].mode = c.mode]
<1>1. FilesAfter(c) = there /\ meta[c.path] = want[c.path]
  BY DEF FilesAfter, Asks, Agree
<1>2. CASE meta[c.path] = None
  <2>1. After(c, want) = want
    BY <1>1, <1>2 DEF After
  <2> QED BY <1>1, <1>2, <2>1, ThroughOK DEF handle_chmod_enter_end, Asks
<1>3. CASE meta[c.path] # None
  <2>1. After(c, want) = [want EXCEPT ![c.path].mode = c.mode]
    BY <1>1, <1>3 DEF After
  <2>2. new \in Metas
    BY DEF Asks, Metas, AllPaths, CallType
  <2>3. Agree(new, After(c, want), there)
    BY <1>1, <1>3, <2>1 DEF Agree, Asks, Metas, AllPaths
  <2>4. EntersOK(c, Voided(new))
    BY <1>1, <2>2, <2>3 DEF EntersOK, Ahead, Voided
  <2> QED BY <1>3, <2>4, RefusedOK DEF handle_chmod_enter_end
<1> QED BY <1>2, <1>3

(* handle_chown_enter_end: only root gives a file away.                    *)
LEMMA ChownOK ==
  ASSUME MetaUsual, NEW c, Asks(c), c.do = "chown", c.group \in Ids
  PROVE  EntersOK(c, handle_chown_enter_end(c))
<1> DEFINE owner == IF c.owner = "none" THEN meta[c.path].owner ELSE c.owner
           new == [meta EXCEPT ![c.path].owner = IF euid = Root THEN owner ELSE @, ![c.path].group = c.group]
<1>1. FilesAfter(c) = there /\ meta[c.path] = want[c.path] /\ c.group # "none"
  BY DEF FilesAfter, Asks, Agree, MetaUsual
<1>2. CASE meta[c.path] = None
  <2>1. After(c, want) = want
    BY <1>1, <1>2 DEF After
  <2> QED BY <1>1, <1>2, <2>1, ThroughOK DEF handle_chown_enter_end, Asks
<1>3. CASE meta[c.path] # None
  <2>1. After(c, want) = [want EXCEPT ![c.path].owner = IF c.owner = "none" \/ euid # Root THEN @ ELSE c.owner,
                   ![c.path].group = c.group]
    BY <1>1, <1>3 DEF After
  <2>2. new \in Metas
    <3>1. owner \in Owners /\ c.group \in Owners /\ meta[c.path] \in [mode : Mode, owner : Owners, group : Owners]
      BY DEF Asks, Metas, AllPaths, CallType, Owners
    <3> QED BY <3>1 DEF Asks, Metas, AllPaths
  <2>3. Agree(new, After(c, want), there)
    <3>1. \A f \in Files \ {c.path} : new[f] = meta[f] /\ After(c, want)[f] = want[f]
      BY <2>1 DEF Asks, Metas, AllPaths
    <3>2. new[c.path] = [[meta[c.path] EXCEPT !.owner = IF euid = Root THEN owner ELSE @] EXCEPT !.group = c.group]
      BY DEF Asks, Metas, AllPaths
    <3>3. After(c, want)[c.path] = [[want[c.path] EXCEPT !.owner = IF c.owner = "none" \/ euid # Root THEN @ ELSE c.owner]
                                     EXCEPT !.group = c.group]
      BY <2>1 DEF Asks, Metas, AllPaths
    <3>4. new[c.path] = After(c, want)[c.path]
      BY <1>1, <3>2, <3>3
    <3>5. c.path \in there
      BY <1>3 DEF Asks, Agree
    <3> HIDE DEF new
    <3> QED BY <3>1, <3>4, <3>5 DEF Agree, Asks
  <2>4. EntersOK(c, Voided(new))
    BY <1>1, <2>2, <2>3 DEF EntersOK, Ahead, Voided
  <2> QED BY <1>3, <2>4, RefusedOK DEF handle_chown_enter_end
<1> QED BY <1>2, <1>3

(* The calls that only look, and symlink, whose file gets no meta file.    *)
LEMMA LooksOK ==
  ASSUME NEW c, Asks(c), c.do \in {"access", "utimensat", "symlink"}
  PROVE  EntersOK(c, Entered(c))
<1>1. After(c, want) = want /\ FilesAfter(c) \in {there, there \cup {c.path}}
  BY DEF After, FilesAfter
<1>2. Agree(meta, want, FilesAfter(c))
  BY <1>1 DEF Asks, Agree
<1>3. EntersOK(c, Through(meta))
  BY <1>1, <1>2, ThroughOK
<1>4. Entered(c) = Through(meta) \/ Entered(c) = Refused
  BY DEF Entered, handle_access_enter_end, handle_utimensat_enter_end, handle_symlink_enter_end
<1> QED BY <1>3, <1>4, RefusedOK

-----------------------------------------------------------------------------
(* The actions.                                                            *)
LEMMA EnterInv ==
  ASSUME MetaUsual, Inv, NEW c \in Calls, Enter(c)
  PROVE  Inv'
<1>1. c \in CallType /\ c.go = "none" /\ c.path \in Files /\ c.to \in Files
      /\ c.do \in Dos \ {"none", "link"} /\ (c.do = "chown" => c.group \in Ids)
  BY CallsAre
<1>2. Asks(c)
  <2>1. call.go = "none"
    BY DEF Enter, Idle, Made
  <2> QED BY <1>1, <2>1 DEF Enter, Inv, TypesPart, FilesPart, Asks
<1>3. c.do = "rename" /\ meta[c.path] = None => meta[c.to] = None
  BY DEF Enter, MetaUsual
<1>4. EntersOK(c, Entered(c))
  <2>1. CASE c.do \in {"open", "creat"}
    BY <1>2, <2>1, OpenOK DEF Entered
  <2>2. CASE c.do = "mkdir"
    BY <1>2, <2>2, MkOK DEF Entered
  <2>3. CASE c.do = "unlink"
    BY <1>2, <2>3, UnlinkOK DEF Entered
  <2>4. CASE c.do = "rename"
    BY <1>2, <1>3, <2>4, RenameOK DEF Entered
  <2>5. CASE c.do = "chmod"
    BY <1>2, <2>5, ChmodOK DEF Entered
  <2>6. CASE c.do = "chown"
    BY <1>1, <1>2, <2>6, ChownOK DEF Entered
  <2>7. CASE c.do \in {"access", "utimensat", "symlink"}
    BY <1>2, <2>7, LooksOK
  <2> QED BY <1>1, <2>1, <2>2, <2>3, <2>4, <2>5, <2>6, <2>7 DEF Dos
<1>5. PICK e \in {Entered(c)} : meta' = e.meta /\ call' = [c EXCEPT !.go = e.go]
  BY DEF Enter
<1>6. UNCHANGED <<there, want, euid>>
  BY DEF Enter
<1>7. call' \in CallType /\ call'.go = e.go /\ e.go \in {"EACCES", "kernel", "void"} /\ meta' \in Metas
      /\ \A f \in {"do", "path", "to", "mode", "owner", "group"} : call'[f] = c[f]
  BY <1>1, <1>4, <1>5 DEF EntersOK, CallType
<1>8. (Succeeds(call)' <=> Succeeds(c)) /\ (After(call, want))' = After(c, want) /\ FilesAfter(call)' = FilesAfter(c)
  BY <1>6, <1>7 DEF Succeeds, Exists, After, FilesAfter
<1>9. Ahead(call, call.go, meta)'
  BY <1>4, <1>5, <1>6, <1>7, <1>8 DEF EntersOK, Ahead, Agree
<1> QED BY <1>6, <1>7, <1>9 DEF Inv, TypesPart, FilesPart

(* After a call the wanted metadata are metadata still.                    *)
LEMMA AfterType ==
  ASSUME TypesPart
  PROVE  After(call, want) \in Metas
<1> DEFINE Content == [mode : Mode, owner : Owners, group : Owners]
<1>1. call.path \in AllPaths /\ call.to \in AllPaths /\ call.mode \in Mode /\ call.owner \in Owners /\ call.group \in Owners
      /\ Masked(call.mode) \in Mode /\ euid \in Owners /\ None \in Content
  BY DEF TypesPart, CallType, Masked, umask, Mode, Perms, Owners, None, NoMode
<1>2. want \in [AllPaths -> Content]
  BY DEF TypesPart, Metas
<1>3. \A n \in AllPaths, x \in Content : [want EXCEPT ![n] = x] \in [AllPaths -> Content]
  BY <1>2
<1>4. want[call.path] \in Content
  BY <1>1, <1>2
<1>5. [[want EXCEPT ![call.path] = None] EXCEPT ![call.to] = want[call.path]] \in [AllPaths -> Content]
  BY <1>1, <1>2, <1>4
<1>6. [want EXCEPT ![call.path].mode = call.mode] \in [AllPaths -> Content]
  BY <1>1, <1>2, <1>4
<1>7. [want EXCEPT ![call.path].owner = IF call.owner = "none" \/ euid # Root THEN @ ELSE call.owner,
                   ![call.path].group = IF call.group = "none" THEN @ ELSE call.group] \in [AllPaths -> Content]
  BY <1>1, <1>2, <1>4
<1>8. [mode |-> Masked(call.mode), owner |-> euid, group |-> euid] \in Content
  BY <1>1
<1>9. [want EXCEPT ![call.to] = want[call.path]] \in [AllPaths -> Content]
  BY <1>1, <1>3, <1>4
<1> HIDE DEF Content
<1> QED BY <1>1, <1>2, <1>3, <1>5, <1>6, <1>7, <1>8, <1>9 DEF After, Metas, Content

(* The kernel catches up with the handlers.                                *)
LEMMA KernelInv ==
  ASSUME MetaUsual, Inv, NEW fails \in BOOLEAN, Kernel(fails)
  PROVE  Inv'
<1>1. UNCHANGED <<meta, euid>> /\ call' = [call EXCEPT !.go = "exit"] /\ call.go \in {"kernel", "void"}
  BY DEF Kernel
<1>2. call' \in CallType /\ call'.go = "exit"
  BY <1>1 DEF Inv, TypesPart, CallType
<1>3. want' \in Metas
  BY AfterType DEF Kernel, Inv, TypesPart
<1>4. Agree(meta, want, there)'
  <2>1. CASE fails
    BY <1>1, <2>1 DEF MetaUsual, Kernel, Inv, FilesPart, Ahead, Agree
  <2>2. CASE ~fails
    <3>1. Agree(meta, After(call, want), FilesAfter(call))
      BY <1>1, <2>2 DEF Kernel, Inv, FilesPart, Ahead
    <3>2. there' = FilesAfter(call) /\ want' = After(call, want)
      BY <2>2 DEF Kernel
    <3> QED BY <1>1, <3>1, <3>2 DEF Agree
  <2> QED BY <2>1, <2>2
<1> QED BY <1>1, <1>2, <1>3, <1>4 DEF Inv, TypesPart, FilesPart, Ahead

(* An open that created nothing finds no meta file to remove.              *)
LEMMA ExitInv ==
  ASSUME Inv, handle_sysexit_end
  PROVE  Inv'
<1>1. call.go = "exit" /\ call' = Idle /\ UNCHANGED <<there, want, euid>> /\ Agree(meta, want, there)
  BY DEF handle_sysexit_end, Inv, FilesPart
<1>2. meta' \in Metas /\ Agree(meta, want, there)'
  <2>1. CASE call.do \in {"open", "creat"} /\ call.path \notin there
    <3>1. meta' = [meta EXCEPT ![call.path] = None]
      BY <2>1 DEF handle_sysexit_end
    <3>2. meta' \in Metas
      BY <3>1 DEF Inv, TypesPart, CallType, Metas, None, NoMode, Mode, Perms, Owners
    <3> QED BY <1>1, <2>1, <3>1, <3>2 DEF Agree, Inv, TypesPart, Metas, AllPaths
  <2>2. CASE ~(call.do \in {"open", "creat"} /\ call.path \notin there)
    BY <1>1, <2>2 DEF handle_sysexit_end, Agree, Inv, TypesPart
  <2> QED BY <2>1, <2>2
<1> QED BY <1>1, <1>2, IdleType DEF Inv, TypesPart, FilesPart, Ahead

(* A refused call has written nothing.                                     *)
LEMMA DeniedInv ==
  ASSUME Inv, Denied
  PROVE  Inv'
<1>1. call.go = "EACCES" /\ call' = Idle /\ UNCHANGED <<there, meta, want, euid>>
  BY DEF Denied
<1>2. Agree(meta, want, there)'
  BY <1>1 DEF Inv, FilesPart, Ahead, Agree
<1> QED BY <1>1, <1>2, IdleType DEF Inv, TypesPart, FilesPart, Ahead

(* execve(2) of a set-user-id program changes who asks, not what is there. *)
LEMMA ExecInv ==
  ASSUME Inv, NEW f \in Files, NEW setuid \in BOOLEAN, NEW succeeds \in BOOLEAN, handle_exec_enter_end(f, setuid, succeeds)
  PROVE  Inv'
<1>1. call = Idle /\ UNCHANGED <<there, meta, want, call>> /\ euid' \in Ids \cup {Root}
  BY DEF handle_exec_enter_end, Inv, TypesPart
<1>2. Agree(meta, want, there)'
  BY <1>1, IdleType DEF Inv, FilesPart, Agree
<1> QED BY <1>1, <1>2, IdleType DEF Inv, TypesPart, FilesPart, Ahead

(* Every step keeps the invariant.                                         *)
LEMMA NextInv == MetaUsual /\ Inv /\ [Next]_vars => Inv'
<1> SUFFICES ASSUME MetaUsual, Inv, [Next]_vars PROVE Inv'
  OBVIOUS
<1>1. CASE UNCHANGED vars
  <2>1. UNCHANGED <<there, meta, want, euid, call>>
    BY <1>1 DEF vars
  <2>2. After(call, want)' = After(call, want)
    BY <2>1 DEF After
  <2>3. FilesAfter(call)' = FilesAfter(call) /\ (Succeeds(call)' <=> Succeeds(call))
    BY <2>1 DEF FilesAfter, Succeeds, Exists
  <2> QED BY <2>1, <2>2, <2>3 DEF Inv, TypesPart, FilesPart, Agree, Ahead
<1>2. CASE Next
  BY <1>2, EnterInv, KernelInv, ExitInv, DeniedInv, ExecInv DEF Next
<1> QED BY <1>1, <1>2

(* Without the cases that are known to go wrong (no quirk), and through    *)
(* any sequence of calls by root or another user, refused and failing ones *)
(* included: between calls the meta file of each file says what its        *)
(* creator, its last chmod and its last chown made it, and no meta file is *)
(* left without its file.                                                  *)
THEOREM MetaFilesFollow == ASSUME MetaUsual PROVE Spec => []MetaFollowsFile
<1>1. Init => Inv
  BY InitInv
<1>2. Inv /\ [Next]_vars => Inv'
  BY NextInv
<1>3. Inv => MetaFollowsFile
  BY IdleType DEF Inv, FilesPart, Agree, MetaFollowsFile, handle_stat_exit_end, Reported
<1> QED BY <1>1, <1>2, <1>3, PTL DEF Spec

-----------------------------------------------------------------------------
(* What the theorem about FakeIds asks of the constants: no quirk, and ids *)
(* are numbers.                                                            *)
IdsUsual == Quirks = {} /\ Uids \subseteq Nat /\ Gids \subseteq Nat

IdsOf == [F!Kinds -> Nat]
ConfigType == [r : IdsOf, e : IdsOf, s : IdsOf, fs : IdsOf, caps_active : BOOLEAN, keep_caps : {FALSE}, groups : SUBSET Nat]
KernelType == [r : IdsOf, e : IdsOf, s : IdsOf, permitted : BOOLEAN, effective : BOOLEAN, keep : {FALSE}]

(* The two sides hold the same ids; the capability is held, on both sides, *)
(* by whoever has an id of root, and is effective with an effective one.   *)
Alike(c, n) ==
  /\ c \in ConfigType /\ n \in KernelType
  /\ c.r = n.r /\ c.e = n.e /\ c.s = n.s
  /\ c.caps_active = F!AnyRoot(c) /\ n.permitted = F!AnyRoot(c) /\ n.effective = (c.e["u"] = 0)

IdsInv == Alike(config, kernel) /\ told.proot = told.linux

(* The ids of one kind become a, those of the other stay.                  *)
Moved(new, old, k, a) == new \in IdsOf /\ new[k] = a /\ \A j \in F!Kinds : j # k => new[j] = old[j]

(* A call calls both sides' ids of a kind a, b and d, and nothing else.      *)
Sets(c, n, cc, nn, k, a, b, d) ==
  /\ cc \in ConfigType /\ cc.caps_active = c.caps_active
  /\ nn \in KernelType /\ nn.permitted = n.permitted /\ nn.effective = n.effective
  /\ Moved(cc.r, c.r, k, a) /\ Moved(cc.e, c.e, k, b) /\ Moved(cc.s, c.s, k, d)
  /\ Moved(nn.r, n.r, k, a) /\ Moved(nn.e, n.e, k, b) /\ Moved(nn.s, n.s, k, d)

(* Only root gets other ids than it has.                                   *)
Entitled(c, k, yes, a, b, d) == yes => F!AnyRoot(c) \/ {a, b, d} \subseteq {c.r[k], c.e[k], c.s[k]}

(* Both sides answer alike, and are alike after it.                        *)
SameAnswer(mine, theirs) == mine.res = theirs.res /\ Alike(mine.c, theirs.c)

-----------------------------------------------------------------------------
(* A process is privileged for PRoot when it has an id of root.            *)
LEMMA PrivilegedIs ==
  ASSUME NEW c, NEW n, Alike(c, n)
  PROVE  F!Privileged(c) <=> F!AnyRoot(c)
  BY DEF Alike, F!Privileged, F!AnyRoot

(* An id of a call, or the one that is there.                              *)
LEMMA GivenIs ==
  ASSUME NEW id \in Nat \cup {F!Unset}, NEW old \in Nat
  PROVE  /\ F!Given(id, old) \in Nat /\ F!Unset \notin Nat
         /\ id # F!Unset => F!Given(id, old) = id
         /\ id = F!Unset => F!Given(id, old) = old
  BY DEF F!Given, F!Unset

(* A call that both sides grant or refuse, and that gives nobody an id it  *)
(* is not entitled to, leaves both sides alike.                            *)
LEMMA SetAlike ==
  ASSUME NEW c, NEW n, NEW k \in F!Kinds, NEW a, NEW b, NEW d, NEW yes \in BOOLEAN, NEW cc, NEW nn,
         Alike(c, n), Sets(c, n, cc, nn, k, a, b, d), Entitled(c, k, yes, a, b, d)
  PROVE  SameAnswer(F!Granted(c, yes, cc), F!Linux(n, yes, nn))
<1>1. CASE ~yes
  <2>1. F!Granted(c, yes, cc) = [res |-> F!EPERM, c |-> c] /\ F!Linux(n, yes, nn) = [res |-> F!EPERM, c |-> n]
    BY <1>1 DEF F!Granted, F!Linux
  <2> QED BY <2>1 DEF SameAnswer
<1>2. CASE yes
  <2> DEFINE mc == F!MAYBE_DROP_CAPS(cc, F!AnyRoot(c))
             mn == F!Fixup(n, nn)
  <2>1. F!Granted(c, yes, cc) = [res |-> F!OK, c |-> mc] /\ F!Linux(n, yes, nn) = [res |-> F!OK, c |-> mn]
    BY <1>2 DEF F!Granted, F!Linux
  <2>2. cc.r = nn.r /\ cc.e = nn.e /\ cc.s = nn.s
    BY DEF Moved, IdsOf, Alike, Sets
  <2>3. F!AnyRoot(cc) \in BOOLEAN /\ F!AnyRoot(c) \in BOOLEAN
        /\ (F!AnyRoot(nn) <=> F!AnyRoot(cc)) /\ (F!AnyRoot(n) <=> F!AnyRoot(c))
    BY <2>2 DEF F!AnyRoot, Alike
  <2>4. F!AnyRoot(cc) => F!AnyRoot(c)
    <3> SUFFICES ASSUME F!AnyRoot(cc), ~F!AnyRoot(c) PROVE FALSE
      OBVIOUS
    <3>1. {a, b, d} \subseteq {c.r[k], c.e[k], c.s[k]}
      BY <1>2 DEF Entitled
    <3>2. cc.r["u"] \in {c.r["u"], c.e["u"], c.s["u"]} /\ cc.e["u"] \in {c.r["u"], c.e["u"], c.s["u"]}
          /\ cc.s["u"] \in {c.r["u"], c.e["u"], c.s["u"]}
      <4>1. "u" \in F!Kinds
        BY DEF F!Kinds
      <4>2. CASE k = "u"
        BY <4>2, <3>1 DEF Moved, Sets
      <4>3. CASE k # "u"
        BY <4>1, <4>3 DEF Moved, Sets
      <4> QED BY <4>2, <4>3
    <3> QED BY <3>2 DEF F!AnyRoot
  <2>5. cc.keep_caps = FALSE /\ nn.keep = FALSE /\ c.caps_active = F!AnyRoot(c) /\ n.permitted = F!AnyRoot(c)
        /\ n.effective = (c.e["u"] = 0) /\ c.e = n.e
    BY DEF Alike, ConfigType, KernelType, Sets
  <2>6. cc.e["u"] = 0 => F!AnyRoot(cc)
    BY DEF F!AnyRoot
  <2>7. c.e["u"] = 0 => F!AnyRoot(c)
    BY DEF F!AnyRoot
  <2>8. mc \in ConfigType /\ mc.r = cc.r /\ mc.e = cc.e /\ mc.s = cc.s /\ mc.caps_active = F!AnyRoot(cc)
    <3>1. CASE F!AnyRoot(c) /\ ~F!AnyRoot(cc)
      <4>1. mc = [cc EXCEPT !.caps_active = FALSE]
        BY <3>1, <2>5 DEF F!MAYBE_DROP_CAPS
      <4> HIDE DEF mc
      <4> QED BY <4>1, <3>1, <2>3 DEF ConfigType, Sets
    <3>2. CASE ~(F!AnyRoot(c) /\ ~F!AnyRoot(cc))
      <4>1. mc = cc
        BY <3>2, <2>5 DEF F!MAYBE_DROP_CAPS
      <4> HIDE DEF mc
      <4>2. F!AnyRoot(cc) = F!AnyRoot(c)
        BY <3>2, <2>3, <2>4
      <4> QED BY <4>1, <4>2, <2>5 DEF Sets
    <3> QED BY <3>1, <3>2
  <2>9. mn \in KernelType /\ mn.r = nn.r /\ mn.e = nn.e /\ mn.s = nn.s
        /\ mn.permitted = F!AnyRoot(cc) /\ mn.effective = (cc.e["u"] = 0)
    <3> DEFINE dropped == F!AnyRoot(n) /\ ~F!AnyRoot(nn) /\ ~nn.keep
               permitted == nn.permitted /\ ~dropped
               effective == CASE n.e["u"] = 0 /\ nn.e["u"] # 0 -> FALSE
                              [] n.e["u"] # 0 /\ nn.e["u"] = 0 -> permitted
                              [] OTHER -> nn.effective /\ permitted
    <3>1. mn = [nn EXCEPT !.permitted = permitted, !.effective = effective]
      BY DEF F!Fixup
    <3>2. permitted = F!AnyRoot(cc)
      BY <2>3, <2>4, <2>5 DEF Sets
    <3>3. effective = (cc.e["u"] = 0)
      <4> HIDE DEF permitted
      <4>1. CASE n.e["u"] = 0 /\ nn.e["u"] # 0
        BY <4>1, <2>2
      <4>2. CASE n.e["u"] # 0 /\ nn.e["u"] = 0
        BY <4>2, <2>2, <2>6, <3>2
      <4>3. CASE ~(n.e["u"] = 0 /\ nn.e["u"] # 0) /\ ~(n.e["u"] # 0 /\ nn.e["u"] = 0)
        <5>1. effective = (nn.effective /\ permitted)
          BY <4>3
        <5> HIDE DEF effective
        <5> QED BY <4>3, <5>1, <2>2, <2>3, <2>5, <2>6, <2>7, <3>2 DEF Sets
      <4> QED BY <4>1, <4>2, <4>3
    <3>4. permitted \in BOOLEAN /\ effective \in BOOLEAN
      BY <2>3, <3>2, <3>3
    <3> HIDE DEF mn, permitted, effective
    <3>5. mn \in KernelType /\ mn.r = nn.r /\ mn.e = nn.e /\ mn.s = nn.s /\ mn.permitted = permitted /\ mn.effective = effective
      BY <3>1, <3>4 DEF KernelType, Sets
    <3> QED BY <3>2, <3>3, <3>5
  <2> HIDE DEF mc, mn
  <2>10. F!AnyRoot(mc) <=> F!AnyRoot(cc)
    BY <2>8 DEF F!AnyRoot
  <2>11. F!AnyRoot(mc) = F!AnyRoot(cc)
    BY <2>8 DEF F!AnyRoot
  <2>12. Alike(mc, mn)
    BY <2>2, <2>8, <2>9, <2>11 DEF Alike
  <2> QED BY <2>1, <2>12 DEF SameAnswer
<1> QED BY <1>1, <1>2

-----------------------------------------------------------------------------
(* One id is replaced, or none.                                            *)
LEMMA MovedIs ==
  ASSUME NEW old \in IdsOf, NEW k \in F!Kinds, NEW a \in Nat
  PROVE  Moved([old EXCEPT ![k] = a], old, k, a) /\ Moved(old, old, k, old[k]) /\ old[k] \in Nat
         /\ [old EXCEPT ![k] = a] \in IdsOf
  BY DEF Moved, IdsOf

(* setuid and setgid, for both sides.                                      *)
LEMMA SetIdAlike ==
  ASSUME NEW c, NEW n, Alike(c, n), F!Privileged(c) = n.effective, NEW k \in F!Kinds, NEW id \in Nat,
         F!Privileged(c) \/ id # c.e[k] \/ id \in {c.r[k], c.s[k]}
  PROVE  SameAnswer(F!SETXID(c, k, id), F!LinuxSetId(n, k, id))
<1> DEFINE priv == F!Privileged(c)
           mine == priv \/ id \in {c.r[k], c.e[k], c.s[k]}
           theirs == n.effective \/ id \in {n.r[k], n.s[k]}
           a == IF priv THEN id ELSE c.r[k]
           d == IF priv THEN id ELSE c.s[k]
           cc == IF priv THEN [c EXCEPT !.r[k] = id, !.s[k] = id, !.e[k] = id, !.fs[k] = id]
                 ELSE [c EXCEPT !.e[k] = id, !.fs[k] = id]
           nn == IF n.effective THEN [n EXCEPT !.r[k] = id, !.e[k] = id, !.s[k] = id] ELSE [n EXCEPT !.e[k] = id]
<1>1. F!SETXID(c, k, id) = F!Granted(c, mine, cc) /\ F!LinuxSetId(n, k, id) = F!Linux(n, theirs, nn)
  BY DEF F!SETXID, F!LinuxSetId
<1>2. /\ c \in ConfigType /\ n \in KernelType /\ c.r = n.r /\ c.e = n.e /\ c.s = n.s
      /\ c.r \in IdsOf /\ c.e \in IdsOf /\ c.s \in IdsOf /\ c.fs \in IdsOf
  BY DEF Alike, ConfigType
<1>3. priv \in BOOLEAN /\ (priv <=> F!AnyRoot(c)) /\ priv = n.effective
  BY <1>2, PrivilegedIs DEF KernelType
<1>4. mine \in BOOLEAN /\ theirs \in BOOLEAN /\ mine = theirs
  BY <1>2, <1>3
<1>5. /\ Moved([c.r EXCEPT ![k] = id], c.r, k, id) /\ Moved(c.r, c.r, k, c.r[k]) /\ c.r[k] \in Nat
      /\ Moved([c.e EXCEPT ![k] = id], c.e, k, id)
      /\ Moved([c.s EXCEPT ![k] = id], c.s, k, id) /\ Moved(c.s, c.s, k, c.s[k]) /\ c.s[k] \in Nat
      /\ [c.r EXCEPT ![k] = id] \in IdsOf /\ [c.e EXCEPT ![k] = id] \in IdsOf
      /\ [c.s EXCEPT ![k] = id] \in IdsOf /\ [c.fs EXCEPT ![k] = id] \in IdsOf
  BY <1>2, MovedIs
<1>6. a \in Nat /\ d \in Nat /\ Entitled(c, k, mine, a, id, d)
  BY <1>3, <1>5 DEF Entitled
<1> HIDE DEF mine, theirs
<1>7. CASE priv
  <2>1. /\ cc = [c EXCEPT !.r[k] = id, !.s[k] = id, !.e[k] = id, !.fs[k] = id]
        /\ nn = [n EXCEPT !.r[k] = id, !.e[k] = id, !.s[k] = id] /\ a = id /\ d = id
    BY <1>3, <1>7
  <2> HIDE DEF cc, nn, a, d, priv
  <2>2. /\ cc \in ConfigType /\ cc.caps_active = c.caps_active
        /\ cc.r = [c.r EXCEPT ![k] = id] /\ cc.e = [c.e EXCEPT ![k] = id] /\ cc.s = [c.s EXCEPT ![k] = id]
    BY <1>2, <1>5, <2>1 DEF ConfigType
  <2>3. /\ nn \in KernelType /\ nn.permitted = n.permitted /\ nn.effective = n.effective
        /\ nn.r = [c.r EXCEPT ![k] = id] /\ nn.e = [c.e EXCEPT ![k] = id] /\ nn.s = [c.s EXCEPT ![k] = id]
    BY <1>2, <1>5, <2>1 DEF KernelType
  <2>4. Sets(c, n, cc, nn, k, a, id, d)
    BY <1>2, <1>5, <2>1, <2>2, <2>3 DEF Sets
  <2> QED BY <1>1, <1>4, <1>6, <2>4, SetAlike
<1>8. CASE ~priv
  <2>1. /\ cc = [c EXCEPT !.e[k] = id, !.fs[k] = id] /\ nn = [n EXCEPT !.e[k] = id]
        /\ a = c.r[k] /\ d = c.s[k]
    BY <1>3, <1>8
  <2> HIDE DEF cc, nn, a, d, priv
  <2>2. /\ cc \in ConfigType /\ cc.caps_active = c.caps_active
        /\ cc.r = c.r /\ cc.e = [c.e EXCEPT ![k] = id] /\ cc.s = c.s
    BY <1>2, <1>5, <2>1 DEF ConfigType
  <2>3. /\ nn \in KernelType /\ nn.permitted = n.permitted /\ nn.effective = n.effective
        /\ nn.r = c.r /\ nn.e = [c.e EXCEPT ![k] = id] /\ nn.s = c.s
    BY <1>2, <1>5, <2>1 DEF KernelType
  <2>4. Sets(c, n, cc, nn, k, a, id, d)
    BY <1>2, <1>5, <2>1, <2>2, <2>3 DEF Sets
  <2> QED BY <1>1, <1>4, <1>6, <2>4, SetAlike
<1> QED BY <1>7, <1>8

(* The ids of a kind become a, b, d (and f for files).                     *)
LEMMA ReplacedAlike ==
  ASSUME NEW c, NEW n, NEW k \in F!Kinds, NEW a \in Nat, NEW b \in Nat, NEW d \in Nat, NEW f \in Nat,
         NEW yes \in BOOLEAN, Alike(c, n), Entitled(c, k, yes, a, b, d)
  PROVE  SameAnswer(F!Granted(c, yes, [c EXCEPT !.r[k] = a, !.e[k] = b, !.fs[k] = f, !.s[k] = d]),
                    F!Linux(n, yes, [n EXCEPT !.r[k] = a, !.e[k] = b, !.s[k] = d]))
<1> DEFINE cc == [c EXCEPT !.r[k] = a, !.e[k] = b, !.fs[k] = f, !.s[k] = d]
           nn == [n EXCEPT !.r[k] = a, !.e[k] = b, !.s[k] = d]
<1>2. /\ c \in ConfigType /\ n \in KernelType /\ c.r = n.r /\ c.e = n.e /\ c.s = n.s
      /\ c.r \in IdsOf /\ c.e \in IdsOf /\ c.s \in IdsOf /\ c.fs \in IdsOf
  BY DEF Alike, ConfigType
<1>5. /\ Moved([c.r EXCEPT ![k] = a], c.r, k, a) /\ Moved([c.e EXCEPT ![k] = b], c.e, k, b)
      /\ Moved([c.s EXCEPT ![k] = d], c.s, k, d)
      /\ [c.r EXCEPT ![k] = a] \in IdsOf /\ [c.e EXCEPT ![k] = b] \in IdsOf
      /\ [c.s EXCEPT ![k] = d] \in IdsOf /\ [c.fs EXCEPT ![k] = f] \in IdsOf
  BY <1>2, MovedIs
<1>6. /\ cc \in ConfigType /\ cc.caps_active = c.caps_active
      /\ cc.r = [c.r EXCEPT ![k] = a] /\ cc.e = [c.e EXCEPT ![k] = b] /\ cc.s = [c.s EXCEPT ![k] = d]
  BY <1>2, <1>5 DEF ConfigType
<1>7. /\ nn \in KernelType /\ nn.permitted = n.permitted /\ nn.effective = n.effective
      /\ nn.r = [c.r EXCEPT ![k] = a] /\ nn.e = [c.e EXCEPT ![k] = b] /\ nn.s = [c.s EXCEPT ![k] = d]
  BY <1>2, <1>5 DEF KernelType
<1> HIDE DEF cc, nn
<1>8. Sets(c, n, cc, nn, k, a, b, d)
  BY <1>2, <1>5, <1>6, <1>7 DEF Sets
<1>9. SameAnswer(F!Granted(c, yes, cc), F!Linux(n, yes, nn))
  BY <1>8, SetAlike
<1> QED BY <1>9 DEF cc, nn

(* setresuid and setresgid; the capability does not matter to a call that  *)
(* only moves ids the process has.                                         *)
LEMMA SetResIdAlike ==
  ASSUME NEW c, NEW n, Alike(c, n), NEW k \in F!Kinds,
         NEW rid \in Nat \cup {F!Unset}, NEW eid \in Nat \cup {F!Unset}, NEW sid \in Nat \cup {F!Unset},
         \/ {rid, eid, sid} \subseteq {F!Unset, c.r[k], c.e[k], c.s[k]}
         \/ F!Privileged(c) = n.effective
  PROVE  SameAnswer(F!SETRESXID(c, k, rid, eid, sid), F!LinuxSetResId(n, k, rid, eid, sid))
<1> DEFINE priv == F!Privileged(c)
           mine == priv \/ {rid, eid, sid} \subseteq {F!Unset, c.r[k], c.e[k], c.s[k]}
           theirs == n.effective \/ {rid, eid, sid} \subseteq {F!Unset, n.r[k], n.e[k], n.s[k]}
           a == F!Given(rid, c.r[k])
           b == F!Given(eid, c.e[k])
           d == F!Given(sid, c.s[k])
           f == F!Given(eid, c.fs[k])
           cc == [c EXCEPT !.r[k] = a, !.e[k] = b, !.fs[k] = f, !.s[k] = d]
           nn == [n EXCEPT !.r[k] = a, !.e[k] = b, !.s[k] = d]
<1>1. /\ c \in ConfigType /\ n \in KernelType /\ c.r = n.r /\ c.e = n.e /\ c.s = n.s
      /\ c.r[k] \in Nat /\ c.e[k] \in Nat /\ c.s[k] \in Nat /\ c.fs[k] \in Nat
  BY DEF Alike, ConfigType, IdsOf
<1>2. F!SETRESXID(c, k, rid, eid, sid) = F!Granted(c, mine, cc)
  BY DEF F!SETRESXID
<1>3. F!LinuxSetResId(n, k, rid, eid, sid) = F!Linux(n, theirs, nn)
  BY <1>1 DEF F!LinuxSetResId
<1>4. priv \in BOOLEAN /\ (priv <=> F!AnyRoot(c))
  <2>1. priv \in BOOLEAN
    BY <1>1 DEF F!Privileged, ConfigType
  <2> QED BY <2>1, PrivilegedIs
<1>5. mine \in BOOLEAN /\ theirs \in BOOLEAN /\ mine = theirs
  BY <1>1, <1>4 DEF KernelType
<1>6. /\ a \in Nat /\ b \in Nat /\ d \in Nat /\ f \in Nat
      /\ a \in {rid, c.r[k]} \ {F!Unset} /\ b \in {eid, c.e[k]} \ {F!Unset} /\ d \in {sid, c.s[k]} \ {F!Unset}
  BY <1>1, GivenIs
<1> HIDE DEF a, b, d, f
<1>7. Entitled(c, k, mine, a, b, d)
  <2> HIDE DEF priv
  <2> QED BY <1>4, <1>6 DEF Entitled
<1> HIDE DEF mine, theirs
<1>8. SameAnswer(F!Granted(c, mine, cc), F!Linux(n, mine, nn))
  BY <1>5, <1>6, <1>7, ReplacedAlike
<1> HIDE DEF cc, nn
<1> QED BY <1>2, <1>3, <1>5, <1>8

(* setreuid and setregid, where the saved id is what Linux makes it.       *)
LEMMA SetReIdAlike ==
  ASSUME NEW c, NEW n, Alike(c, n), NEW k \in F!Kinds,
         NEW rid \in Nat \cup {F!Unset}, NEW eid \in Nat \cup {F!Unset},
         F!Privileged(c) = n.effective,
         ~(rid # F!Unset /\ eid = F!Unset /\ c.s[k] # c.e[k]),
         F!Privileged(c) \/ ~(rid = c.e[k] /\ rid # c.r[k] /\ eid = c.s[k] /\ eid \notin {c.r[k], c.e[k]})
  PROVE  SameAnswer(F!SETREXID(c, k, rid, eid), F!LinuxSetReId(n, k, rid, eid))
<1> DEFINE priv == F!Privileged(c)
           UnchangedR == rid \in {F!Unset, c.r[k]}
           UnchangedE == eid \in {F!Unset, c.e[k]}
           mine == \/ priv \/ (UnchangedE /\ UnchangedR)
                   \/ rid = c.e[k] /\ (eid = c.r[k] \/ UnchangedE)
                   \/ eid = c.r[k] /\ (rid = c.e[k] \/ UnchangedR)
                   \/ eid = c.s[k] /\ UnchangedR
           theirs == n.effective \/ (rid \in {F!Unset, n.r[k], n.e[k]} /\ eid \in {F!Unset, n.r[k], n.e[k], n.s[k]})
           a == F!Given(rid, c.r[k])
           b == F!Given(eid, c.e[k])
           d == IF eid # F!Unset /\ (eid # c.r[k] \/ rid # F!Unset) THEN eid ELSE c.s[k]
           f == F!Given(eid, c.fs[k])
           theird == IF rid # F!Unset \/ (eid # F!Unset /\ eid # n.r[k]) THEN F!Given(eid, n.e[k]) ELSE n.s[k]
           cc == [c EXCEPT !.r[k] = a, !.e[k] = b, !.fs[k] = f, !.s[k] = d]
           nn == [n EXCEPT !.r[k] = a, !.e[k] = b, !.s[k] = theird]
<1>1. /\ c \in ConfigType /\ n \in KernelType /\ c.r = n.r /\ c.e = n.e /\ c.s = n.s
      /\ c.r[k] \in Nat /\ c.e[k] \in Nat /\ c.s[k] \in Nat /\ c.fs[k] \in Nat
  BY DEF Alike, ConfigType, IdsOf
<1>2. F!SETREXID(c, k, rid, eid) = F!Granted(c, mine, cc)
  BY DEF F!SETREXID
<1>3. F!LinuxSetReId(n, k, rid, eid) = F!Linux(n, theirs, nn)
  BY <1>1 DEF F!LinuxSetReId
<1>4. priv \in BOOLEAN /\ (priv <=> F!AnyRoot(c)) /\ n.effective \in BOOLEAN /\ priv = n.effective
  <2>1. priv \in BOOLEAN /\ n.effective \in BOOLEAN
    BY <1>1 DEF F!Privileged, ConfigType, KernelType
  <2> QED BY <2>1, PrivilegedIs
<1>6. /\ a \in Nat /\ b \in Nat /\ f \in Nat /\ F!Unset \notin Nat
      /\ rid # F!Unset => a = rid
      /\ rid = F!Unset => a = c.r[k]
      /\ eid # F!Unset => b = eid
      /\ eid = F!Unset => b = c.e[k]
  BY <1>1, GivenIs
<1>b. theird = d /\ d \in Nat
  <2>1. theird = IF rid # F!Unset \/ (eid # F!Unset /\ eid # c.r[k]) THEN b ELSE c.s[k]
    BY <1>1
  <2> HIDE DEF theird, a, b
  <2>2. CASE eid = F!Unset
    BY <2>1, <2>2, <1>1, <1>6
  <2>3. CASE eid # F!Unset
    BY <2>1, <2>3, <1>1, <1>6
  <2> QED BY <2>2, <2>3
<1> HIDE DEF a, b, f, theird, priv
<1>5. mine \in BOOLEAN /\ theirs \in BOOLEAN /\ mine = theirs
  <2>1. mine <=> theirs
    BY <1>1, <1>4, <1>6 DEF priv
  <2> QED BY <1>4, <2>1
<1>7. Entitled(c, k, mine, a, b, d)
  <2> SUFFICES ASSUME mine, ~F!AnyRoot(c) PROVE {a, b, d} \subseteq {c.r[k], c.e[k], c.s[k]}
    BY DEF Entitled
  <2>1. ~priv
    BY <1>4
  <2>2. rid \in {F!Unset, c.r[k], c.e[k]} /\ eid \in {F!Unset, c.r[k], c.e[k], c.s[k]}
    BY <2>1
  <2> HIDE DEF mine
  <2>3. a \in {c.r[k], c.e[k]} /\ b \in {c.r[k], c.e[k], c.s[k]}
    BY <1>6, <2>2
  <2>4. d \in {c.r[k], c.e[k], c.s[k]}
    BY <2>2
  <2> QED BY <2>3, <2>4
<1> HIDE DEF mine, theirs
<1>8. [n EXCEPT !.r[k] = a, !.e[k] = b, !.s[k] = theird] = [n EXCEPT !.r[k] = a, !.e[k] = b, !.s[k] = d]
  BY <1>b
<1> HIDE DEF d
<1>9. SameAnswer(F!Granted(c, mine, cc), F!Linux(n, mine, [n EXCEPT !.r[k] = a, !.e[k] = b, !.s[k] = d]))
  BY <1>5, <1>6, <1>b, <1>7, ReplacedAlike
<1>10. SameAnswer(F!Granted(c, mine, cc), F!Linux(n, mine, nn))
  BY <1>8, <1>9
<1> HIDE DEF cc, nn
<1> QED BY <1>2, <1>3, <1>5, <1>10

-----------------------------------------------------------------------------
(* Both sides answer a call alike.                                         *)
LEMMA BothInv ==
  ASSUME NEW mine, NEW theirs, F!Both(mine, theirs), SameAnswer(mine, theirs)
  PROVE  IdsInv'
<1>1. config' = mine.c /\ kernel' = theirs.c /\ told' = [proot |-> mine.res, linux |-> theirs.res]
  BY DEF F!Both
<1>2. Alike(mine.c, theirs.c) /\ mine.res = theirs.res
  BY DEF SameAnswer
<1>3. Alike(config', kernel') /\ told'.proot = told'.linux
  BY <1>1, <1>2
<1> QED BY <1>3 DEF IdsInv, Alike, ConfigType, KernelType, IdsOf, F!AnyRoot

(* A call that leaves the ids alone on both sides.                         *)
LEMMA SameIdsInv ==
  ASSUME IdsInv, NEW cc \in ConfigType, config' = cc, kernel' = kernel, told' = told,
         cc.r = config.r, cc.e = config.e, cc.s = config.s, cc.caps_active = config.caps_active
  PROVE  IdsInv'
<1>1. F!AnyRoot(cc) = F!AnyRoot(config)
  BY DEF F!AnyRoot
<1>2. Alike(cc, kernel)
  BY <1>1 DEF IdsInv, Alike
<1>3. Alike(config', kernel') /\ told'.proot = told'.linux
  BY <1>2 DEF IdsInv
<1> QED BY <1>3 DEF IdsInv, Alike, ConfigType, KernelType, IdsOf, F!AnyRoot

(* setfsuid and setfsgid, prctl, setgroups and getgroups.                  *)
LEMMA OthersInv ==
  ASSUME IdsUsual, IdsInv,
         \/ \E k \in F!Kinds : \E id \in F!Ids(k) : F!setfsxid(k, id)
         \/ \E keep \in BOOLEAN : F!prctl(keep)
         \/ \E gs \in SUBSET Gids : F!setgroups(gs)
         \/ F!getgroups
  PROVE  IdsInv'
<1>1. config \in ConfigType /\ kernel \in KernelType
  BY DEF IdsInv, Alike
<1>2. ASSUME NEW k \in F!Kinds, NEW id \in F!Ids(k), F!setfsxid(k, id) PROVE IdsInv'
  <2>1. id \in Nat
    BY DEF IdsUsual, F!Ids
  <2>2. F!SETFSXID(config, k, id) \in {config, [config EXCEPT !.fs[k] = id]}
    BY DEF F!SETFSXID
  <2>3. [config.fs EXCEPT ![k] = id] \in IdsOf
    BY <1>1, <2>1, MovedIs DEF ConfigType
  <2> DEFINE cc == F!SETFSXID(config, k, id)
  <2>4. cc \in ConfigType /\ cc.r = config.r /\ cc.e = config.e /\ cc.s = config.s /\ cc.caps_active = config.caps_active
    <3> HIDE DEF cc
    <3>1. cc = config \/ cc = [config EXCEPT !.fs[k] = id]
      BY <2>2 DEF cc
    <3> QED BY <3>1, <1>1, <2>3 DEF ConfigType
  <2>5. config' = cc /\ kernel' = kernel /\ told' = told
    BY <1>2 DEF F!setfsxid
  <2> HIDE DEF cc
  <2> QED BY <2>4, <2>5, SameIdsInv
<1>3. ASSUME NEW keep \in BOOLEAN, F!prctl(keep) PROVE IdsInv'
  <2>1. keep = FALSE /\ config' = [config EXCEPT !.keep_caps = keep] /\ kernel' = [kernel EXCEPT !.keep = keep]
        /\ told' = told
    BY <1>3 DEF F!prctl, IdsUsual
  <2>2. config' = config /\ kernel' = kernel
    BY <1>1, <2>1 DEF ConfigType, KernelType
  <2> QED BY <1>1, <2>1, <2>2, SameIdsInv
<1>4. ASSUME NEW gs \in SUBSET Gids, F!setgroups(gs) PROVE IdsInv'
  <2>1. config' = config \/ config' = [config EXCEPT !.groups = gs]
    BY <1>4 DEF F!setgroups
  <2>2. kernel' = kernel /\ told' = told
    BY <1>4 DEF F!setgroups
  <2> DEFINE cc == [config EXCEPT !.groups = gs]
  <2>3. gs \in SUBSET Nat
    BY DEF IdsUsual
  <2>4. cc \in ConfigType /\ cc.r = config.r /\ cc.e = config.e /\ cc.s = config.s /\ cc.caps_active = config.caps_active
    BY <1>1, <2>3 DEF ConfigType
  <2> HIDE DEF cc
  <2>5. config' = config \/ config' = cc
    BY <2>1 DEF cc
  <2> QED BY <1>1, <2>2, <2>4, <2>5, SameIdsInv
<1>5. ASSUME F!getgroups PROVE IdsInv'
  <2> DEFINE cc == [config EXCEPT !.groups = {0}]
  <2>1. config' = cc /\ kernel' = kernel /\ told' = told
    BY <1>5 DEF F!getgroups
  <2>2. cc \in ConfigType /\ cc.r = config.r /\ cc.e = config.e /\ cc.s = config.s /\ cc.caps_active = config.caps_active
    <3>1. {0} \in SUBSET Nat
      OBVIOUS
    <3> QED BY <1>1, <3>1 DEF ConfigType
  <2> HIDE DEF cc
  <2> QED BY <2>1, <2>2, SameIdsInv
<1> QED BY <1>2, <1>3, <1>4, <1>5

(* execve of a program with or without set-id bits, by a process whose     *)
(* saved ids are its effective ones.                                       *)
LEMMA ExecveInv ==
  ASSUME IdsUsual, IdsInv, NEW setuid \in BOOLEAN, NEW setgid \in BOOLEAN, F!execve(setuid, setgid)
  PROVE  IdsInv'
<1> DEFINE e == [k \in F!Kinds |-> IF (k = "u" /\ setuid) \/ (k = "g" /\ setgid) THEN 0 ELSE kernel.e[k]]
           c == F!Execed(config, setuid, setgid)
           n == F!LinuxExeced(kernel, setuid, setgid)
           caps == setuid \/ config.caps_active
           effective == (e["u"] = 0)
           permitted == 0 \in {e["u"], kernel.r["u"]}
           eu == IF setuid THEN 0 ELSE config.e["u"]
           su == IF setuid THEN 0 ELSE config.s["u"]
           eg == IF setgid THEN 0 ELSE config.e["g"]
           sg == IF setgid THEN 0 ELSE config.s["g"]
<1>1. /\ config \in ConfigType /\ kernel \in KernelType
      /\ config.r = kernel.r /\ config.e = kernel.e /\ config.s = kernel.s /\ config.s = config.e
      /\ config.caps_active = F!AnyRoot(config) /\ config.caps_active \in BOOLEAN
      /\ config.r \in IdsOf /\ config.e \in IdsOf
  BY DEF IdsInv, Alike, F!execve, IdsUsual, ConfigType
<1>2. config' = c /\ kernel' = n /\ told' = told
  BY DEF F!execve
<1>3. "u" \in F!Kinds /\ "g" \in F!Kinds /\ \A k \in F!Kinds : k = "u" \/ k = "g"
  BY DEF F!Kinds
<1>4. e \in IdsOf /\ e["u"] = eu /\ e["g"] = eg /\ su = eu /\ sg = eg /\ eu \in Nat /\ eg \in Nat
  BY <1>1, <1>3 DEF IdsOf
<1>5. caps \in BOOLEAN /\ effective \in BOOLEAN /\ permitted \in BOOLEAN
  BY <1>1
<1>6. caps = permitted /\ (permitted <=> e["u"] = 0 \/ config.r["u"] = 0)
  <2>1. F!AnyRoot(config) <=> config.e["u"] = 0 \/ config.r["u"] = 0
    BY <1>1 DEF F!AnyRoot
  <2>2. permitted <=> e["u"] = 0 \/ config.r["u"] = 0
    BY <1>1
  <2>3. caps <=> setuid \/ config.e["u"] = 0 \/ config.r["u"] = 0
    BY <1>1, <2>1
  <2>4. caps <=> permitted
    BY <1>4, <2>2, <2>3
  <2> QED BY <1>5, <2>2, <2>4
<1>7. n = [kernel EXCEPT !.e = e, !.s = e, !.keep = FALSE, !.effective = effective, !.permitted = permitted]
  BY DEF F!LinuxExeced
<1>8. c = [config EXCEPT !.keep_caps = FALSE, !.e["u"] = eu, !.s["u"] = su, !.e["g"] = eg, !.s["g"] = sg, !.caps_active = caps]
  BY DEF F!Execed
<1> HIDE DEF e, c, n, caps, effective, permitted, eu, su, eg, sg
<1>9. /\ n \in KernelType /\ n.r = kernel.r /\ n.e = e /\ n.s = e /\ n.permitted = permitted /\ n.effective = effective
  BY <1>1, <1>4, <1>5, <1>7 DEF KernelType
<1>10. /\ c \in [r : IdsOf, e : {c.e}, s : {c.s}, fs : IdsOf, caps_active : BOOLEAN, keep_caps : {FALSE}, groups : SUBSET Nat]
       /\ c.r = config.r /\ c.e = [config.e EXCEPT !["u"] = eu, !["g"] = eg]
       /\ c.s = [config.s EXCEPT !["u"] = su, !["g"] = sg] /\ c.caps_active = caps
  BY <1>1, <1>5, <1>8 DEF ConfigType
<1>11. c.e = e /\ c.s = e
  BY <1>1, <1>3, <1>4, <1>10 DEF IdsOf
<1>12. c \in ConfigType
  BY <1>4, <1>10, <1>11 DEF ConfigType
<1>13. F!AnyRoot(c) = permitted
  <2>1. c.e["u"] = e["u"] /\ c.s["u"] = e["u"] /\ c.r["u"] = config.r["u"]
    BY <1>10, <1>11
  <2>2. F!AnyRoot(c) <=> e["u"] = 0 \/ config.r["u"] = 0
    BY <2>1 DEF F!AnyRoot
  <2>3. F!AnyRoot(c) \in BOOLEAN
    BY DEF F!AnyRoot
  <2> QED BY <1>5, <1>6, <2>2, <2>3
<1>14. effective = (c.e["u"] = 0)
  BY <1>11 DEF effective
<1>15. Alike(c, n)
  BY <1>1, <1>6, <1>9, <1>10, <1>11, <1>12, <1>13, <1>14 DEF Alike
<1>16. Alike(config', kernel') /\ told'.proot = told'.linux
  BY <1>2, <1>15 DEF IdsInv
<1> QED BY <1>16 DEF IdsInv, Alike, ConfigType, KernelType, IdsOf, F!AnyRoot

(* INITIALIZATION gives both sides the ids of the command line.            *)
LEMMA IdsInitInv == IdsUsual /\ F!Init => IdsInv
<1> SUFFICES ASSUME IdsUsual, F!Init PROVE IdsInv
  OBVIOUS
<1> DEFINE ids(u, g) == [k \in F!Kinds |-> IF k = "u" THEN u ELSE g]
<1>1. PICK u \in Uids, g \in Gids :
        /\ config = [r |-> ids(u, g), e |-> ids(u, g), s |-> ids(u, g), fs |-> ids(u, g), caps_active |-> (u = 0),
                     keep_caps |-> FALSE, groups |-> IF g = 0 THEN {0} ELSE {}]
        /\ kernel = [r |-> ids(u, g), e |-> ids(u, g), s |-> ids(u, g), permitted |-> (u = 0), effective |-> (u = 0), keep |-> FALSE]
  BY DEF F!Init
<1> DEFINE i == ids(u, g)
           groups == IF g = 0 THEN {0} ELSE {}
           root == (u = 0)
<1>2. i \in IdsOf /\ i["u"] = u
  BY DEF IdsUsual, IdsOf, F!Kinds
<1>3. groups \in SUBSET Nat /\ root \in BOOLEAN
  OBVIOUS
<1>4. /\ config = [r |-> i, e |-> i, s |-> i, fs |-> i, caps_active |-> root, keep_caps |-> FALSE, groups |-> groups]
      /\ kernel = [r |-> i, e |-> i, s |-> i, permitted |-> root, effective |-> root, keep |-> FALSE]
  BY <1>1
<1>5. root = (i["u"] = 0)
  BY <1>2
<1> HIDE DEF i, groups, root
<1>6. config \in ConfigType /\ kernel \in KernelType
  BY <1>2, <1>3, <1>4 DEF ConfigType, KernelType
<1>7. F!AnyRoot(config) = root
  <2>1. F!AnyRoot(config) <=> i["u"] = 0
    BY <1>4 DEF F!AnyRoot
  <2>2. F!AnyRoot(config) \in BOOLEAN
    BY DEF F!AnyRoot
  <2> QED BY <1>3, <1>5, <2>1, <2>2
<1>8. Alike(config, kernel)
  BY <1>4, <1>5, <1>6, <1>7 DEF Alike
<1>9. told.proot = told.linux
  BY DEF F!Init
<1> QED BY <1>8, <1>9 DEF IdsInv

(* Every step keeps both sides alike.                                      *)
LEMMA IdsNextInv ==
  ASSUME IdsUsual, IdsInv, [F!Next]_(F!vars)
  PROVE  IdsInv'
<1>1. Alike(config, kernel)
  BY DEF IdsInv
<1>2. \A k \in F!Kinds : F!Ids(k) \subseteq Nat
  BY DEF IdsUsual, F!Ids
<1>3. CASE UNCHANGED F!vars
  <2>1. config' = config /\ kernel' = kernel /\ told' = told
    BY <1>3 DEF F!vars
  <2>2. config \in ConfigType
    BY <1>1 DEF Alike
  <2> QED BY <2>1, <2>2, SameIdsInv
<1>4. ASSUME NEW k \in F!Kinds, NEW id \in F!Ids(k), F!setxid(k, id) PROVE IdsInv'
  <2>1. /\ F!Privileged(config) = kernel.effective
        /\ F!Privileged(config) \/ id # config.e[k] \/ id \in {config.r[k], config.s[k]}
        /\ F!Both(F!SETXID(config, k, id), F!LinuxSetId(kernel, k, id))
    BY <1>4 DEF F!setxid, F!Agreed, IdsUsual
  <2>2. id \in Nat
    BY <1>2
  <2>3. SameAnswer(F!SETXID(config, k, id), F!LinuxSetId(kernel, k, id))
    BY <1>1, <2>1, <2>2, SetIdAlike
  <2> QED BY <2>1, <2>3, BothInv
<1>5. ASSUME NEW k \in F!Kinds, NEW rid \in F!Ids(k) \cup {F!Unset}, NEW eid \in F!Ids(k) \cup {F!Unset}, F!setrexid(k, rid, eid)
      PROVE  IdsInv'
  <2>1. /\ F!Privileged(config) = kernel.effective
        /\ ~(rid # F!Unset /\ eid = F!Unset /\ config.s[k] # config.e[k])
        /\ F!Privileged(config)
           \/ ~(rid = config.e[k] /\ rid # config.r[k] /\ eid = config.s[k] /\ eid \notin {config.r[k], config.e[k]})
        /\ F!Both(F!SETREXID(config, k, rid, eid), F!LinuxSetReId(kernel, k, rid, eid))
    BY <1>5 DEF F!setrexid, F!Crossed, F!Agreed, IdsUsual
  <2>2. rid \in Nat \cup {F!Unset} /\ eid \in Nat \cup {F!Unset}
    BY <1>2
  <2>3. SameAnswer(F!SETREXID(config, k, rid, eid), F!LinuxSetReId(kernel, k, rid, eid))
    BY <1>1, <2>1, <2>2, SetReIdAlike
  <2> QED BY <2>1, <2>3, BothInv
<1>6. ASSUME NEW k \in F!Kinds, NEW rid \in F!Ids(k) \cup {F!Unset}, NEW eid \in F!Ids(k) \cup {F!Unset},
             NEW sid \in F!Ids(k) \cup {F!Unset}, F!setresxid(k, rid, eid, sid)
      PROVE  IdsInv'
  <2>1. /\ \/ {rid, eid, sid} \subseteq {F!Unset, config.r[k], config.e[k], config.s[k]}
           \/ F!Privileged(config) = kernel.effective
        /\ F!Both(F!SETRESXID(config, k, rid, eid, sid), F!LinuxSetResId(kernel, k, rid, eid, sid))
    BY <1>6 DEF F!setresxid, F!Agreed, IdsUsual
  <2>2. rid \in Nat \cup {F!Unset} /\ eid \in Nat \cup {F!Unset} /\ sid \in Nat \cup {F!Unset}
    BY <1>2
  <2>3. SameAnswer(F!SETRESXID(config, k, rid, eid, sid), F!LinuxSetResId(kernel, k, rid, eid, sid))
    BY <1>1, <2>1, <2>2, SetResIdAlike
  <2> QED BY <2>1, <2>3, BothInv
<1>7. ASSUME NEW setuid \in BOOLEAN, NEW setgid \in BOOLEAN, F!execve(setuid, setgid) PROVE IdsInv'
  BY <1>7, ExecveInv
<1> QED BY <1>3, <1>4, <1>5, <1>6, <1>7, OthersInv DEF F!Next

(* For any ids and any number of calls of a process without the cases that *)
(* are known to go wrong (no quirk): set*id calls are granted or refused   *)
(* as by Linux and leave the same real, effective and saved ids, through   *)
(* set-id programs as well.                                                *)
THEOREM IdsAreLinuxs == ASSUME IdsUsual PROVE F!Spec => []F!IdsLikeLinux
<1>1. F!Init => IdsInv
  BY IdsInitInv
<1>2. IdsInv /\ [F!Next]_(F!vars) => IdsInv'
  BY IdsNextInv
<1>3. IdsInv => F!IdsLikeLinux
  BY DEF IdsInv, Alike, F!IdsLikeLinux
<1> QED BY <1>1, <1>2, <1>3, PTL DEF F!Spec

-----------------------------------------------------------------------------
(* What the theorem about FakeModes asks: no quirk, modes are modes.       *)
ModesUsual == Quirks = {} /\ Modes \subseteq Perms /\ M!Dir \notin Files

ModeMaps == [M!AllPaths -> Perms \cup {M!Gone}]
ModesCalls == M!Calls \cup {M!Created(f) : f \in Files}

(* What p has once the nodes nd are freed.                                 *)
Restored(m, nd, p) == M!Flushed(m, nd)[p]

(* A node says what to put back of one path, once, which was changed only  *)
(* to be usable: a call to chmod puts its own mode in there.               *)
NodesOK(nd) ==
  /\ nd \in Seq([path : M!AllPaths, mode : Perms])
  /\ \A i, j \in DOMAIN nd : nd[i].path = nd[j].path => i = j

(* In the middle of the call c, w the modes wanted: the directory lets the *)
(* kernel in, and the modes that will be put back are those wanted, but for *)
(* that of a call to chmod.                                                *)
InCall(m, nd, w, c) ==
  /\ c \in ModesCalls /\ c.do # "rename" /\ "x" \in m[M!Dir]
  /\ c.do = "stat" => M!NodesOf(nd, c.path) = {}
  /\ \A p \in M!AllPaths :
       /\ m[p] = M!Gone => w[p] = M!Gone /\ M!NodesOf(nd, p) = {}
       /\ m[p] # M!Gone =>
            /\ w[p] # M!Gone
            /\ Restored(m, nd, p) = IF M!NodesOf(nd, p) # {} /\ c.do = "chmod" /\ p = c.path THEN c.mode ELSE w[p]

Active(t) == call[t] # M!Idle \/ nodes[t] # <<>>
ModesInv ==
  /\ mode \in ModeMaps /\ want \in ModeMaps /\ want[M!Dir] # M!Gone /\ seen = {}
  /\ DOMAIN call = Tracees /\ DOMAIN nodes = Tracees
  /\ \A t \in Tracees : /\ NodesOK(nodes[t])
                        /\ IF call[t] = M!Idle THEN nodes[t] # <<>> => M!Flushed(mode, nodes[t]) = want
                           ELSE InCall(mode, nodes[t], want, call[t])
  /\ \A t, u \in Tracees : t # u => ~Active(t) \/ ~Active(u)
  /\ (\A t \in Tracees : ~Active(t)) => mode = want

-----------------------------------------------------------------------------
LEMMA ModesCallIs ==
  ASSUME ModesUsual, NEW c \in ModesCalls
  PROVE  /\ c.path \in Files /\ c.to \in Files /\ c.mode \in Perms /\ c # M!Idle
         /\ c.do \in {"open", "stat", "unlink", "chmod", "rename", "creat"}
BY DEF ModesUsual, ModesCalls, M!Calls, M!Created, M!Idle, Perms

LEMMA GoneIsNoMode == M!Gone \notin Perms /\ "x" \notin M!Gone
BY DEF M!Gone, Perms

(* The nodes, one for each path at most.                                   *)
LEMMA RestoredIs ==
  ASSUME NEW m, NEW nd, NodesOK(nd), NEW p \in M!AllPaths
  PROVE  /\ M!NodesOf(nd, p) = {} => Restored(m, nd, p) = m[p]
         /\ \A i \in DOMAIN nd : nd[i].path = p => Restored(m, nd, p) = M!restore_mode(m[p], nd[i])
<1>1. M!NodesOf(nd, p) = {} => Restored(m, nd, p) = m[p]
  BY DEF Restored, M!Flushed
<1>2. ASSUME NEW i \in DOMAIN nd, nd[i].path = p
      PROVE  Restored(m, nd, p) = M!restore_mode(m[p], nd[i])
  <2>1. M!NodesOf(nd, p) = {i} /\ i \in Nat
    BY <1>2 DEF NodesOK, M!NodesOf
  <2>2. (CHOOSE k \in M!NodesOf(nd, p) : \A j \in M!NodesOf(nd, p) : k <= j) = i
    BY <2>1
  <2> QED BY <2>1, <2>2 DEF Restored, M!Flushed
<1> QED BY <1>1, <1>2

LEMMA NodeAdded ==
  ASSUME NEW nd, NodesOK(nd), NEW q \in M!AllPaths, M!NodesOf(nd, q) = {}, NEW x \in Perms
  PROVE  LET n == Append(nd, [path |-> q, mode |-> x])
         IN  /\ NodesOK(n) /\ M!NodesOf(n, q) # {}
             /\ \A m : Restored(m, n, q) = IF m[q] = M!Gone THEN m[q] ELSE x
             /\ \A p \in M!AllPaths : p # q =>
                  /\ M!NodesOf(n, p) = M!NodesOf(nd, p)
                  /\ \A m : Restored(m, n, p) = Restored(m, nd, p)
<1> DEFINE node == [path |-> q, mode |-> x]
           n == Append(nd, node)
           k == Len(nd) + 1
<1>1. /\ nd \in Seq([path : M!AllPaths, mode : Perms]) /\ node \in [path : M!AllPaths, mode : Perms]
      /\ n \in Seq([path : M!AllPaths, mode : Perms])
      /\ DOMAIN n = DOMAIN nd \cup {k} /\ k \notin DOMAIN nd /\ n[k] = node
      /\ \A i \in DOMAIN nd : n[i] = nd[i]
  BY DEF NodesOK
<1>2. \A i \in DOMAIN nd : nd[i].path # q
  BY DEF M!NodesOf
<1>3. NodesOK(n)
  BY <1>1, <1>2 DEF NodesOK
<1>4. k \in M!NodesOf(n, q)
  BY <1>1 DEF M!NodesOf
<1>5. ASSUME NEW m PROVE Restored(m, n, q) = IF m[q] = M!Gone THEN m[q] ELSE x
  <2>1. k \in DOMAIN n /\ n[k].path = q /\ n[k].mode = x
    BY <1>1
  <2> HIDE DEF n, k
  <2>2. Restored(m, n, q) = M!restore_mode(m[q], n[k])
    BY <1>3, <2>1, RestoredIs
  <2> QED BY <2>1, <2>2 DEF M!restore_mode
<1>6. ASSUME NEW p \in M!AllPaths, p # q
      PROVE  M!NodesOf(n, p) = M!NodesOf(nd, p) /\ \A m : Restored(m, n, p) = Restored(m, nd, p)
  <2>1. M!NodesOf(n, p) = M!NodesOf(nd, p)
    BY <1>1, <1>6 DEF M!NodesOf
  <2>2. ASSUME NEW m PROVE Restored(m, n, p) = Restored(m, nd, p)
    <3>1. CASE M!NodesOf(nd, p) = {}
      BY <1>3, <2>1, <3>1, RestoredIs
    <3>2. ASSUME NEW i \in M!NodesOf(nd, p) PROVE Restored(m, n, p) = Restored(m, nd, p)
      <4>1. i \in DOMAIN nd /\ nd[i].path = p /\ i \in DOMAIN n /\ n[i] = nd[i]
        BY <1>1, <3>2 DEF M!NodesOf
      <4> HIDE DEF n
      <4>2. Restored(m, n, p) = M!restore_mode(m[p], n[i])
        BY <1>3, <4>1, RestoredIs
      <4>3. Restored(m, nd, p) = M!restore_mode(m[p], nd[i])
        BY <4>1, RestoredIs
      <4> QED BY <4>1, <4>2, <4>3
    <3> QED BY <3>1, <3>2
  <2> QED BY <2>1, <2>2
<1> QED BY <1>3, <1>4, <1>5, <1>6

(* One path made usable: of f comes g.                                     *)
MadeUsable(f, g, c, p, is_final) ==
  /\ g.mode \in ModeMaps /\ NodesOK(g.nodes)
  /\ \A q \in M!AllPaths : q # p =>
       /\ g.mode[q] = f.mode[q] /\ M!NodesOf(g.nodes, q) = M!NodesOf(f.nodes, q)
       /\ Restored(g.mode, g.nodes, q) = Restored(f.mode, f.nodes, q)
  /\ f.mode[p] = M!Gone => g.mode[p] = M!Gone /\ M!NodesOf(g.nodes, p) = {}
  /\ f.mode[p] # M!Gone =>
       /\ g.mode[p] # M!Gone
       /\ Restored(g.mode, g.nodes, p) =
            IF M!NodesOf(g.nodes, p) # {} /\ is_final /\ c.do = "chmod" THEN c.mode ELSE f.mode[p]
       /\ ~is_final => M!Needed(p) \subseteq g.mode[p]
  /\ is_final /\ c.do = "stat" => M!NodesOf(g.nodes, p) = {}

LEMMA Overridden ==
  ASSUME ModesUsual, NEW f, f.mode \in ModeMaps, NodesOK(f.nodes), NEW c \in ModesCalls,
         NEW p \in M!AllPaths, M!NodesOf(f.nodes, p) = {}, NEW fin \in BOOLEAN
  PROVE  MadeUsable(f, M!override_permissions(f, c, p, fin), c, p, fin)
<1> DEFINE g == M!override_permissions(f, c, p, fin)
           x == IF fin /\ c.do = "chmod" THEN c.mode ELSE f.mode[p]
           kept == f.mode[p] = M!Gone \/ M!Needed(p) \subseteq f.mode[p] \/ (fin /\ c.do = "stat")
<1>1. CASE kept
  <2>1. g = f
    BY <1>1 DEF M!override_permissions
  <2>2. Restored(f.mode, f.nodes, p) = f.mode[p]
    BY RestoredIs
  <2> QED BY <1>1, <2>1, <2>2 DEF MadeUsable
<1>2. CASE ~kept
  <2> DEFINE m == [f.mode EXCEPT ![p] = f.mode[p] \cup M!Needed(p)]
             n == Append(f.nodes, [path |-> p, mode |-> x])
  <2>1. g = [mode |-> m, nodes |-> n]
    BY <1>2 DEF M!override_permissions
  <2>2. f.mode[p] \in Perms /\ x \in Perms
    BY <1>2, ModesCallIs DEF ModeMaps
  <2>3. M!Needed(p) \in Perms
    BY DEF M!Needed, Perms
  <2>4. /\ m \in ModeMaps /\ m[p] = f.mode[p] \cup M!Needed(p) /\ m[p] # M!Gone
        /\ \A q \in M!AllPaths : q # p => m[q] = f.mode[q]
    <3>1. f.mode[p] \cup M!Needed(p) \in Perms
      BY <2>2, <2>3 DEF Perms
    <3>2. m[p] = f.mode[p] \cup M!Needed(p)
      BY DEF ModeMaps
    <3>3. m \in ModeMaps /\ \A q \in M!AllPaths : q # p => m[q] = f.mode[q]
      BY <3>1 DEF ModeMaps
    <3> QED BY <3>1, <3>2, <3>3, GoneIsNoMode
  <2>5. /\ NodesOK(n) /\ M!NodesOf(n, p) # {}
        /\ Restored(m, n, p) = IF m[p] = M!Gone THEN m[p] ELSE x
        /\ \A q \in M!AllPaths : q # p => M!NodesOf(n, q) = M!NodesOf(f.nodes, q) /\ Restored(m, n, q) = Restored(m, f.nodes, q)
    <3> HIDE DEF m, x
    <3> QED BY <2>2, NodeAdded
  <2>6. ASSUME NEW q \in M!AllPaths, q # p PROVE Restored(m, f.nodes, q) = Restored(f.mode, f.nodes, q)
    <3>1. m[q] = f.mode[q]
      BY <2>4, <2>6
    <3> HIDE DEF m
    <3> QED BY <3>1 DEF Restored, M!Flushed
  <2> HIDE DEF m, n, kept
  <2>7. g.mode = m /\ g.nodes = n
    BY <2>1
  <2>8. f.mode[p] # M!Gone /\ ~(fin /\ c.do = "stat") /\ (~fin => M!Needed(p) \subseteq m[p])
    BY <1>2, <2>4 DEF kept
  <2> QED BY <2>4, <2>5, <2>6, <2>7, <2>8 DEF MadeUsable
<1> QED BY <1>1, <1>2

(* Both components of a path, the modes being those wanted before.         *)
LEMMA TranslatedIs ==
  ASSUME ModesUsual, NEW w \in ModeMaps, w[M!Dir] # M!Gone, NEW c \in ModesCalls, c.do # "rename"
  PROVE  LET f == M!Translated([mode |-> w, nodes |-> <<>>], c, c.path)
         IN  f.mode \in ModeMaps /\ NodesOK(f.nodes) /\ InCall(f.mode, f.nodes, w, c)
<1> DEFINE f0 == [mode |-> w, nodes |-> <<>>]
<1>1. /\ f0.mode \in ModeMaps /\ NodesOK(f0.nodes) /\ f0.mode = w
      /\ \A p \in M!AllPaths : M!NodesOf(f0.nodes, p) = {} /\ Restored(w, f0.nodes, p) = w[p]
  <2>1. NodesOK(<<>>) /\ \A p \in M!AllPaths : M!NodesOf(<<>>, p) = {}
    BY DEF NodesOK, M!NodesOf
  <2>2. \A p \in M!AllPaths : Restored(w, <<>>, p) = w[p]
    BY <2>1, RestoredIs
  <2> QED BY <2>1, <2>2
<1>2. /\ M!Dir \in M!AllPaths /\ c.path \in M!AllPaths /\ c.path # M!Dir
      /\ "x" \in M!Needed(M!Dir) /\ c.mode # M!Gone
  BY ModesCallIs, GoneIsNoMode DEF ModesUsual, M!AllPaths, M!Needed
<1> HIDE DEF f0
<1>3. PICK f1 : f1 = M!override_permissions(f0, c, M!Dir, FALSE)
  OBVIOUS
<1>4. /\ f1.mode \in ModeMaps /\ NodesOK(f1.nodes)
      /\ \A q \in M!AllPaths : q # M!Dir => f1.mode[q] = w[q] /\ M!NodesOf(f1.nodes, q) = {} /\ Restored(f1.mode, f1.nodes, q) = w[q]
      /\ f1.mode[M!Dir] # M!Gone /\ "x" \in f1.mode[M!Dir] /\ Restored(f1.mode, f1.nodes, M!Dir) = w[M!Dir]
  <2>1. MadeUsable(f0, f1, c, M!Dir, FALSE)
    BY <1>1, <1>2, <1>3, Overridden
  <2> QED BY <1>1, <1>2, <2>1 DEF MadeUsable
<1>5. PICK f2 : f2 = M!override_permissions(f1, c, c.path, TRUE)
  OBVIOUS
<1>6. MadeUsable(f1, f2, c, c.path, TRUE) /\ f1.mode[c.path] = w[c.path]
  BY <1>2, <1>4, <1>5, Overridden
<1>7. ASSUME NEW p \in M!AllPaths
      PROVE  /\ f2.mode[p] = M!Gone => w[p] = M!Gone /\ M!NodesOf(f2.nodes, p) = {}
             /\ f2.mode[p] # M!Gone =>
                  /\ w[p] # M!Gone
                  /\ Restored(f2.mode, f2.nodes, p) =
                       IF M!NodesOf(f2.nodes, p) # {} /\ c.do = "chmod" /\ p = c.path THEN c.mode ELSE w[p]
  <2>1. CASE p = M!Dir
    BY <1>2, <1>4, <1>6, <2>1 DEF MadeUsable
  <2>2. CASE p = c.path
    BY <1>6, <2>2 DEF MadeUsable
  <2>3. CASE p # M!Dir /\ p # c.path
    BY <1>4, <1>6, <2>3 DEF MadeUsable
  <2> QED BY <2>1, <2>2, <2>3
<1>8. InCall(f2.mode, f2.nodes, w, c)
  BY <1>2, <1>4, <1>6, <1>7 DEF InCall, MadeUsable
<1>9. f2 = M!Translated([mode |-> w, nodes |-> <<>>], c, c.path)
  BY <1>3, <1>5 DEF M!Translated, f0
<1> QED BY <1>6, <1>8, <1>9 DEF MadeUsable

(* What the kernel does on the modes of a call is what the guest wants,    *)
(* once they are put back.                                                 *)
LEMMA DoesIsWanted ==
  ASSUME ModesUsual, NEW m \in ModeMaps, NEW w \in ModeMaps, NEW nd, NodesOK(nd), NEW c, InCall(m, nd, w, c)
  PROVE  /\ M!Does(m, c) \in ModeMaps /\ M!Does(w, c) \in ModeMaps /\ M!Does(w, c)[M!Dir] = w[M!Dir]
         /\ M!Flushed(M!Does(m, c), nd) = M!Does(w, c)
         /\ c.do = "stat" => m[c.path] = w[c.path]
<1> DEFINE D(u) == M!Does(u, c)
<1>1. /\ c \in ModesCalls /\ c.path \in M!AllPaths /\ c.path # M!Dir /\ c.mode \in Perms /\ c.mode # M!Gone
      /\ c.do \in {"open", "stat", "unlink", "chmod", "creat"} /\ M!Dir \in M!AllPaths
  BY ModesCallIs, GoneIsNoMode DEF InCall, ModesUsual, M!AllPaths
<1>2. ASSUME NEW u \in ModeMaps
      PROVE  /\ D(u) \in ModeMaps
             /\ \A p \in M!AllPaths : p # c.path => D(u)[p] = u[p]
             /\ (u[c.path] = M!Gone) # (c.do = "creat") => D(u)[c.path] = u[c.path]
             /\ (u[c.path] = M!Gone) = (c.do = "creat") =>
                  D(u)[c.path] = IF c.do \in {"chmod", "creat"} THEN c.mode
                                 ELSE IF c.do = "unlink" THEN M!Gone ELSE u[c.path]
  BY <1>1 DEF M!Does, ModeMaps
<1>3. ASSUME NEW p \in M!AllPaths
      PROVE  /\ m[p] = M!Gone => w[p] = M!Gone /\ M!NodesOf(nd, p) = {}
             /\ m[p] # M!Gone =>
                  /\ w[p] # M!Gone
                  /\ Restored(m, nd, p) = IF M!NodesOf(nd, p) # {} /\ c.do = "chmod" /\ p = c.path THEN c.mode ELSE w[p]
  BY DEF InCall
<1>4. ASSUME NEW u, NEW p \in M!AllPaths
      PROVE  /\ M!NodesOf(nd, p) = {} => Restored(u, nd, p) = u[p]
             /\ u[p] = M!Gone => Restored(u, nd, p) = M!Gone
             /\ u[p] # M!Gone /\ m[p] # M!Gone /\ M!NodesOf(nd, p) # {} => Restored(u, nd, p) = Restored(m, nd, p)
             /\ u[p] = m[p] => Restored(u, nd, p) = Restored(m, nd, p)
  <2>1. CASE M!NodesOf(nd, p) = {}
    <3>1. Restored(u, nd, p) = u[p] /\ Restored(m, nd, p) = m[p]
      BY <2>1, RestoredIs
    <3> QED BY <2>1, <3>1
  <2>2. ASSUME NEW i \in M!NodesOf(nd, p)
        PROVE  /\ u[p] = M!Gone => Restored(u, nd, p) = M!Gone
               /\ u[p] # M!Gone /\ m[p] # M!Gone => Restored(u, nd, p) = Restored(m, nd, p)
               /\ u[p] = m[p] => Restored(u, nd, p) = Restored(m, nd, p)
    <3>1. i \in DOMAIN nd /\ nd[i].path = p
      BY <2>2 DEF M!NodesOf
    <3>2. Restored(u, nd, p) = M!restore_mode(u[p], nd[i]) /\ Restored(m, nd, p) = M!restore_mode(m[p], nd[i])
      BY <3>1, RestoredIs
    <3> QED BY <3>2 DEF M!restore_mode
  <2> QED BY <2>1, <2>2
<1> HIDE DEF D
<1>5. ASSUME NEW p \in M!AllPaths PROVE Restored(D(m), nd, p) = D(w)[p]
  <2>1. CASE p # c.path
    <3>1. D(m)[p] = m[p] /\ D(w)[p] = w[p]
      BY <1>2, <2>1
    <3>2. CASE m[p] = M!Gone
      BY <1>3, <1>4, <3>1, <3>2
    <3>3. CASE m[p] # M!Gone
      <4>1. Restored(m, nd, p) = w[p]
        BY <1>3, <2>1, <3>3
      <4> QED BY <1>4, <3>1, <4>1
    <3> QED BY <3>2, <3>3
  <2>2. CASE p = c.path /\ (m[p] = M!Gone) # (c.do = "creat")
    <3>1. D(m)[p] = m[p] /\ D(w)[p] = w[p]
      BY <1>2, <1>3, <2>2
    <3>2. CASE m[p] = M!Gone
      BY <1>3, <1>4, <3>1, <3>2
    <3>3. CASE m[p] # M!Gone
      <4>1. Restored(m, nd, p) = w[p]
        BY <1>3, <2>2, <3>3
      <4> QED BY <1>4, <3>1, <4>1
    <3> QED BY <3>2, <3>3
  <2>3. CASE p = c.path /\ (m[p] = M!Gone) = (c.do = "creat")
    <3>1. (w[p] = M!Gone) = (c.do = "creat")
      BY <1>3, <2>3
    <3>2. CASE c.do = "creat"
      <4>1. D(m)[p] = c.mode /\ D(w)[p] = c.mode /\ M!NodesOf(nd, p) = {}
        BY <1>2, <1>3, <2>3, <3>1, <3>2
      <4> QED BY <1>4, <4>1
    <3>3. CASE c.do = "chmod"
      <4>1. D(m)[p] = c.mode /\ D(w)[p] = c.mode /\ m[p] # M!Gone
        BY <1>2, <2>3, <3>1, <3>3
      <4>2. CASE M!NodesOf(nd, p) = {}
        BY <1>4, <4>1, <4>2
      <4>3. CASE M!NodesOf(nd, p) # {}
        <5>1. Restored(m, nd, p) = c.mode
          BY <1>3, <2>3, <3>3, <4>1, <4>3
        <5> QED BY <1>1, <1>4, <4>1, <4>3, <5>1
      <4> QED BY <4>2, <4>3
    <3>4. CASE c.do = "unlink"
      <4>1. D(m)[p] = M!Gone /\ D(w)[p] = M!Gone
        BY <1>2, <2>3, <3>1, <3>4
      <4> QED BY <1>4, <4>1
    <3>5. CASE c.do \in {"open", "stat"}
      <4>1. D(m)[p] = m[p] /\ D(w)[p] = w[p] /\ m[p] # M!Gone
        BY <1>2, <2>3, <3>1, <3>5
      <4>2. Restored(m, nd, p) = w[p]
        BY <1>3, <3>5, <4>1
      <4> QED BY <1>4, <4>1, <4>2
    <3> QED BY <1>1, <3>2, <3>3, <3>4, <3>5
  <2> QED BY <2>1, <2>2, <2>3
<1>6. M!Flushed(D(m), nd) = D(w)
  <2>1. D(w) \in ModeMaps
    BY <1>2
  <2>2. D(w) = [p \in M!AllPaths |-> D(w)[p]]
    BY <2>1 DEF ModeMaps
  <2>3. M!Flushed(D(m), nd) = [p \in M!AllPaths |-> M!Flushed(D(m), nd)[p]]
    BY DEF M!Flushed
  <2>4. \A p \in M!AllPaths : M!Flushed(D(m), nd)[p] = D(w)[p]
    BY <1>5 DEF Restored
  <2> QED BY <2>2, <2>3, <2>4
<1>7. ASSUME c.do = "stat" PROVE m[c.path] = w[c.path]
  <2>1. M!NodesOf(nd, c.path) = {}
    BY <1>7 DEF InCall
  <2>2. Restored(m, nd, c.path) = m[c.path]
    BY <1>1, <1>4, <2>1
  <2> QED BY <1>1, <1>3, <1>7, <2>2
<1>8. D(m) \in ModeMaps /\ D(w) \in ModeMaps /\ D(w)[M!Dir] = w[M!Dir]
  BY <1>1, <1>2
<1> QED BY <1>6, <1>7, <1>8 DEF D

-----------------------------------------------------------------------------
(* Where no tracee is in a call, what is left to put back gives the modes   *)
(* wanted.                                                                 *)
LEMMA FlushedIsWanted ==
  ASSUME ModesInv, NEW t \in Tracees, call[t] = M!Idle, \A u \in Tracees \ {t} : ~Active(u)
  PROVE  M!Flushed(mode, nodes[t]) = want
<1>1. CASE nodes[t] # <<>>
  BY <1>1 DEF ModesInv
<1>2. CASE nodes[t] = <<>>
  <2>1. mode = want
    BY <1>2 DEF ModesInv, Active
  <2>2. \A p \in M!AllPaths : M!NodesOf(nodes[t], p) = {}
    BY <1>2 DEF M!NodesOf
  <2>3. M!Flushed(mode, nodes[t]) = [p \in M!AllPaths |-> mode[p]]
    BY <2>2 DEF M!Flushed
  <2> QED BY <2>1, <2>3 DEF ModesInv, ModeMaps
<1> QED BY <1>1, <1>2

LEMMA ModesInit == ASSUME ModesUsual, M!Init PROVE ModesInv
<1>1. mode \in ModeMaps /\ mode[M!Dir] # M!Gone
  <2>1. Modes \cup {{"r", "w", "x"}} \subseteq Perms /\ M!Dir \in M!AllPaths
    BY DEF ModesUsual, Perms, M!AllPaths
  <2>2. mode \in [M!AllPaths -> Perms]
    BY <2>1 DEF M!Init
  <2> QED BY <2>1, <2>2, GoneIsNoMode DEF ModeMaps
<1>2. NodesOK(<<>>)
  BY DEF NodesOK
<1> QED BY <1>1, <1>2 DEF M!Init, ModesInv, Active

LEMMA EnterKeeps ==
  ASSUME ModesUsual, ModesInv, NEW t \in Tracees, NEW c \in ModesCalls, M!Enter(t, c)
  PROVE  ModesInv'
<1>1. /\ call[t] = M!Idle /\ \A u \in Tracees \ {t} : ~Active(u)
      /\ c.do # "rename" /\ want' = want /\ seen' = seen
      /\ call' = [call EXCEPT ![t] = c]
  BY DEF M!Enter, Active, ModesUsual
<1>2. M!Flushed(mode, nodes[t]) = want
  BY <1>1, FlushedIsWanted
<1>3. PICK f : f = M!Translated([mode |-> want, nodes |-> <<>>], c, c.path)
  OBVIOUS
<1>4. mode' = f.mode /\ nodes' = [nodes EXCEPT ![t] = f.nodes]
  BY <1>1, <1>2, <1>3 DEF M!Enter
<1>5. f.mode \in ModeMaps /\ NodesOK(f.nodes) /\ InCall(f.mode, f.nodes, want, c)
  BY <1>1, <1>3, TranslatedIs DEF ModesInv
<1>6. /\ DOMAIN call' = Tracees /\ DOMAIN nodes' = Tracees
      /\ call'[t] = c /\ nodes'[t] = f.nodes /\ c # M!Idle
      /\ \A u \in Tracees \ {t} : call'[u] = M!Idle /\ nodes'[u] = <<>>
  BY <1>1, <1>4, ModesCallIs DEF ModesInv, Active
<1>7. NodesOK(<<>>)
  BY DEF NodesOK
<1>8. InCall(mode, nodes[t], want, call[t])'
  BY <1>1, <1>4, <1>5, <1>6 DEF InCall, ModesCalls, Restored
<1> QED BY <1>1, <1>4, <1>5, <1>6, <1>7, <1>8 DEF ModesInv, Active, ModeMaps, NodesOK

LEMMA KernelKeeps ==
  ASSUME ModesUsual, ModesInv, NEW t \in Tracees, M!Kernel(t)
  PROVE  ModesInv'
<1>1. PICK c, nd : c = call[t] /\ nd = nodes[t]
  OBVIOUS
<1>2. InCall(mode, nd, want, c) /\ NodesOK(nd) /\ "x" \in mode[M!Dir] /\ c # M!Idle
  BY <1>1 DEF M!Kernel, ModesInv, InCall
<1>3. mode' = M!Does(mode, c) /\ want' = M!Does(want, c) /\ nodes' = nodes /\ call' = [call EXCEPT ![t] = M!Idle]
  BY <1>1, <1>2 DEF M!Kernel
<1>4. /\ M!Does(mode, c) \in ModeMaps /\ M!Does(want, c) \in ModeMaps /\ M!Does(want, c)[M!Dir] = want[M!Dir]
      /\ M!Flushed(M!Does(mode, c), nd) = M!Does(want, c)
      /\ c.do = "stat" => mode[c.path] = want[c.path]
  BY <1>2, DoesIsWanted DEF ModesInv
<1>5. seen' = {}
  BY <1>1, <1>4 DEF M!Kernel, ModesInv
<1>6. M!Flushed(mode', nodes'[t]) = want'
  BY <1>1, <1>3, <1>4
<1>7. /\ DOMAIN call' = Tracees /\ DOMAIN nodes' = Tracees
      /\ call'[t] = M!Idle /\ \A u \in Tracees \ {t} : call'[u] = M!Idle /\ nodes'[u] = <<>>
  BY <1>1, <1>2, <1>3 DEF ModesInv, Active
<1>8. (\A u \in Tracees : ~Active(u)') => mode' = want'
  <2>1. SUFFICES ASSUME nodes'[t] = <<>> PROVE mode' = want'
    BY DEF Active
  <2>2. \A p \in M!AllPaths : M!NodesOf(nodes'[t], p) = {}
    BY <2>1 DEF M!NodesOf
  <2>3. M!Flushed(mode', nodes'[t]) = [p \in M!AllPaths |-> mode'[p]]
    BY <2>2 DEF M!Flushed
  <2>4. mode' = [p \in M!AllPaths |-> mode'[p]]
    BY <1>3, <1>4 DEF ModeMaps
  <2> QED BY <1>6, <2>3, <2>4
<1> QED BY <1>3, <1>4, <1>5, <1>6, <1>7, <1>8 DEF ModesInv, Active, ModeMaps, NodesOK

LEMMA StopKeeps ==
  ASSUME ModesInv, NEW t \in Tracees, M!Stop(t)
  PROVE  ModesInv'
<1>1. /\ call[t] = M!Idle /\ nodes[t] # <<>> /\ want' = want /\ seen' = seen /\ call' = call
      /\ mode' = M!Flushed(mode, nodes[t]) /\ nodes' = [nodes EXCEPT ![t] = <<>>]
  BY DEF M!Stop
<1>2. \A u \in Tracees \ {t} : ~Active(u)
  BY <1>1 DEF ModesInv, Active
<1>3. mode' = want
  BY <1>1, <1>2, FlushedIsWanted
<1>4. NodesOK(<<>>)
  BY DEF NodesOK
<1>5. /\ DOMAIN call' = Tracees /\ DOMAIN nodes' = Tracees
      /\ \A u \in Tracees : call'[u] = M!Idle /\ nodes'[u] = <<>>
  BY <1>1, <1>2 DEF ModesInv, Active
<1> QED BY <1>1, <1>3, <1>4, <1>5 DEF ModesInv, Active, ModeMaps, NodesOK

LEMMA ModesNext == ASSUME ModesUsual, ModesInv, [M!Next]_(M!vars) PROVE ModesInv'
<1>1. CASE UNCHANGED M!vars
  BY <1>1 DEF M!vars, ModesInv, Active, InCall, ModeMaps, NodesOK, ModesCalls, Restored
<1>2. ASSUME NEW t \in Tracees, NEW c \in M!Calls, M!Enter(t, c) PROVE ModesInv'
  BY <1>2, EnterKeeps DEF ModesCalls
<1>3. ASSUME NEW t \in Tracees, NEW f \in Files, M!Enter(t, M!Created(f)) PROVE ModesInv'
  BY <1>3, EnterKeeps DEF ModesCalls
<1>4. ASSUME NEW t \in Tracees, M!Kernel(t) PROVE ModesInv'
  BY <1>4, KernelKeeps
<1>5. ASSUME NEW t \in Tracees, M!Stop(t) PROVE ModesInv'
  BY <1>5, StopKeeps
<1> QED BY <1>1, <1>2, <1>3, <1>4, <1>5 DEF M!Next

(* fake_id0.c, override_permissions and restore_mode: with no two tracees   *)
(* in calls at once and no rename, the modes of the files are those the     *)
(* guest gave as soon as no call is under way and all is put back, and no   *)
(* call to stat tells the guest of a mode made usable behind its back.      *)
THEOREM ModesFollow == ASSUME ModesUsual PROVE M!Spec => []M!ModesAreTheGuests
<1>1. M!Init => ModesInv
  BY ModesInit
<1>2. ModesInv /\ [M!Next]_(M!vars) => ModesInv'
  BY ModesNext
<1>3. ModesInv => M!ModesAreTheGuests
  BY DEF ModesInv, Active, M!ModesAreTheGuests
<1> QED BY <1>1, <1>2, <1>3, PTL DEF M!Spec
-----------------------------------------------------------------------------
(* What the theorem about Bindings asks: a command line binds "/" to       *)
(* something, paths are made of Components, and there is a first process.  *)
Route == Seq(Components)
Bound == [host : Route, guest : Route, startup : BOOLEAN]
BindUsual ==
  /\ Procs # {} /\ B!None \notin Procs
  /\ {"glue", "proc", "tmp"} \cup Nat \subseteq Components
  /\ Startups \subseteq {o \in Seq(Bound) : \E i \in DOMAIN o : o[i].guest = <<>>}
  /\ Args \subseteq [abs : BOOLEAN, path : Route]

(* The two lists of a table, each of the same bindings once, none after    *)
(* one that contains it.                                                   *)
Distinct(s) == \A i, j \in DOMAIN s : s[i] = s[j] => i = j
Elems(s) == {s[i] : i \in DOMAIN s}
Places(g) == {g[i].guest : i \in DOMAIN g}
InnerGuests(g) == \A i, j \in DOMAIN g : i < j => ~B!IsPrefix(g[i].guest, g[j].guest)
InnerHosts(h) == \A i, j \in DOMAIN h : i < j => ~B!IsStrictPrefix(h[i].host, h[j].host)
Lists == [guest : Seq(Bound), host : Seq(Bound)]
GoodLists(l) ==
  /\ l \in Lists /\ InnerGuests(l.guest) /\ InnerHosts(l.host)
  /\ Distinct(l.host) /\ Elems(l.guest) = Elems(l.host) /\ Len(l.guest) = Len(l.host)

(* A path is a prefix of another by their components.                      *)
LEMMA PrefixIs ==
  ASSUME NEW a \in Route, NEW b \in Route
  PROVE  B!IsPrefix(a, b) <=> Len(a) =< Len(b) /\ \A i \in 1 .. Len(a) : a[i] = b[i]
<1>1. Len(a) \in Nat /\ Len(b) \in Nat /\ SubSeq(a, 1, Len(a)) = a
  BY SubSeqFull DEF Route
<1>2. ASSUME Len(a) =< Len(b)
      PROVE  SubSeq(b, 1, Len(a)) \in Route /\ Len(SubSeq(b, 1, Len(a))) = Len(a)
             /\ \A i \in 1 .. Len(a) : SubSeq(b, 1, Len(a))[i] = b[i]
  <2>1. \A i \in 1 .. Len(a) : b[i] \in Components
    BY <1>1, <1>2 DEF Route
  <2>2. PICK n : n = Len(a)
    OBVIOUS
  <2>3. 1 \in Int /\ n \in Int /\ \A i \in 1 .. n : b[i] \in Components
    BY <1>1, <2>1, <2>2
  <2>4. /\ SubSeq(b, 1, n) \in Seq(Components) /\ Len(SubSeq(b, 1, n)) = IF 1 <= n THEN n - 1 + 1 ELSE 0
        /\ \A i \in 1 .. n - 1 + 1 : SubSeq(b, 1, n)[i] = b[1 + i - 1]
    BY <2>3, SubSeqProperties
  <2>5. n \in Nat /\ Len(SubSeq(b, 1, n)) = n
    BY <1>1, <2>2, <2>4
  <2>6. \A i \in 1 .. n : i \in 1 .. n - 1 + 1 /\ 1 + i - 1 = i
    BY <2>5
  <2>7. \A i \in 1 .. n : SubSeq(b, 1, n)[i] = b[i]
    BY <2>4, <2>6
  <2> QED BY <2>2, <2>4, <2>5, <2>7 DEF Route
<1>3. CASE Len(a) =< Len(b)
  <2>1. PICK s : s = SubSeq(b, 1, Len(a))
    OBVIOUS
  <2>2. s \in Route /\ Len(s) = Len(a) /\ \A i \in 1 .. Len(a) : s[i] = b[i]
    BY <1>2, <1>3, <2>1
  <2>3. a = s <=> \A i \in 1 .. Len(a) : a[i] = s[i]
    BY <2>2, SeqEqual DEF Route
  <2> QED BY <1>1, <1>3, <2>1, <2>2, <2>3 DEF B!IsPrefix
<1>4. CASE ~(Len(a) =< Len(b))
  BY <1>4 DEF B!IsPrefix
<1> QED BY <1>3, <1>4

LEMMA PrefixOrder ==
  ASSUME NEW a \in Route, NEW b \in Route, NEW c \in Route
  PROVE  /\ B!IsPrefix(a, a)
         /\ B!IsPrefix(a, b) /\ B!IsPrefix(b, c) => B!IsPrefix(a, c)
         /\ B!IsPrefix(a, b) /\ B!IsPrefix(b, a) => a = b
         /\ B!IsPrefix(<<>>, a)
         /\ <<>> \in Route
<1>1. Len(a) \in Nat /\ Len(b) \in Nat /\ Len(c) \in Nat /\ <<>> \in Route /\ Len(<<>>) = 0
  BY DEF Route
<1>2. B!IsPrefix(a, a) /\ B!IsPrefix(<<>>, a)
  BY <1>1, PrefixIs
<1>3. B!IsPrefix(a, b) /\ B!IsPrefix(b, c) => B!IsPrefix(a, c)
  <2> SUFFICES ASSUME B!IsPrefix(a, b), B!IsPrefix(b, c) PROVE B!IsPrefix(a, c)
    OBVIOUS
  <2>1. /\ Len(a) =< Len(b) /\ \A i \in 1 .. Len(a) : a[i] = b[i]
        /\ Len(b) =< Len(c) /\ \A i \in 1 .. Len(b) : b[i] = c[i]
    BY PrefixIs
  <2>2. Len(a) =< Len(c) /\ \A i \in 1 .. Len(a) : i \in 1 .. Len(b)
    BY <1>1, <2>1
  <2> QED BY <2>1, <2>2, PrefixIs
<1>4. B!IsPrefix(a, b) /\ B!IsPrefix(b, a) => a = b
  <2> SUFFICES ASSUME B!IsPrefix(a, b), B!IsPrefix(b, a) PROVE a = b
    OBVIOUS
  <2>1. Len(a) =< Len(b) /\ Len(b) =< Len(a) /\ \A i \in 1 .. Len(a) : a[i] = b[i]
    BY PrefixIs
  <2>2. Len(a) = Len(b)
    BY <1>1, <2>1
  <2> QED BY <2>1, <2>2, SeqEqual DEF Route
<1> QED BY <1>1, <1>2, <1>3, <1>4

(* The least of some numbers.                                              *)
Min(S) == CHOOSE x \in S : \A y \in S : x =< y

LEMMA MinInSet == ASSUME NEW S \in SUBSET Nat, S # {} PROVE Min(S) \in S /\ \A y \in S : Min(S) =< y
<1> DEFINE Less == {ss \in Nat \X Nat : ss[1] < ss[2]}
<1>1. IsWellFoundedOn(Less, Nat)
  BY NatLessThanWellFounded DEF OpToRel
<1>2. PICK x \in S : \A y \in S : ~(<<y, x>> \in Less)
  <2> HIDE DEF Less
  <2> QED BY <1>1, WFMin
<1>3. \A y \in S : x =< y
  <2> TAKE y \in S
  <2>1. x \in Nat /\ y \in Nat /\ ~(<<y, x>> \in Less)
    BY <1>2
  <2>2. ~(y < x)
    BY <2>1
  <2> QED BY <2>1, <2>2
<1> QED BY <1>3 DEF Min

(* The largest of some indices.                                            *)
LEMMA MaxInSet ==
  ASSUME NEW n \in Nat, NEW S \in SUBSET (1 .. n), S # {}
  PROVE  \E x \in S : \A y \in S : y =< x
<1> DEFINE T == {n - x : x \in S}
<1>1. T \in SUBSET Nat /\ T # {}
  <2>1. \A x \in S : n - x \in Nat
    <3> TAKE x \in S
    <3>1. x \in 1 .. n
      OBVIOUS
    <3> QED BY <3>1
  <2> QED BY <2>1
<1>2. PICK m \in T : \A y \in T : m =< y
  <2> HIDE DEF T
  <2> QED BY <1>1, MinInSet
<1>3. PICK x \in S : m = n - x
  BY <1>2
<1>4. \A y \in S : y =< x
  <2> TAKE y \in S
  <2>1. n - x =< n - y /\ x \in Nat /\ y \in Nat
    BY <1>2, <1>3
  <2> QED BY <2>1
<1> QED BY <1>4

(* Where an element is inserted.                                           *)
Inserted(s, k, e, r) ==
  /\ k \in 1 .. Len(s) + 1 /\ r \in Seq(Bound) /\ Len(r) = Len(s) + 1 /\ DOMAIN r = 1 .. Len(s) + 1
  /\ \A i \in 1 .. Len(s) + 1 : r[i] = IF i < k THEN s[i] ELSE IF i = k THEN e ELSE s[i - 1]

LEMMA InsertAtIs ==
  ASSUME NEW s \in Seq(Bound), NEW e \in Bound, NEW k \in 1 .. Len(s) + 1
  PROVE  Inserted(s, k, e, B!InsertAt(s, k, e))
<1>1. PICK n : n = Len(s)
  OBVIOUS
<1>2. n \in Nat /\ k \in 1 .. n + 1 /\ \A i \in 1 .. n : s[i] \in Bound
  BY <1>1
<1>3. PICK u, v : u = SubSeq(s, 1, k - 1) /\ v = SubSeq(s, k, n)
  OBVIOUS
<1>4. u \in Seq(Bound) /\ Len(u) = k - 1 /\ \A i \in 1 .. k - 1 : u[i] = s[i]
  <2>1. PICK m : m = k - 1
    OBVIOUS
  <2>2. 1 \in Int /\ m \in Int /\ \A i \in 1 .. m : s[i] \in Bound
    BY <1>2, <2>1
  <2>3. /\ SubSeq(s, 1, m) \in Seq(Bound) /\ Len(SubSeq(s, 1, m)) = IF 1 <= m THEN m - 1 + 1 ELSE 0
        /\ \A i \in 1 .. m - 1 + 1 : SubSeq(s, 1, m)[i] = s[1 + i - 1]
    BY <2>2, SubSeqProperties
  <2>4. m \in Nat
    BY <1>2, <2>1
  <2>5. \A i \in 1 .. m : i \in 1 .. m - 1 + 1 /\ 1 + i - 1 = i
    BY <2>4
  <2>6. \A i \in 1 .. m : SubSeq(s, 1, m)[i] = s[i]
    BY <2>3, <2>5
  <2>7. Len(SubSeq(s, 1, m)) = m
    BY <2>3, <2>4
  <2> QED BY <1>3, <2>1, <2>3, <2>6, <2>7
<1>5. v \in Seq(Bound) /\ Len(v) = n + 1 - k /\ \A i \in 1 .. n + 1 - k : v[i] = s[k + i - 1]
  <2>1. k \in Int /\ n \in Int /\ \A i \in k .. n : s[i] \in Bound
    BY <1>2
  <2>2. /\ SubSeq(s, k, n) \in Seq(Bound) /\ Len(SubSeq(s, k, n)) = IF k <= n THEN n - k + 1 ELSE 0
        /\ \A i \in 1 .. n - k + 1 : SubSeq(s, k, n)[i] = s[k + i - 1]
    BY <2>1, SubSeqProperties
  <2>3. n - k + 1 = n + 1 - k /\ (~(k <= n) => n + 1 - k = 0)
    BY <1>2
  <2> QED BY <1>3, <2>2, <2>3
<1>6. PICK w : w = u \o <<e>>
  OBVIOUS
<1>7. w \in Seq(Bound) /\ Len(w) = k /\ (\A i \in 1 .. k - 1 : w[i] = s[i]) /\ w[k] = e
  <2>0. PICK x : x = <<e>>
    OBVIOUS
  <2>1. x \in Seq(Bound) /\ Len(x) = 1 /\ x[1] = e
    BY <2>0
  <2>2. /\ w \in Seq(Bound) /\ Len(w) = (k - 1) + 1
        /\ \A i \in 1 .. (k - 1) + 1 : w[i] = IF i <= k - 1 THEN u[i] ELSE x[i - (k - 1)]
    <3>1. /\ u \o x \in Seq(Bound) /\ Len(u \o x) = Len(u) + Len(x)
          /\ \A i \in 1 .. Len(u) + Len(x) : (u \o x)[i] = IF i <= Len(u) THEN u[i] ELSE x[i - Len(u)]
      BY <1>4, <2>1, ConcatProperties, Zenon
    <3>2. w = u \o x /\ Len(u) = k - 1 /\ Len(x) = 1
      BY <1>4, <1>6, <2>0, <2>1
    <3> QED BY <3>1, <3>2, Zenon
  <2>3. (k - 1) + 1 = k /\ k - (k - 1) = 1 /\ k \in 1 .. k /\ ~(k <= k - 1) /\ \A i \in 1 .. k - 1 : i \in 1 .. k /\ i <= k - 1
    BY <1>2
  <2> QED BY <1>4, <2>1, <2>2, <2>3
<1>8. PICK r : r = w \o v
  OBVIOUS
<1>9. /\ r \in Seq(Bound) /\ Len(r) = k + (n + 1 - k)
      /\ \A i \in 1 .. k + (n + 1 - k) : r[i] = IF i <= k THEN w[i] ELSE v[i - k]
  <2>1. /\ w \o v \in Seq(Bound) /\ Len(w \o v) = Len(w) + Len(v)
        /\ \A i \in 1 .. Len(w) + Len(v) : (w \o v)[i] = IF i <= Len(w) THEN w[i] ELSE v[i - Len(w)]
    BY <1>5, <1>7, ConcatProperties, Zenon
  <2> QED BY <1>5, <1>7, <1>8, <2>1, Zenon
<1>10. k + (n + 1 - k) = n + 1
  BY <1>2
<1>11. ASSUME NEW i \in 1 .. n + 1 PROVE r[i] = IF i < k THEN s[i] ELSE IF i = k THEN e ELSE s[i - 1]
  <2>1. CASE i < k
    <3>1. i \in 1 .. k - 1 /\ i <= k
      BY <1>2, <2>1
    <3> QED BY <1>7, <1>9, <1>10, <2>1, <3>1
  <2>2. CASE i = k
    BY <1>2, <1>7, <1>9, <1>10, <2>2
  <2>3. CASE i > k
    <3>1. i - k \in 1 .. n + 1 - k /\ k + (i - k) - 1 = i - 1 /\ ~(i <= k) /\ ~(i < k)
      BY <1>2, <2>3
    <3>2. r[i] = v[i - k]
      BY <1>9, <1>10, <3>1
    <3>3. v[i - k] = s[k + (i - k) - 1]
      BY <1>5, <3>1
    <3> QED BY <2>3, <3>1, <3>2, <3>3
  <2> QED BY <1>2, <2>1, <2>2, <2>3
<1>12. B!InsertAt(s, k, e) = r
  BY <1>1, <1>3, <1>6, <1>8 DEF B!InsertAt
<1>13. DOMAIN r = 1 .. n + 1
  BY <1>9, <1>10, LenProperties
<1>14. Inserted(s, k, e, r)
  BY <1>1, <1>9, <1>10, <1>11, <1>13 DEF Inserted
<1> QED BY <1>12, <1>14

LEMMA PlacesOfElems == \A s : Places(s) = {b.guest : b \in Elems(s)}
BY DEF Places, Elems

LEMMA RemoveAtIs ==
  ASSUME NEW s \in Seq(Bound), NEW k \in 1 .. Len(s)
  PROVE  LET r == B!RemoveAt(s, k) IN
         /\ r \in Seq(Bound) /\ Len(r) = Len(s) - 1 /\ DOMAIN r = 1 .. Len(s) - 1
         /\ \A i \in 1 .. Len(s) - 1 : r[i] = IF i < k THEN s[i] ELSE s[i + 1]
<1>1. PICK n : n = Len(s)
  OBVIOUS
<1>2. n \in Nat /\ k \in 1 .. n /\ \A i \in 1 .. n : s[i] \in Bound
  BY <1>1
<1>3. PICK u, v : u = SubSeq(s, 1, k - 1) /\ v = SubSeq(s, k + 1, n)
  OBVIOUS
<1>4. u \in Seq(Bound) /\ Len(u) = k - 1 /\ \A i \in 1 .. k - 1 : u[i] = s[i]
  <2>1. PICK m : m = k - 1
    OBVIOUS
  <2>2. 1 \in Int /\ m \in Int /\ \A i \in 1 .. m : s[i] \in Bound
    BY <1>2, <2>1
  <2>3. /\ SubSeq(s, 1, m) \in Seq(Bound) /\ Len(SubSeq(s, 1, m)) = IF 1 <= m THEN m - 1 + 1 ELSE 0
        /\ \A i \in 1 .. m - 1 + 1 : SubSeq(s, 1, m)[i] = s[1 + i - 1]
    BY <2>2, SubSeqProperties
  <2>4. m \in Nat
    BY <1>2, <2>1
  <2>5. \A i \in 1 .. m : i \in 1 .. m - 1 + 1 /\ 1 + i - 1 = i
    BY <2>4
  <2>6. \A i \in 1 .. m : SubSeq(s, 1, m)[i] = s[i]
    BY <2>3, <2>5
  <2>7. Len(SubSeq(s, 1, m)) = m
    BY <2>3, <2>4
  <2> QED BY <1>3, <2>1, <2>3, <2>6, <2>7
<1>5. v \in Seq(Bound) /\ Len(v) = n - k /\ \A i \in 1 .. n - k : v[i] = s[k + i]
  <2>1. PICK m : m = k + 1
    OBVIOUS
  <2>2. m \in Int /\ n \in Int /\ \A i \in m .. n : s[i] \in Bound
    BY <1>2, <2>1
  <2>3. /\ SubSeq(s, m, n) \in Seq(Bound) /\ Len(SubSeq(s, m, n)) = IF m <= n THEN n - m + 1 ELSE 0
        /\ \A i \in 1 .. n - m + 1 : SubSeq(s, m, n)[i] = s[m + i - 1]
    BY <2>2, SubSeqProperties
  <2>4. n - m + 1 = n - k /\ (~(m <= n) => n - k = 0) /\ \A i \in 1 .. n - k : m + i - 1 = k + i
    BY <1>2, <2>1
  <2> QED BY <1>3, <2>1, <2>3, <2>4
<1>6. PICK r : r = u \o v
  OBVIOUS
<1>7. /\ r \in Seq(Bound) /\ Len(r) = (k - 1) + (n - k)
      /\ \A i \in 1 .. (k - 1) + (n - k) : r[i] = IF i <= k - 1 THEN u[i] ELSE v[i - (k - 1)]
  <2>1. /\ u \o v \in Seq(Bound) /\ Len(u \o v) = Len(u) + Len(v)
        /\ \A i \in 1 .. Len(u) + Len(v) : (u \o v)[i] = IF i <= Len(u) THEN u[i] ELSE v[i - Len(u)]
    BY <1>4, <1>5, ConcatProperties, Zenon
  <2> QED BY <1>4, <1>5, <1>6, <2>1, Zenon
<1>8. (k - 1) + (n - k) = n - 1
  BY <1>2
<1>9. ASSUME NEW i \in 1 .. n - 1 PROVE r[i] = IF i < k THEN s[i] ELSE s[i + 1]
  <2>1. CASE i < k
    <3>1. i \in 1 .. k - 1 /\ i <= k - 1
      BY <1>2, <2>1
    <3> QED BY <1>4, <1>7, <1>8, <2>1, <3>1
  <2>2. CASE ~(i < k)
    <3>1. i - (k - 1) \in 1 .. n - k /\ k + (i - (k - 1)) = i + 1 /\ ~(i <= k - 1)
      BY <1>2, <2>2
    <3>2. r[i] = v[i - (k - 1)]
      BY <1>7, <1>8, <3>1
    <3>3. v[i - (k - 1)] = s[k + (i - (k - 1))]
      BY <1>5, <3>1
    <3> QED BY <2>2, <3>1, <3>2, <3>3
  <2> QED BY <2>1, <2>2
<1>10. B!RemoveAt(s, k) = r
  BY <1>1, <1>3, <1>6 DEF B!RemoveAt
<1>11. DOMAIN r = 1 .. n - 1
  BY <1>7, <1>8, LenProperties
<1> QED BY <1>1, <1>7, <1>8, <1>9, <1>10, <1>11

(* What a list with an element more holds.                                 *)
LEMMA InsertedElems ==
  ASSUME NEW s \in Seq(Bound), NEW e \in Bound, NEW k, NEW r, Inserted(s, k, e, r)
  PROVE  Elems(r) = Elems(s) \cup {e} /\ Places(r) = Places(s) \cup {e.guest}
<1>1. PICK n \in Nat : n = Len(s) /\ DOMAIN s = 1 .. n
  OBVIOUS
<1>2. /\ k \in 1 .. n + 1 /\ DOMAIN r = 1 .. n + 1
      /\ \A i \in 1 .. n + 1 : r[i] = IF i < k THEN s[i] ELSE IF i = k THEN e ELSE s[i - 1]
  BY <1>1 DEF Inserted
<1>3. \A i \in 1 .. n + 1 : i = k \/ \E j \in 1 .. n : r[i] = s[j]
  <2> TAKE i \in 1 .. n + 1
  <2>1. CASE i < k
    <3>1. i \in 1 .. n
      BY <1>2, <2>1
    <3> QED BY <1>2, <2>1, <3>1
  <2>2. CASE i > k
    <3>1. i - 1 \in 1 .. n /\ ~(i < k) /\ i # k
      BY <1>2, <2>2
    <3> QED BY <1>2, <2>2, <3>1
  <2> QED BY <1>2, <2>1, <2>2
<1>4. \A j \in 1 .. n : \E i \in 1 .. n + 1 : r[i] = s[j]
  <2> TAKE j \in 1 .. n
  <2>1. CASE j < k
    <3>1. j \in 1 .. n + 1
      BY <2>1
    <3> QED BY <1>2, <2>1, <3>1
  <2>2. CASE ~(j < k)
    <3>1. j + 1 \in 1 .. n + 1 /\ ~(j + 1 < k) /\ j + 1 # k /\ (j + 1) - 1 = j
      BY <1>2, <2>2
    <3>2. r[j + 1] = s[j]
      BY <1>2, <3>1
    <3> QED BY <3>1, <3>2
  <2> QED BY <2>1, <2>2
<1>5. k \in 1 .. n + 1 /\ r[k] = e
  BY <1>2
<1>6. Elems(r) = {r[i] : i \in 1 .. n + 1} /\ Elems(s) = {s[i] : i \in 1 .. n}
  BY <1>1, <1>2 DEF Elems
<1>7. Elems(r) \subseteq Elems(s) \cup {e}
  <2>1. \A i \in 1 .. n + 1 : r[i] = e \/ \E j \in 1 .. n : r[i] = s[j]
    BY <1>3, <1>5
  <2> QED BY <1>6, <2>1
<1>8. Elems(s) \cup {e} \subseteq Elems(r)
  BY <1>4, <1>5, <1>6
<1>9. Elems(r) = Elems(s) \cup {e}
  BY <1>7, <1>8
<1> QED BY <1>9, PlacesOfElems

(* An insertion after what e is before, and before what is before e.       *)
LEMMA GuestInserted ==
  ASSUME NEW s \in Seq(Bound), NEW e \in Bound, NEW k, NEW r, Inserted(s, k, e, r), InnerGuests(s),
         \A i \in DOMAIN s : i < k => ~B!IsPrefix(s[i].guest, e.guest),
         \A i \in DOMAIN s : i >= k => ~B!IsPrefix(e.guest, s[i].guest)
  PROVE  InnerGuests(r)
<1>1. PICK n \in Nat : n = Len(s) /\ DOMAIN s = 1 .. n
  OBVIOUS
<1>2. /\ k \in 1 .. n + 1 /\ DOMAIN r = 1 .. n + 1
      /\ \A i \in 1 .. n + 1 : r[i] = IF i < k THEN s[i] ELSE IF i = k THEN e ELSE s[i - 1]
  BY <1>1 DEF Inserted
<1> SUFFICES ASSUME NEW i \in 1 .. n + 1, NEW j \in 1 .. n + 1, i < j
             PROVE  ~B!IsPrefix(r[i].guest, r[j].guest)
  BY <1>2 DEF InnerGuests
<1>3. CASE i < k /\ j < k
  <2>1. i \in 1 .. n /\ j \in 1 .. n /\ r[i] = s[i] /\ r[j] = s[j]
    BY <1>2, <1>3
  <2> QED BY <1>1, <2>1 DEF InnerGuests
<1>4. CASE i < k /\ j = k
  <2>1. i \in 1 .. n /\ r[i] = s[i] /\ r[j] = e
    BY <1>2, <1>4
  <2> QED BY <1>1, <1>4, <2>1
<1>5. CASE i < k /\ j > k
  <2>1. i \in 1 .. n /\ j - 1 \in 1 .. n /\ i < j - 1 /\ r[i] = s[i] /\ r[j] = s[j - 1]
    BY <1>2, <1>5
  <2> QED BY <1>1, <2>1 DEF InnerGuests
<1>6. CASE i = k
  <2>1. j - 1 \in 1 .. n /\ j - 1 >= k /\ r[i] = e /\ r[j] = s[j - 1]
    BY <1>2, <1>6
  <2> QED BY <1>1, <2>1
<1>7. CASE i > k
  <2>1. i - 1 \in 1 .. n /\ j - 1 \in 1 .. n /\ i - 1 < j - 1 /\ r[i] = s[i - 1] /\ r[j] = s[j - 1]
    BY <1>2, <1>7
  <2> QED BY <1>1, <2>1 DEF InnerGuests
<1> QED BY <1>2, <1>3, <1>4, <1>5, <1>6, <1>7

LEMMA HostInserted ==
  ASSUME NEW s \in Seq(Bound), NEW e \in Bound, NEW k, NEW r, Inserted(s, k, e, r), InnerHosts(s),
         \A i \in DOMAIN s : i < k => ~B!IsStrictPrefix(s[i].host, e.host),
         \A i \in DOMAIN s : i >= k => ~B!IsStrictPrefix(e.host, s[i].host)
  PROVE  InnerHosts(r)
<1>1. PICK n \in Nat : n = Len(s) /\ DOMAIN s = 1 .. n
  OBVIOUS
<1>2. /\ k \in 1 .. n + 1 /\ DOMAIN r = 1 .. n + 1
      /\ \A i \in 1 .. n + 1 : r[i] = IF i < k THEN s[i] ELSE IF i = k THEN e ELSE s[i - 1]
  BY <1>1 DEF Inserted
<1> SUFFICES ASSUME NEW i \in 1 .. n + 1, NEW j \in 1 .. n + 1, i < j
             PROVE  ~B!IsStrictPrefix(r[i].host, r[j].host)
  BY <1>2 DEF InnerHosts
<1>3. CASE i < k /\ j < k
  <2>1. i \in 1 .. n /\ j \in 1 .. n /\ r[i] = s[i] /\ r[j] = s[j]
    BY <1>2, <1>3
  <2> QED BY <1>1, <2>1 DEF InnerHosts
<1>4. CASE i < k /\ j = k
  <2>1. i \in 1 .. n /\ r[i] = s[i] /\ r[j] = e
    BY <1>2, <1>4
  <2> QED BY <1>1, <1>4, <2>1
<1>5. CASE i < k /\ j > k
  <2>1. i \in 1 .. n /\ j - 1 \in 1 .. n /\ i < j - 1 /\ r[i] = s[i] /\ r[j] = s[j - 1]
    BY <1>2, <1>5
  <2> QED BY <1>1, <2>1 DEF InnerHosts
<1>6. CASE i = k
  <2>1. j - 1 \in 1 .. n /\ j - 1 >= k /\ r[i] = e /\ r[j] = s[j - 1]
    BY <1>2, <1>6
  <2> QED BY <1>1, <2>1
<1>7. CASE i > k
  <2>1. i - 1 \in 1 .. n /\ j - 1 \in 1 .. n /\ i - 1 < j - 1 /\ r[i] = s[i - 1] /\ r[j] = s[j - 1]
    BY <1>2, <1>7
  <2> QED BY <1>1, <2>1 DEF InnerHosts
<1> QED BY <1>2, <1>3, <1>4, <1>5, <1>6, <1>7

LEMMA DistinctInserted ==
  ASSUME NEW s \in Seq(Bound), NEW e \in Bound, NEW k, NEW r, Inserted(s, k, e, r), Distinct(s), e \notin Elems(s)
  PROVE  Distinct(r)
<1>1. PICK n \in Nat : n = Len(s) /\ DOMAIN s = 1 .. n
  OBVIOUS
<1>2. /\ k \in 1 .. n + 1 /\ DOMAIN r = 1 .. n + 1
      /\ \A i \in 1 .. n + 1 : r[i] = IF i < k THEN s[i] ELSE IF i = k THEN e ELSE s[i - 1]
  BY <1>1 DEF Inserted
<1>3. \A i, j \in 1 .. n : s[i] = s[j] => i = j
  BY <1>1 DEF Distinct
<1>4. \A i \in 1 .. n : s[i] # e
  BY <1>1 DEF Elems
<1> DEFINE o(i) == IF i < k THEN i ELSE i - 1
<1>5. \A i \in 1 .. n + 1 : i # k => o(i) \in 1 .. n /\ r[i] = s[o(i)]
  BY <1>2
<1>6. \A i, j \in 1 .. n + 1 : i # k /\ j # k /\ o(i) = o(j) => i = j
  BY <1>2
<1>7. r[k] = e
  BY <1>2
<1> HIDE DEF o
<1>8. ASSUME NEW i \in 1 .. n + 1, NEW j \in 1 .. n + 1, r[i] = r[j] PROVE i = j
  <2>1. CASE i = k
    BY <1>4, <1>5, <1>7, <1>8, <2>1
  <2>2. CASE j = k
    BY <1>4, <1>5, <1>7, <1>8, <2>2
  <2>3. CASE i # k /\ j # k
    BY <1>3, <1>5, <1>6, <1>8, <2>3
  <2> QED BY <2>1, <2>2, <2>3
<1> QED BY <1>2, <1>8 DEF Distinct

(* Where Insorted inserts on the side of the guests, what is bound to the  *)
(* same path being somewhere else.                                         *)
LEMMA GuestInsorted ==
  ASSUME NEW s \in Seq(Bound), NEW e \in Bound
  PROVE  \E k : /\ Inserted(s, k, e, B!Insorted(s, e, B!InGuest))
                /\ InnerGuests(s) /\ (\A i \in DOMAIN s : s[i].guest # e.guest)
                     => InnerGuests(B!Insorted(s, e, B!InGuest))
<1>1. PICK n \in Nat : n = Len(s) /\ DOMAIN s = 1 .. n
  OBVIOUS
<1> DEFINE inside == {i \in 1 .. Len(s) : B!InGuest(e, s[i])}
<1> DEFINE top == CHOOSE i \in inside : \A j \in inside : j <= i
<1> DEFINE k == IF inside = {} THEN 1 ELSE 1 + top
<1>2. inside # {} => top \in inside /\ \A j \in inside : j <= top
  <2>1. inside \in SUBSET (1 .. n)
    BY <1>1
  <2> HIDE DEF inside
  <2>2. inside # {} => \E x \in inside : \A y \in inside : y =< x
    BY <2>1, MaxInSet
  <2> QED BY <2>2
<1>3. k \in 1 .. Len(s) + 1
  <2>1. inside \subseteq 1 .. Len(s)
    OBVIOUS
  <2>2. inside # {} => top \in 1 .. n
    BY <1>1, <1>2, <2>1
  <2> HIDE DEF inside, top
  <2>3. CASE inside = {}
    <3>1. k = 1
      BY <2>3
    <3> HIDE DEF k
    <3> QED BY <1>1, <3>1
  <2>4. CASE inside # {}
    <3>1. k = 1 + top /\ top \in 1 .. n
      BY <2>2, <2>4
    <3> HIDE DEF k
    <3> QED BY <1>1, <3>1
  <2> QED BY <2>3, <2>4
<1> DEFINE r == B!Insorted(s, e, B!InGuest)
<1>4. r = B!InsertAt(s, k, e)
  BY DEF B!Insorted
<1>5. Inserted(s, k, e, r)
  <2> HIDE DEF k, r
  <2>1. PICK j \in 1 .. Len(s) + 1 : j = k
    BY <1>3
  <2>2. PICK q : q = B!InsertAt(s, j, e)
    OBVIOUS
  <2>3. Inserted(s, j, e, q)
    BY <2>2, InsertAtIs
  <2> QED BY <1>4, <2>1, <2>2, <2>3
<1>6. ASSUME InnerGuests(s), \A i \in DOMAIN s : s[i].guest # e.guest
      PROVE  InnerGuests(r)
  <2>0. \A i \in 1 .. n : s[i].guest \in Route /\ e.guest \in Route
    <3>1. \A i \in 1 .. n : s[i] \in Bound
      BY <1>1
    <3> QED BY <3>1 DEF Bound
  <2>1. \A i \in 1 .. n : i \in inside <=> B!IsPrefix(e.guest, s[i].guest)
    BY <1>1, <1>6 DEF B!InGuest, B!IsStrictPrefix
  <2>2. inside # {} => top \in 1 .. n
    BY <1>1, <1>2
  <2> HIDE DEF inside, top
  <2>3. ASSUME NEW i \in DOMAIN s, i < k PROVE ~B!IsPrefix(s[i].guest, e.guest)
    <3> SUFFICES ASSUME B!IsPrefix(s[i].guest, e.guest) PROVE FALSE
      OBVIOUS
    <3>1. inside # {} /\ i =< top /\ i \in 1 .. n /\ top \in 1 .. n
      BY <1>1, <2>2, <2>3
    <3>2. B!IsPrefix(e.guest, s[top].guest)
      BY <1>2, <2>1, <3>1
    <3>3. CASE i = top
      <4>1. s[i].guest = e.guest
        BY <2>0, <3>1, <3>2, <3>3, PrefixOrder
      <4> QED BY <1>1, <1>6, <3>1, <4>1
    <3>4. CASE i < top
      <4>1. B!IsPrefix(s[i].guest, s[top].guest)
        BY <2>0, <3>1, <3>2, PrefixOrder
      <4> QED BY <1>1, <1>6, <3>1, <3>4, <4>1 DEF InnerGuests
    <3> QED BY <3>1, <3>3, <3>4
  <2>4. ASSUME NEW i \in DOMAIN s, i >= k PROVE ~B!IsPrefix(e.guest, s[i].guest)
    <3> SUFFICES ASSUME B!IsPrefix(e.guest, s[i].guest) PROVE FALSE
      OBVIOUS
    <3>1. i \in 1 .. n /\ i \in inside
      BY <1>1, <2>1
    <3>2. i =< top /\ k = 1 + top /\ top \in 1 .. n
      BY <1>2, <2>2, <3>1
    <3> QED BY <2>4, <3>1, <3>2
  <2> HIDE DEF k, r
  <2> QED BY <1>5, <1>6, <2>3, <2>4, GuestInserted
<1> QED BY <1>5, <1>6

(* And on the side of the hosts, where paths may be bound several times.   *)
LEMMA HostInsorted ==
  ASSUME NEW s \in Seq(Bound), NEW e \in Bound, InnerHosts(s)
  PROVE  \E k : /\ Inserted(s, k, e, B!Insorted(s, e, B!InHost))
                /\ InnerHosts(B!Insorted(s, e, B!InHost))
<1>1. PICK n \in Nat : n = Len(s) /\ DOMAIN s = 1 .. n
  OBVIOUS
<1> DEFINE inside == {i \in 1 .. Len(s) : B!InHost(e, s[i])}
<1> DEFINE top == CHOOSE i \in inside : \A j \in inside : j <= i
<1> DEFINE k == IF inside = {} THEN 1 ELSE 1 + top
<1>2. inside # {} => top \in inside /\ \A j \in inside : j <= top
  <2>1. inside \in SUBSET (1 .. n)
    BY <1>1
  <2> HIDE DEF inside
  <2>2. inside # {} => \E x \in inside : \A y \in inside : y =< x
    BY <2>1, MaxInSet
  <2> QED BY <2>2
<1>3. k \in 1 .. Len(s) + 1
  <2>1. inside \subseteq 1 .. Len(s)
    OBVIOUS
  <2>2. inside # {} => top \in 1 .. n
    BY <1>1, <1>2, <2>1
  <2> HIDE DEF inside, top
  <2>3. CASE inside = {}
    <3>1. k = 1
      BY <2>3
    <3> HIDE DEF k
    <3> QED BY <1>1, <3>1
  <2>4. CASE inside # {}
    <3>1. k = 1 + top /\ top \in 1 .. n
      BY <2>2, <2>4
    <3> HIDE DEF k
    <3> QED BY <1>1, <3>1
  <2> QED BY <2>3, <2>4
<1> DEFINE r == B!Insorted(s, e, B!InHost)
<1>4. r = B!InsertAt(s, k, e)
  BY DEF B!Insorted
<1>5. Inserted(s, k, e, r)
  <2> HIDE DEF k, r
  <2>1. PICK j \in 1 .. Len(s) + 1 : j = k
    BY <1>3
  <2>2. PICK q : q = B!InsertAt(s, j, e)
    OBVIOUS
  <2>3. Inserted(s, j, e, q)
    BY <2>2, InsertAtIs
  <2> QED BY <1>4, <2>1, <2>2, <2>3
<1>6. InnerHosts(r)
  <2>0. \A i \in 1 .. n : s[i].host \in Route /\ e.host \in Route
    <3>1. \A i \in 1 .. n : s[i] \in Bound
      BY <1>1
    <3> QED BY <3>1 DEF Bound
  <2>1. \A i \in 1 .. n : i \in inside <=> B!IsPrefix(e.host, s[i].host)
    BY <1>1 DEF B!InHost
  <2>2. inside # {} => top \in 1 .. n
    BY <1>1, <1>2
  <2> HIDE DEF inside, top
  <2>3. ASSUME NEW i \in DOMAIN s, i < k PROVE ~B!IsStrictPrefix(s[i].host, e.host)
    <3> SUFFICES ASSUME B!IsPrefix(s[i].host, e.host), s[i].host # e.host PROVE FALSE
      BY DEF B!IsStrictPrefix
    <3>1. inside # {} /\ i =< top /\ i \in 1 .. n /\ top \in 1 .. n
      BY <1>1, <2>2, <2>3
    <3>2. B!IsPrefix(e.host, s[top].host)
      BY <1>2, <2>1, <3>1
    <3>3. B!IsPrefix(s[i].host, s[top].host) /\ s[i].host # s[top].host
      BY <2>0, <3>1, <3>2, PrefixOrder
    <3>4. i < top
      BY <3>1, <3>3
    <3> QED BY <1>1, <3>1, <3>3, <3>4 DEF InnerHosts, B!IsStrictPrefix
  <2>4. ASSUME NEW i \in DOMAIN s, i >= k PROVE ~B!IsStrictPrefix(e.host, s[i].host)
    <3> SUFFICES ASSUME B!IsPrefix(e.host, s[i].host) PROVE FALSE
      BY DEF B!IsStrictPrefix
    <3>1. i \in 1 .. n /\ i \in inside
      BY <1>1, <2>1
    <3>2. i =< top /\ k = 1 + top /\ top \in 1 .. n
      BY <1>2, <2>2, <3>1
    <3> QED BY <2>4, <3>1, <3>2
  <2> HIDE DEF k, r
  <2> QED BY <1>5, <2>3, <2>4, HostInserted
<1> QED BY <1>5, <1>6

(* Where an element is removed from a list.                                *)
Removed(s, k, r) ==
  /\ k \in 1 .. Len(s) /\ r \in Seq(Bound) /\ Len(r) = Len(s) - 1 /\ DOMAIN r = 1 .. Len(s) - 1
  /\ \A i \in 1 .. Len(s) - 1 : r[i] = IF i < k THEN s[i] ELSE s[i + 1]

LEMMA RemoveFirstIs ==
  ASSUME NEW s \in Seq(Bound), NEW e
  PROVE  /\ e \notin Elems(s) => B!RemoveFirst(s, e) = s
         /\ e \in Elems(s) => \E k \in 1 .. Len(s) : s[k] = e /\ Removed(s, k, B!RemoveFirst(s, e))
<1>1. PICK n \in Nat : n = Len(s) /\ DOMAIN s = 1 .. n
  OBVIOUS
<1>2. e \in Elems(s) <=> \E i \in 1 .. Len(s) : s[i] = e
  BY <1>1 DEF Elems
<1>3. ASSUME e \in Elems(s)
      PROVE  \E k \in 1 .. Len(s) : s[k] = e /\ Removed(s, k, B!RemoveFirst(s, e))
  <2> DEFINE I == {i \in 1 .. Len(s) : s[i] = e}
  <2> DEFINE k == B!SelectInSeq(s, LAMBDA v : v = e)
  <2>1. k = IF I # {} THEN B!Min(I) ELSE 0
    BY DEF B!SelectInSeq
  <2>2. I # {} /\ I \in SUBSET Nat
    BY <1>1, <1>2, <1>3
  <2>3. B!Min(I) \in I
    <3> HIDE DEF I
    <3>1. PICK x \in I : \A y \in I : x =< y
      BY <2>2, MinInSet
    <3> QED BY <3>1 DEF B!Min
  <2>4. k \in 1 .. Len(s) /\ s[k] = e
    <3>1. k \in I
      <4> HIDE DEF I, k
      <4> QED BY <2>1, <2>2, <2>3
    <3> HIDE DEF k
    <3> QED BY <3>1
  <2>5. B!RemoveFirst(s, e) = B!RemoveAt(s, k)
    BY <1>2, <1>3 DEF B!RemoveFirst
  <2> HIDE DEF k
  <2> QED BY <2>4, <2>5, RemoveAtIs DEF Removed
<1>4. e \notin Elems(s) => B!RemoveFirst(s, e) = s
  BY <1>2 DEF B!RemoveFirst
<1> QED BY <1>3, <1>4

(* What is left of a list without one of its elements.                     *)
LEMMA RemovedKeeps ==
  ASSUME NEW s \in Seq(Bound), NEW k, NEW r, Removed(s, k, r)
  PROVE  /\ InnerGuests(s) => InnerGuests(r)
         /\ InnerHosts(s) => InnerHosts(r)
         /\ Distinct(s) => Distinct(r) /\ Elems(r) = Elems(s) \ {s[k]}
<1>1. PICK n \in Nat : n = Len(s) /\ DOMAIN s = 1 .. n
  OBVIOUS
<1> DEFINE o(i) == IF i < k THEN i ELSE i + 1
<1>2. /\ k \in 1 .. n /\ DOMAIN r = 1 .. n - 1
      /\ \A i \in 1 .. n - 1 : r[i] = s[o(i)]
  BY <1>1 DEF Removed
<1>3. \A i \in 1 .. n - 1 : o(i) \in 1 .. n /\ o(i) # k
  BY <1>2
<1>4. \A i, j \in 1 .. n - 1 : (i < j => o(i) < o(j)) /\ (o(i) = o(j) => i = j)
  BY <1>2
<1>5. \A j \in 1 .. n : j # k => \E i \in 1 .. n - 1 : o(i) = j
  <2> TAKE j \in 1 .. n
  <2>1. CASE j < k
    <3>1. j \in 1 .. n - 1 /\ o(j) = j
      BY <1>2, <2>1
    <3> QED BY <3>1
  <2>2. CASE j > k
    <3>1. j - 1 \in 1 .. n - 1 /\ o(j - 1) = j
      BY <1>2, <2>2
    <3> QED BY <3>1
  <2> QED BY <1>2, <2>1, <2>2
<1> HIDE DEF o
<1>6. InnerGuests(s) => InnerGuests(r)
  BY <1>1, <1>2, <1>3, <1>4 DEF InnerGuests
<1>7. InnerHosts(s) => InnerHosts(r)
  BY <1>1, <1>2, <1>3, <1>4 DEF InnerHosts
<1>8. ASSUME Distinct(s) PROVE Distinct(r) /\ Elems(r) = Elems(s) \ {s[k]}
  <2>1. \A i, j \in 1 .. n : s[i] = s[j] => i = j
    BY <1>1, <1>8 DEF Distinct
  <2>2. \A i, j \in 1 .. n - 1 : r[i] = r[j] => i = j
    BY <1>2, <1>3, <1>4, <2>1
  <2>3. Elems(r) = {r[i] : i \in 1 .. n - 1} /\ Elems(s) = {s[i] : i \in 1 .. n}
    BY <1>1, <1>2 DEF Elems
  <2>4. Elems(r) \subseteq Elems(s) \ {s[k]}
    <3>1. \A i \in 1 .. n - 1 : o(i) \in 1 .. n /\ r[i] = s[o(i)] /\ r[i] # s[k]
      BY <1>2, <1>3, <2>1
    <3> QED BY <2>3, <3>1
  <2>5. Elems(s) \ {s[k]} \subseteq Elems(r)
    <3>1. \A j \in 1 .. n : s[j] # s[k] => \E i \in 1 .. n - 1 : r[i] = s[j]
      BY <1>2, <1>5
    <3> QED BY <2>3, <3>1
  <2> QED BY <1>2, <2>2, <2>4, <2>5 DEF Distinct
<1> QED BY <1>6, <1>7, <1>8

(* Guest paths that contain no later one are all different.                *)
LEMMA DifferentGuests ==
  ASSUME NEW s \in Seq(Bound), InnerGuests(s)
  PROVE  \A i, j \in DOMAIN s : s[i].guest = s[j].guest => i = j
<1>1. PICK n \in Nat : n = Len(s) /\ DOMAIN s = 1 .. n
  OBVIOUS
<1> SUFFICES ASSUME NEW i \in 1 .. n, NEW j \in 1 .. n, s[i].guest = s[j].guest PROVE i = j
  BY <1>1
<1>2. s[i].guest \in Route
  <2>1. s[i] \in Bound
    BY <1>1
  <2> QED BY <2>1 DEF Bound
<1>3. B!IsPrefix(s[i].guest, s[j].guest) /\ B!IsPrefix(s[j].guest, s[i].guest)
  BY <1>2, PrefixOrder
<1>4. ~(i < j) /\ ~(j < i)
  BY <1>1, <1>3 DEF InnerGuests
<1> QED BY <1>4

(* A guest path that replaces its equal.                                   *)
Replacement(s, k, e, r) ==
  /\ r \in Seq(Bound) /\ Len(r) = Len(s) /\ InnerGuests(r) /\ Places(r) = Places(s)
  /\ Elems(r) = (Elems(s) \ {s[k]}) \cup {e}

LEMMA Replaced ==
  ASSUME NEW s \in Seq(Bound), NEW k \in DOMAIN s, NEW e \in Bound, s[k].guest = e.guest, InnerGuests(s)
  PROVE  Replacement(s, k, e, [s EXCEPT ![k] = e])
<1>1. PICK n \in Nat : n = Len(s) /\ DOMAIN s = 1 .. n
  OBVIOUS
<1>2. PICK r : r = [s EXCEPT ![k] = e]
  OBVIOUS
<1>3. r \in Seq(Bound) /\ Len(r) = n /\ DOMAIN r = 1 .. n
  BY <1>1, <1>2
<1>4. \A i \in 1 .. n : r[i] = IF i = k THEN e ELSE s[i]
  BY <1>1, <1>2
<1>5. \A i \in 1 .. n : r[i].guest = s[i].guest
  BY <1>4
<1>6. InnerGuests(r)
  BY <1>1, <1>3, <1>5 DEF InnerGuests
<1>7. Places(r) = Places(s)
  BY <1>1, <1>3, <1>5 DEF Places
<1>8. \A i, j \in 1 .. n : s[i] = s[j] => i = j
  BY <1>1, DifferentGuests
<1>9. Elems(r) = {r[i] : i \in 1 .. n} /\ Elems(s) = {s[i] : i \in 1 .. n}
  BY <1>1, <1>3 DEF Elems
<1>10. Elems(r) \subseteq (Elems(s) \ {s[k]}) \cup {e}
  <2>1. \A i \in 1 .. n : r[i] = e \/ (r[i] = s[i] /\ s[i] # s[k])
    BY <1>1, <1>4, <1>8
  <2> QED BY <1>9, <2>1
<1>11. (Elems(s) \ {s[k]}) \cup {e} \subseteq Elems(r)
  <2>1. r[k] = e /\ k \in 1 .. n
    BY <1>1, <1>4
  <2>2. \A i \in 1 .. n : s[i] # s[k] => r[i] = s[i]
    BY <1>4
  <2> QED BY <1>9, <2>1, <2>2
<1>12. Replacement(s, k, e, r)
  BY <1>1, <1>3, <1>6, <1>7, <1>10, <1>11 DEF Replacement
<1> QED BY <1>2, <1>12

(* insort_binding keeps the two lists what they are to be.                 *)
LEMMA InsortGood ==
  ASSUME NEW l, GoodLists(l), NEW b \in Bound
  PROVE  /\ GoodLists(B!insort_binding(l, b))
         /\ Places(B!insort_binding(l, b).guest) = Places(l.guest) \cup {b.guest}
<1> DEFINE old == {i \in 1 .. Len(l.guest) : l.guest[i].guest = b.guest}
<1> DEFINE o == CHOOSE i \in old : TRUE
<1> DEFINE kept == IF old = {} THEN l.host ELSE B!RemoveFirst(l.host, l.guest[o])
<1>1. PICK g, h : g = l.guest /\ h = l.host
  OBVIOUS
<1>2. /\ g \in Seq(Bound) /\ h \in Seq(Bound) /\ InnerGuests(g) /\ InnerHosts(h)
      /\ Distinct(h) /\ Elems(g) = Elems(h) /\ Len(g) = Len(h)
  BY <1>1 DEF GoodLists, Lists
<1>3. PICK n \in Nat : n = Len(g) /\ n = Len(h) /\ DOMAIN g = 1 .. n /\ DOMAIN h = 1 .. n
  BY <1>2
<1> DEFINE G == IF old = {} THEN B!Insorted(g, b, B!InGuest) ELSE [g EXCEPT ![o] = b]
<1> DEFINE H == B!Insorted(kept, b, B!InHost)
<1>4. B!insort_binding(l, b) = [guest |-> G, host |-> H]
  BY <1>1 DEF B!insort_binding
<1>5. CASE old = {}
  <2>1. kept = h
    BY <1>1, <1>5
  <2>2. G = B!Insorted(g, b, B!InGuest)
    BY <1>5
  <2>3. \A i \in DOMAIN g : g[i].guest # b.guest
    BY <1>1, <1>3, <1>5
  <2>4. PICK k : Inserted(g, k, b, G) /\ InnerGuests(G)
    <3> HIDE DEF G
    <3> QED BY <1>2, <2>2, <2>3, GuestInsorted
  <2>5. PICK m : Inserted(h, m, b, H) /\ InnerHosts(H)
    <3>1. H = B!Insorted(h, b, B!InHost)
      BY <2>1
    <3> HIDE DEF H
    <3> QED BY <1>2, <3>1, HostInsorted
  <2>6. b \notin Elems(h)
    BY <1>2, <2>3 DEF Elems
  <2> HIDE DEF G, H
  <2>7. Elems(G) = Elems(g) \cup {b} /\ Places(G) = Places(g) \cup {b.guest} /\ Elems(H) = Elems(h) \cup {b}
    BY <1>2, <2>4, <2>5, InsertedElems
  <2>8. Distinct(H)
    BY <1>2, <2>5, <2>6, DistinctInserted
  <2>9. G \in Seq(Bound) /\ H \in Seq(Bound) /\ Len(G) = Len(H)
    BY <1>2, <2>4, <2>5 DEF Inserted
  <2>10. PICK q : q = [guest |-> G, host |-> H]
    OBVIOUS
  <2>11. q \in Lists /\ q.guest = G /\ q.host = H
    BY <2>9, <2>10 DEF Lists
  <2>12. GoodLists(q)
    BY <1>2, <2>4, <2>5, <2>7, <2>8, <2>9, <2>11 DEF GoodLists
  <2> QED BY <1>1, <1>4, <2>7, <2>10, <2>11, <2>12
<1>6. CASE old # {}
  <2>1. o \in 1 .. n /\ g[o].guest = b.guest
    BY <1>1, <1>3, <1>6
  <2>2. G = [g EXCEPT ![o] = b]
    BY <1>6
  <2>3. kept = B!RemoveFirst(h, g[o])
    BY <1>1, <1>6
  <2> HIDE DEF o, old
  <2>4. /\ G \in Seq(Bound) /\ Len(G) = n /\ InnerGuests(G) /\ Places(G) = Places(g)
        /\ Elems(G) = (Elems(g) \ {g[o]}) \cup {b}
    <3>1. o \in DOMAIN g
      BY <1>3, <2>1
    <3> HIDE DEF G
    <3>2. PICK x \in DOMAIN g : x = o
      BY <3>1
    <3>3. g[x].guest = b.guest
      BY <2>1, <3>2
    <3>4. Replacement(g, x, b, [g EXCEPT ![x] = b])
      BY <1>2, <3>3, Replaced
    <3>5. Replacement(g, o, b, G)
      BY <2>2, <3>2, <3>4
    <3> QED BY <1>3, <3>5 DEF Replacement
  <2>5. g[o] \in Elems(h)
    BY <1>2, <1>3, <2>1 DEF Elems
  <2>6. PICK k \in 1 .. Len(h) : h[k] = g[o] /\ Removed(h, k, kept)
    <3> HIDE DEF kept
    <3> QED BY <1>2, <2>3, <2>5, RemoveFirstIs
  <2> HIDE DEF kept, G
  <2>7. InnerHosts(kept) /\ Distinct(kept) /\ Elems(kept) = Elems(h) \ {g[o]}
    BY <1>2, <2>6, RemovedKeeps
  <2>8. kept \in Seq(Bound) /\ Len(kept) = n - 1
    BY <1>3, <2>6 DEF Removed
  <2>9. PICK m : Inserted(kept, m, b, H) /\ InnerHosts(H)
    <3>1. H = B!Insorted(kept, b, B!InHost)
      OBVIOUS
    <3> HIDE DEF H
    <3> QED BY <2>7, <2>8, <3>1, HostInsorted
  <2> HIDE DEF H
  <2>10. b \notin Elems(kept)
    <3> SUFFICES ASSUME b \in Elems(g), b # g[o] PROVE FALSE
      BY <1>2, <2>7
    <3>1. PICK i \in 1 .. n : b = g[i]
      BY <1>3 DEF Elems
    <3>2. i = o
      BY <1>2, <1>3, <2>1, <3>1, DifferentGuests
    <3> QED BY <3>1, <3>2
  <2>11. Elems(H) = Elems(kept) \cup {b}
    BY <2>8, <2>9, InsertedElems
  <2>12. Distinct(H)
    BY <2>7, <2>8, <2>9, <2>10, DistinctInserted
  <2>13. H \in Seq(Bound) /\ Len(H) = n
    BY <2>8, <2>9 DEF Inserted
  <2>14. PICK q : q = [guest |-> G, host |-> H]
    OBVIOUS
  <2>15. q \in Lists /\ q.guest = G /\ q.host = H
    BY <2>4, <2>13, <2>14 DEF Lists
  <2>16. GoodLists(q)
    BY <1>2, <2>4, <2>7, <2>9, <2>11, <2>12, <2>13, <2>15 DEF GoodLists
  <2>17. b.guest \in Places(g)
    BY <1>3, <2>1 DEF Places
  <2> QED BY <1>1, <1>4, <2>4, <2>14, <2>15, <2>16, <2>17
<1> QED BY <1>5, <1>6

(* And so does remove_binding_from_all_lists, of any binding.              *)
LEMMA RemoveGood ==
  ASSUME NEW l, GoodLists(l), NEW b
  PROVE  LET r == B!remove_binding_from_all_lists(l, b) IN
         /\ GoodLists(r) /\ Elems(r.guest) = Elems(l.guest) \ {b}
<1>1. PICK g, h : g = l.guest /\ h = l.host
  OBVIOUS
<1>2. /\ g \in Seq(Bound) /\ h \in Seq(Bound) /\ InnerGuests(g) /\ InnerHosts(h)
      /\ Distinct(h) /\ Elems(g) = Elems(h) /\ Len(g) = Len(h)
  BY <1>1 DEF GoodLists, Lists
<1>3. Distinct(g)
  BY <1>2, DifferentGuests DEF Distinct
<1>4. PICK G, H : G = B!RemoveFirst(g, b) /\ H = B!RemoveFirst(h, b)
  OBVIOUS
<1>5. PICK r : r = [guest |-> G, host |-> H]
  OBVIOUS
<1>6. B!remove_binding_from_all_lists(l, b) = r
  BY <1>1, <1>4, <1>5 DEF B!remove_binding_from_all_lists
<1>7. CASE b \notin Elems(g)
  <2>1. G = g /\ H = h
    BY <1>2, <1>4, <1>7, RemoveFirstIs
  <2>2. r.guest = g /\ r.host = h /\ r \in Lists
    BY <1>2, <1>5, <2>1 DEF Lists
  <2>3. GoodLists(r)
    BY <1>2, <2>2 DEF GoodLists
  <2> QED BY <1>1, <1>6, <1>7, <2>2, <2>3
<1>8. CASE b \in Elems(g)
  <2>1. PICK k \in 1 .. Len(g) : g[k] = b /\ Removed(g, k, G)
    BY <1>2, <1>4, <1>8, RemoveFirstIs
  <2>2. PICK m \in 1 .. Len(h) : h[m] = b /\ Removed(h, m, H)
    BY <1>2, <1>4, <1>8, RemoveFirstIs
  <2>3. G \in Seq(Bound) /\ H \in Seq(Bound) /\ Len(G) = Len(H)
    BY <1>2, <2>1, <2>2 DEF Removed
  <2>4. InnerGuests(G) /\ Elems(G) = Elems(g) \ {b}
    BY <1>2, <1>3, <2>1, RemovedKeeps
  <2>5. InnerHosts(H) /\ Distinct(H) /\ Elems(H) = Elems(h) \ {b}
    BY <1>2, <2>2, RemovedKeeps
  <2>6. r.guest = G /\ r.host = H /\ r \in Lists
    BY <1>5, <2>3 DEF Lists
  <2>7. GoodLists(r)
    BY <1>2, <2>3, <2>4, <2>5, <2>6 DEF GoodLists
  <2> QED BY <1>1, <1>6, <2>4, <2>6, <2>7
<1> QED BY <1>7, <1>8

(* A table where something is bound to "/" has it last.                    *)
Rooted(l) == GoodLists(l) /\ <<>> \in Places(l.guest)

LEMMA RootIsLast ==
  ASSUME NEW l, Rooted(l)
  PROVE  /\ B!Last(l.guest) \in Bound /\ B!Last(l.guest).guest = <<>> /\ B!get_root(l) \in Route
         /\ Len(l.guest) \in 1 .. Len(l.guest)
<1>1. PICK g : g = l.guest
  OBVIOUS
<1>2. g \in Seq(Bound) /\ InnerGuests(g) /\ <<>> \in Places(g)
  BY <1>1 DEF Rooted, GoodLists, Lists
<1>3. PICK n \in Nat : n = Len(g) /\ DOMAIN g = 1 .. n
  BY <1>2
<1>4. PICK i \in 1 .. n : g[i].guest = <<>>
  BY <1>2, <1>3 DEF Places
<1>5. n \in 1 .. n /\ g[n] \in Bound
  BY <1>2, <1>3, <1>4
<1>6. g[n].guest \in Route /\ g[n].host \in Route
  BY <1>5 DEF Bound
<1>7. i = n
  <2> SUFFICES ASSUME i < n PROVE FALSE
    BY <1>4, <1>5
  <2>1. B!IsPrefix(g[i].guest, g[n].guest)
    BY <1>4, <1>6, PrefixOrder
  <2> QED BY <1>2, <1>3, <1>5, <2>1 DEF InnerGuests
<1>8. B!Last(g) = g[n]
  BY <1>3 DEF B!Last
<1> QED BY <1>1, <1>3, <1>4, <1>5, <1>6, <1>7, <1>8 DEF B!get_root

(* The first match of a search.                                            *)
LEMMA FirstIndex ==
  ASSUME NEW n \in Nat, NEW S \in SUBSET (1 .. n), S # {}
  PROVE  B!Min(S) \in S
<1>1. S \in SUBSET Nat
  OBVIOUS
<1>2. PICK x \in S : \A y \in S : x =< y
  BY <1>1, MinInSet
<1> QED BY <1>2 DEF B!Min

(* In such a table every path is in a binding, and translates to a path.   *)
LEMMA SubstituteIs ==
  ASSUME NEW path \in Route, NEW old \in Route, NEW new \in Route
  PROVE  B!Substitute(path, old, new) \in Route
<1>1. PICK m, n \in Nat : m = Len(old) + 1 /\ n = Len(path)
  <2>1. Len(path) \in Nat
    BY DEF Route
  <2> QED BY <2>1
<1>2. m \in Int /\ n \in Int /\ m >= 1 /\ \A i \in 1 .. n : path[i] \in Components
  <2>1. Len(old) \in Nat
    BY DEF Route
  <2> QED BY <1>1, <2>1 DEF Route
<1>3. \A i \in m .. n : path[i] \in Components
  BY <1>2
<1>4. SubSeq(path, m, n) \in Seq(Components)
  BY <1>2, <1>3, SubSeqProperties
<1>5. new \o SubSeq(path, m, n) \in Seq(Components)
  <2>1. PICK u : u = SubSeq(path, m, n)
    OBVIOUS
  <2> QED BY <1>4, <2>1, ConcatProperties DEF Route
<1> QED BY <1>1, <1>5 DEF Route, B!Substitute

LEMMA GuestBindingIs ==
  ASSUME NEW l, Rooted(l), NEW path \in Route
  PROVE  B!get_guest_binding(l, path) \in Bound /\ B!get_guest_binding(l, path) \in Elems(l.guest)
<1>1. PICK g : g = l.guest
  OBVIOUS
<1>2. g \in Seq(Bound) /\ <<>> \in Places(g)
  BY <1>1 DEF Rooted, GoodLists, Lists
<1>3. PICK n \in Nat : n = Len(g) /\ DOMAIN g = 1 .. n
  BY <1>2
<1> DEFINE S == {i \in 1 .. Len(g) : B!IsPrefix(g[i].guest, path)}
<1>4. S \in SUBSET (1 .. n) /\ S # {}
  <2>1. PICK i \in 1 .. n : g[i].guest = <<>>
    BY <1>2, <1>3 DEF Places
  <2>2. B!IsPrefix(g[i].guest, path)
    BY <2>1, PrefixOrder
  <2> QED BY <1>3, <2>1, <2>2
<1>5. B!get_guest_binding(l, path) = g[B!Min(S)]
  BY <1>1, <1>4 DEF B!get_guest_binding, B!SelectInSeq
<1>6. B!Min(S) \in 1 .. n
  <2> HIDE DEF S
  <2> QED BY <1>4, FirstIndex
<1> HIDE DEF S
<1> QED BY <1>1, <1>2, <1>3, <1>5, <1>6 DEF Elems

LEMMA TranslateIs ==
  ASSUME NEW l, Rooted(l), NEW path \in Route
  PROVE  B!translate(l, path) \in Route
<1>1. PICK b \in Bound : b = B!get_guest_binding(l, path)
  BY GuestBindingIs
<1>2. b.guest \in Route /\ b.host \in Route
  BY DEF Bound
<1>3. B!Substitute(path, b.guest, b.host) \in Route
  BY <1>2, SubstituteIs
<1> QED BY <1>1, <1>3 DEF B!translate

LEMMA DetranslateIs ==
  ASSUME NEW l, Rooted(l), NEW path \in Route, B!detranslate_path(l, path) # B!NoPath
  PROVE  B!detranslate_path(l, path) \in Route
<1>1. PICK h : h = l.host
  OBVIOUS
<1>2. h \in Seq(Bound)
  BY <1>1 DEF Rooted, GoodLists, Lists
<1>3. PICK n \in Nat : n = Len(h) /\ DOMAIN h = 1 .. n
  BY <1>2
<1> DEFINE S == {i \in 1 .. Len(h) : B!IsPrefix(h[i].host, path)}
<1>4. B!SelectInSeq(h, LAMBDA b : B!IsPrefix(b.host, path)) = IF S # {} THEN B!Min(S) ELSE 0
  BY DEF B!SelectInSeq
<1>5. S # {} => B!Min(S) \in 1 .. n
  <2>1. S \in SUBSET (1 .. n)
    BY <1>3
  <2> HIDE DEF S
  <2> QED BY <2>1, FirstIndex
<1> DEFINE first == B!SelectInSeq(h, LAMBDA b : B!IsPrefix(b.host, path))
<1>6. first = 0 \/ h[first] \in Bound
  <2> HIDE DEF S
  <2> QED BY <1>2, <1>3, <1>4, <1>5
<1>7. B!get_host_binding(l, path) = <<>>
      \/ (B!get_host_binding(l, path) = <<h[first]>> /\ first # 0)
  BY <1>1 DEF B!get_host_binding
<1> HIDE DEF first, S
<1>8. <<>> \in Route /\ B!get_root(l) \in Route
  BY RootIsLast DEF Route
<1>10. B!Substitute(path, B!get_root(l), <<>>) \in Route
  BY <1>8, SubstituteIs
<1>11. CASE B!get_host_binding(l, path) = <<>>
  BY <1>10, <1>11 DEF B!detranslate_path
<1>12. CASE B!get_host_binding(l, path) = <<h[first]>> /\ first # 0
  <2>1. PICK b \in Bound : b = h[first]
    BY <1>6, <1>12
  <2>2. b.guest \in Route /\ b.host \in Route
    BY DEF Bound
  <2>3. B!Substitute(path, b.host, b.guest) \in Route
    BY <2>2, SubstituteIs
  <2>4. B!get_host_binding(l, path) # <<>> /\ B!get_host_binding(l, path)[1] = b
    BY <1>12, <2>1
  <2> QED BY <2>3, <2>4 DEF B!detranslate_path
<1> QED BY <1>7, <1>11, <1>12

(* insort_binding keeps the root, and the removal of another binding does. *)
LEMMA InsortRooted ==
  ASSUME NEW l, Rooted(l), NEW b \in Bound
  PROVE  Rooted(B!insort_binding(l, b))
<1>1. GoodLists(l) /\ <<>> \in Places(l.guest)
  BY DEF Rooted
<1> QED BY <1>1, InsortGood DEF Rooted

LEMMA RemoveRooted ==
  ASSUME NEW l, Rooted(l), NEW b, b.guest # <<>>
  PROVE  Rooted(B!remove_binding_from_all_lists(l, b))
<1>1. GoodLists(l) /\ <<>> \in Places(l.guest)
  BY DEF Rooted
<1>2. PICK r : r = B!remove_binding_from_all_lists(l, b)
  OBVIOUS
<1>3. GoodLists(r) /\ Elems(r.guest) = Elems(l.guest) \ {b}
  BY <1>1, <1>2, RemoveGood
<1>4. PICK c \in Elems(l.guest) : c.guest = <<>>
  BY <1>1, PlacesOfElems
<1>5. c \in Elems(r.guest)
  BY <1>3, <1>4
<1>6. <<>> \in Places(r.guest)
  BY <1>4, <1>5, PlacesOfElems
<1> QED BY <1>2, <1>3, <1>6 DEF Rooted

(* Induction over 0 .. n, on the set of the numbers that have a property.  *)
LEMMA Induction ==
  ASSUME NEW n \in Nat, NEW S, 0 \in S, \A i \in 1 .. n : i - 1 \in S => i \in S
  PROVE  \A i \in 0 .. n : i \in S
<1> DEFINE Less == {ss \in Nat \X Nat : ss[1] < ss[2]}
<1> DEFINE T == {i \in 0 .. n : i \notin S}
<1>1. IsWellFoundedOn(Less, Nat)
  BY NatLessThanWellFounded DEF OpToRel
<1>2. SUFFICES ASSUME T # {} PROVE FALSE
  OBVIOUS
<1>3. T \subseteq Nat
  OBVIOUS
<1>4. PICK x \in T : \A y \in T : ~(<<y, x>> \in Less)
  <2> HIDE DEF Less, T
  <2> QED BY <1>1, <1>2, <1>3, WFMin
<1>5. x \in 0 .. n /\ x \notin S /\ x # 0
  OBVIOUS
<1>6. x \in 1 .. n
  BY <1>5
<1>7. x - 1 \notin S
  BY <1>5, <1>6
<1>8. x - 1 \in T
  BY <1>6, <1>7
<1>9. <<x - 1, x>> \in Less
  BY <1>6
<1> QED BY <1>4, <1>8, <1>9

(* g goes from x0 on by G.                                                 *)
IsRec(g, n, x0, G) == g[0] = x0 /\ \A i \in 1 .. n : g[i] = G[<<i, g[i - 1]>>]

(* A function on 0 .. n defined from each value to the next exists.        *)
LEMMA Recursion ==
  ASSUME NEW n \in Nat, NEW A, NEW x0 \in A, NEW G \in [(1 .. n) \X A -> A]
  PROVE  \E g \in [0 .. n -> A] : IsRec(g, n, x0, G)
<1> DEFINE Rec(g, k) == g[0] = x0 /\ \A i \in 1 .. k : g[i] = G[<<i, g[i - 1]>>]
<1> DEFINE S == {k \in 0 .. n : \E g \in [0 .. k -> A] : Rec(g, k)}
<1>1. 0 \in S
  <2> DEFINE g == [i \in 0 .. 0 |-> x0]
  <2>1. g \in [0 .. 0 -> A] /\ Rec(g, 0)
    OBVIOUS
  <2> HIDE DEF g, Rec
  <2> QED BY <2>1
<1>2. ASSUME NEW k \in 1 .. n, k - 1 \in S PROVE k \in S
  <2>1. PICK g \in [0 .. k - 1 -> A] : Rec(g, k - 1)
    BY <1>2
  <2> DEFINE v == G[<<k, g[k - 1]>>]
  <2>2. v \in A
    <3>1. g[k - 1] \in A
      BY <2>1
    <3>2. <<k, g[k - 1]>> \in (1 .. n) \X A
      BY <3>1
    <3> QED BY <3>2
  <2> DEFINE h == [i \in 0 .. k |-> IF i = k THEN v ELSE g[i]]
  <2>3. h \in [0 .. k -> A]
    <3> HIDE DEF v
    <3> QED BY <2>1, <2>2
  <2>4. Rec(h, k)
    <3>1. h[0] = x0
      BY <2>1
    <3>2. ASSUME NEW i \in 1 .. k - 1 PROVE h[i] = G[<<i, h[i - 1]>>]
      <4>1. h[i] = g[i] /\ h[i - 1] = g[i - 1]
        OBVIOUS
      <4> QED BY <4>1, <2>1
    <3>3. h[k] = G[<<k, h[k - 1]>>]
      <4>1. h[k] = v /\ h[k - 1] = g[k - 1]
        OBVIOUS
      <4> QED BY <4>1
    <3>4. \A i \in 1 .. k : i \in 1 .. k - 1 \/ i = k
      OBVIOUS
    <3> HIDE DEF h
    <3> QED BY <3>1, <3>2, <3>3, <3>4
  <2> HIDE DEF h, Rec
  <2> QED BY <2>3, <2>4
<1>3. n \in S
  <2> HIDE DEF S
  <2>1. \A i \in 0 .. n : i \in S
    BY <1>1, <1>2, Induction
  <2> QED BY <2>1
<1> QED BY <1>3 DEF IsRec

-----------------------------------------------------------------------------
(* The options of the command line, sorted.                                *)
LEMMA NewBindingIs ==
  ASSUME NEW s \in Seq(Bound), NEW b \in Bound
  PROVE  B!new_binding(s, b) \in Seq(Bound) /\ Places(B!new_binding(s, b)) = Places(s) \cup {b.guest}
<1> DEFINE same == {i \in 1 .. Len(s) : s[i].guest = b.guest}
<1> DEFINE o == CHOOSE i \in same : TRUE
<1>1. PICK n \in Nat : n = Len(s) /\ DOMAIN s = 1 .. n
  OBVIOUS
<1>2. CASE same = {}
  <2>1. B!new_binding(s, b) = B!Insorted(s, b, B!InGuest)
    BY <1>2 DEF B!new_binding
  <2>2. PICK r : r = B!Insorted(s, b, B!InGuest)
    OBVIOUS
  <2>3. PICK k : Inserted(s, k, b, r)
    BY <2>2, GuestInsorted
  <2>4. Places(r) = Places(s) \cup {b.guest}
    BY <2>3, InsertedElems
  <2> QED BY <2>1, <2>2, <2>3, <2>4 DEF Inserted
<1>3. CASE same # {}
  <2>1. PICK r : r = [s EXCEPT ![o] = b]
    OBVIOUS
  <2>2. B!new_binding(s, b) = r
    BY <1>3, <2>1 DEF B!new_binding
  <2>3. o \in 1 .. n /\ s[o].guest = b.guest
    BY <1>1, <1>3
  <2> HIDE DEF o, same
  <2>4. r \in Seq(Bound) /\ DOMAIN r = 1 .. n
    BY <1>1, <2>1, <2>3
  <2>5. \A i \in 1 .. n : r[i].guest = s[i].guest
    BY <1>1, <2>1, <2>3
  <2>6. Places(r) = Places(s)
    BY <1>1, <2>4, <2>5 DEF Places
  <2>7. b.guest \in Places(s)
    BY <1>1, <2>3 DEF Places
  <2> QED BY <2>2, <2>4, <2>6, <2>7
<1> QED BY <1>2, <1>3

LEMMA NewBindingsAre ==
  ASSUME NEW s \in Seq(Bound), NEW i \in DOMAIN s, s[i].guest = <<>>
  PROVE  B!new_bindings(s) \in Seq(Bound) /\ <<>> \in Places(B!new_bindings(s))
<1>1. PICK n \in Nat : n = Len(s) /\ DOMAIN s = 1 .. n
  OBVIOUS
<1> DEFINE A == Seq(Bound)
<1> DEFINE G == [p \in (1 .. n) \X A |-> B!new_binding(p[2], s[p[1]])]
<1> DEFINE Step(a) == [j \in 0 .. n |-> IF j = 0 THEN <<>> ELSE B!new_binding(a[j - 1], s[j])]
<1>2. \A j \in 1 .. n, a \in A : B!new_binding(a, s[j]) \in A
  BY <1>1, NewBindingIs
<1>3. G \in [(1 .. n) \X A -> A]
  BY <1>2
<1>4. PICK g \in [0 .. n -> A] : g[0] = <<>> /\ \A j \in 1 .. n : g[j] = G[<<j, g[j - 1]>>]
  <2>1. <<>> \in A
    OBVIOUS
  <2> HIDE DEF G, A
  <2>2. \E g \in [0 .. n -> A] : IsRec(g, n, <<>>, G)
    BY <1>3, <2>1, Recursion, Zenon
  <2> QED BY <2>2 DEF IsRec
<1>5. \A j \in 1 .. n : g[j] = B!new_binding(g[j - 1], s[j])
  <2> TAKE j \in 1 .. n
  <2>1. <<j, g[j - 1]>> \in (1 .. n) \X A
    BY <1>4
  <2>2. g[j] = G[<<j, g[j - 1]>>]
    BY <1>4
  <2> QED BY <2>1, <2>2
<1>6. g = Step(g)
  BY <1>4, <1>5
<1> DEFINE h == CHOOSE a : a = Step(a)
<1>7. h = Step(h)
  <2> HIDE DEF Step
  <2> QED BY <1>6
<1>8. B!new_bindings(s) = h[n]
  BY <1>1 DEF B!new_bindings
<1> HIDE DEF h
<1>9. h[0] = <<>> /\ \A j \in 1 .. n : h[j] = B!new_binding(h[j - 1], s[j])
  <2>1. \A j \in 0 .. n : h[j] = IF j = 0 THEN <<>> ELSE B!new_binding(h[j - 1], s[j])
    BY <1>7
  <2>2. 0 \in 0 .. n /\ \A j \in 1 .. n : j \in 0 .. n /\ j # 0
    OBVIOUS
  <2> QED BY <2>1, <2>2
<1> DEFINE S == {j \in 0 .. n : h[j] \in A /\ \A m \in 1 .. j : s[m].guest \in Places(h[j])}
<1>10. 0 \in S
  <2>1. h[0] \in Seq(Bound) /\ 0 \in 0 .. n
    BY <1>9
  <2>2. \A m \in 1 .. 0 : FALSE
    OBVIOUS
  <2> QED BY <2>1, <2>2
<1>11. ASSUME NEW j \in 1 .. n, j - 1 \in S PROVE j \in S
  <2>1. h[j - 1] \in Seq(Bound) /\ \A m \in 1 .. j - 1 : s[m].guest \in Places(h[j - 1])
    BY <1>11
  <2>2. s[j] \in Bound
    BY <1>1
  <2>3. h[j] \in Seq(Bound) /\ Places(h[j]) = Places(h[j - 1]) \cup {s[j].guest}
    BY <1>9, <2>1, <2>2, NewBindingIs
  <2>4. \A m \in 1 .. j : m \in 1 .. j - 1 \/ m = j
    OBVIOUS
  <2>5. \A m \in 1 .. j : s[m].guest \in Places(h[j])
    BY <2>1, <2>3, <2>4
  <2>6. j \in 0 .. n
    OBVIOUS
  <2> QED BY <2>3, <2>5, <2>6
<1>12. n \in S
  <2> HIDE DEF S
  <2>1. \A j \in 0 .. n : j \in S
    BY <1>10, <1>11, Induction
  <2> QED BY <2>1
<1> QED BY <1>1, <1>8, <1>12

(* The tables made from a list of bindings: by initialize_bindings, from   *)
(* the last one on and with glue, and by clone.                            *)
LEMMA NoBindingsGood == GoodLists(B!NoBindings)
<1>1. PICK q : q = B!NoBindings
  OBVIOUS
<1>2. q.guest = <<>> /\ q.host = <<>> /\ q \in Lists
  BY <1>1 DEF B!NoBindings, Lists
<1>3. DOMAIN <<>> = 1 .. 0 /\ Len(<<>>) = 0
  OBVIOUS
<1>4. GoodLists(q)
  BY <1>2, <1>3 DEF GoodLists, InnerGuests, InnerHosts, Distinct
<1> QED BY <1>1, <1>4

LEMMA BindingIs ==
  ASSUME NEW h \in Route, NEW g \in Route, NEW s \in BOOLEAN
  PROVE  B!Binding(h, g, s) \in Bound /\ B!Binding(h, g, s).guest = g
BY DEF B!Binding, Bound

LEMMA InitializeBindingGood ==
  ASSUME BindUsual, NEW l, GoodLists(l), NEW b \in Bound
  PROVE  /\ GoodLists(B!initialize_binding(l, b))
         /\ Places(l.guest) \cup {b.guest} \subseteq Places(B!initialize_binding(l, b).guest)
<1>0. GoodLists(l)
  OBVIOUS
<1>1. GoodLists(B!build_glue(l, b)) /\ Places(l.guest) \subseteq Places(B!build_glue(l, b).guest)
  <2> DEFINE absent == {i \in 1 .. (Len(b.guest) - 1) :
                          /\ SubSeq(b.guest, 1, i) \in Missing
                          /\ B!get_guest_binding(l, SubSeq(b.guest, 1, i)).guest = <<>>}
  <2> DEFINE i == CHOOSE i \in absent : \A j \in absent : i <= j
  <2>1. CASE absent = {}
    BY <1>0, <2>1 DEF B!build_glue
  <2>2. CASE absent # {}
    <3>1. B!build_glue(l, b) = B!insort_binding(l, B!Binding(B!Glue, SubSeq(b.guest, 1, i), FALSE))
      BY <2>2 DEF B!build_glue
    <3>2. b.guest \in Seq(Components) /\ Len(b.guest) \in Nat
      BY DEF Bound, Route
    <3>3. absent \in SUBSET (1 .. Len(b.guest) - 1)
      OBVIOUS
    <3>4. i \in 1 .. Len(b.guest) - 1
      <4>1. absent \in SUBSET Nat
        BY <3>2, <3>3
      <4> HIDE DEF absent
      <4>2. \E x \in absent : \A y \in absent : x =< y
        BY <2>2, <4>1, MinInSet
      <4>3. i \in absent
        BY <4>2
      <4> QED BY <3>3, <4>3
    <3> HIDE DEF i
    <3>5. SubSeq(b.guest, 1, i) \in Route
      <4>1. 1 \in Int /\ i \in Int /\ \A m \in 1 .. i : b.guest[m] \in Components
        BY <3>2, <3>4
      <4> QED BY <4>1, SubSeqProperties DEF Route
    <3>6. B!Glue \in Route
      <4>1. "glue" \in Components
        BY DEF BindUsual
      <4> QED BY <4>1 DEF B!Glue, Route
    <3>7. PICK c \in Bound : c = B!Binding(B!Glue, SubSeq(b.guest, 1, i), FALSE)
      BY <3>5, <3>6, BindingIs
    <3>8. GoodLists(B!insort_binding(l, c)) /\ Places(B!insort_binding(l, c).guest) = Places(l.guest) \cup {c.guest}
      BY InsortGood
    <3>9. B!build_glue(l, b) = B!insort_binding(l, c)
      BY <3>1, <3>7
    <3> QED BY <3>8, <3>9
  <2> QED BY <2>1, <2>2
<1>2. PICK q : q = B!build_glue(l, b)
  OBVIOUS
<1> QED BY <1>1, <1>2, InsortGood DEF B!initialize_binding

LEMMA InitializeBindingsRooted ==
  ASSUME BindUsual, NEW s \in Seq(Bound), <<>> \in Places(s)
  PROVE  Rooted(B!initialize_bindings(s))
<1>1. PICK n \in Nat : n = Len(s) /\ DOMAIN s = 1 .. n
  OBVIOUS
<1> DEFINE A == {l \in Lists : GoodLists(l)}
<1> DEFINE b(j) == s[Len(s) + 1 - j]
<1> DEFINE G == [p \in (1 .. n) \X A |-> B!initialize_binding(p[2], b(p[1]))]
<1> DEFINE Step(a) == [j \in 0 .. n |-> IF j = 0 THEN B!NoBindings ELSE B!initialize_binding(a[j - 1], b(j))]
<1>2. \A j \in 1 .. n : b(j) \in Bound /\ b(j).guest = s[(n + 1 - j)].guest /\ (n + 1 - j) \in 1 .. n
  <2> TAKE j \in 1 .. n
  <2>1. n + 1 - j \in 1 .. n
    OBVIOUS
  <2>2. s[n + 1 - j] \in Bound
    BY <1>1, <2>1
  <2> QED BY <1>1, <2>1, <2>2
<1> HIDE DEF b
<1>3. \A l : GoodLists(l) => l \in A
  BY DEF GoodLists
<1>4. \A j \in 1 .. n, l \in A : /\ B!initialize_binding(l, b(j)) \in A
                                 /\ Places(l.guest) \cup {b(j).guest} \subseteq Places(B!initialize_binding(l, b(j)).guest)
  BY <1>2, <1>3, InitializeBindingGood
<1>5. G \in [(1 .. n) \X A -> A]
  <2> HIDE DEF A
  <2> QED BY <1>4
<1>6. B!NoBindings \in A
  BY <1>3, NoBindingsGood
<1>7. PICK g \in [0 .. n -> A] : g[0] = B!NoBindings /\ \A j \in 1 .. n : g[j] = G[<<j, g[j - 1]>>]
  <2> HIDE DEF G, A
  <2>1. \E g \in [0 .. n -> A] : IsRec(g, n, B!NoBindings, G)
    BY <1>5, <1>6, Recursion, Zenon
  <2> QED BY <2>1 DEF IsRec
<1>8. \A j \in 1 .. n : g[j] = B!initialize_binding(g[j - 1], b(j))
  <2> TAKE j \in 1 .. n
  <2>1. <<j, g[j - 1]>> \in (1 .. n) \X A
    BY <1>7
  <2>2. g[j] = G[<<j, g[j - 1]>>]
    BY <1>7
  <2> QED BY <2>1, <2>2
<1>9. g = Step(g)
  BY <1>7, <1>8
<1> DEFINE h == CHOOSE a : a = Step(a)
<1>10. h = Step(h)
  <2> HIDE DEF Step
  <2> QED BY <1>9
<1>11. B!initialize_bindings(s) = h[n]
  BY <1>1 DEF B!initialize_bindings, b
<1> HIDE DEF h
<1>12. h[0] = B!NoBindings /\ \A j \in 1 .. n : h[j] = B!initialize_binding(h[j - 1], b(j))
  <2>1. \A j \in 0 .. n : h[j] = IF j = 0 THEN B!NoBindings ELSE B!initialize_binding(h[j - 1], b(j))
    BY <1>10
  <2>2. 0 \in 0 .. n /\ \A j \in 1 .. n : j \in 0 .. n /\ j # 0
    OBVIOUS
  <2> QED BY <2>1, <2>2
<1> DEFINE S == {j \in 0 .. n : h[j] \in A /\ \A m \in 1 .. j : b(m).guest \in Places(h[j].guest)}
<1>13. 0 \in S
  <2>1. h[0] \in A /\ 0 \in 0 .. n
    BY <1>6, <1>12
  <2>2. \A m \in 1 .. 0 : FALSE
    OBVIOUS
  <2> HIDE DEF A
  <2> QED BY <2>1, <2>2
<1>14. ASSUME NEW j \in 1 .. n, j - 1 \in S PROVE j \in S
  <2> HIDE DEF A
  <2>1. h[j - 1] \in A /\ \A m \in 1 .. j - 1 : b(m).guest \in Places(h[j - 1].guest)
    BY <1>14
  <2>2. h[j] \in A /\ Places(h[j - 1].guest) \cup {b(j).guest} \subseteq Places(h[j].guest)
    BY <1>4, <1>12, <2>1
  <2>3. \A m \in 1 .. j : m \in 1 .. j - 1 \/ m = j
    OBVIOUS
  <2> QED BY <2>1, <2>2, <2>3
<1>15. n \in S
  <2> HIDE DEF S
  <2>1. \A j \in 0 .. n : j \in S
    BY <1>13, <1>14, Induction
  <2> QED BY <2>1
<1>16. GoodLists(h[n]) /\ \A m \in 1 .. n : b(m).guest \in Places(h[n].guest)
  BY <1>15
<1>17. PICK i \in 1 .. n : s[i].guest = <<>>
  BY <1>1 DEF Places
<1>18. \E m \in 1 .. n : b(m).guest = <<>>
  <2>1. n + 1 - i \in 1 .. n /\ n + 1 - (n + 1 - i) = i
    OBVIOUS
  <2>2. b(n + 1 - i).guest = s[n + 1 - (n + 1 - i)].guest
    BY <1>2, <2>1
  <2> QED BY <1>17, <2>1, <2>2
<1>19. <<>> \in Places(h[n].guest)
  BY <1>16, <1>18
<1> QED BY <1>11, <1>16, <1>19 DEF Rooted

LEMMA CopiedBindingsRooted ==
  ASSUME NEW s \in Seq(Bound), <<>> \in Places(s)
  PROVE  Rooted(B!copied_bindings(s))
<1>1. PICK n \in Nat : n = Len(s) /\ DOMAIN s = 1 .. n
  OBVIOUS
<1> DEFINE A == {l \in Lists : GoodLists(l)}
<1> DEFINE b(j) == B!Binding(s[j].host, s[j].guest, FALSE)
<1> DEFINE G == [p \in (1 .. n) \X A |-> B!insort_binding(p[2], b(p[1]))]
<1> DEFINE Step(a) == [j \in 0 .. n |-> IF j = 0 THEN B!NoBindings ELSE B!insort_binding(a[j - 1], b(j))]
<1>2. \A j \in 1 .. n : b(j) \in Bound /\ b(j).guest = s[j].guest /\ j \in 1 .. n
  <2> TAKE j \in 1 .. n
  <2>1. s[j] \in Bound
    BY <1>1
  <2>2. s[j].host \in Route /\ s[j].guest \in Route
    BY <2>1 DEF Bound
  <2> QED BY <2>2, BindingIs
<1> HIDE DEF b
<1>3. \A l : GoodLists(l) => l \in A
  BY DEF GoodLists
<1>4. \A j \in 1 .. n, l \in A : /\ B!insort_binding(l, b(j)) \in A
                                 /\ Places(l.guest) \cup {b(j).guest} \subseteq Places(B!insort_binding(l, b(j)).guest)
  BY <1>2, <1>3, InsortGood
<1>5. G \in [(1 .. n) \X A -> A]
  <2> HIDE DEF A
  <2> QED BY <1>4
<1>6. B!NoBindings \in A
  BY <1>3, NoBindingsGood
<1>7. PICK g \in [0 .. n -> A] : g[0] = B!NoBindings /\ \A j \in 1 .. n : g[j] = G[<<j, g[j - 1]>>]
  <2> HIDE DEF G, A
  <2>1. \E g \in [0 .. n -> A] : IsRec(g, n, B!NoBindings, G)
    BY <1>5, <1>6, Recursion, Zenon
  <2> QED BY <2>1 DEF IsRec
<1>8. \A j \in 1 .. n : g[j] = B!insort_binding(g[j - 1], b(j))
  <2> TAKE j \in 1 .. n
  <2>1. <<j, g[j - 1]>> \in (1 .. n) \X A
    BY <1>7
  <2>2. g[j] = G[<<j, g[j - 1]>>]
    BY <1>7
  <2> QED BY <2>1, <2>2
<1>9. g = Step(g)
  BY <1>7, <1>8
<1> DEFINE h == CHOOSE a : a = Step(a)
<1>10. h = Step(h)
  <2> HIDE DEF Step
  <2> QED BY <1>9
<1>11. B!copied_bindings(s) = h[n]
  BY <1>1 DEF B!copied_bindings, b
<1> HIDE DEF h
<1>12. h[0] = B!NoBindings /\ \A j \in 1 .. n : h[j] = B!insort_binding(h[j - 1], b(j))
  <2>1. \A j \in 0 .. n : h[j] = IF j = 0 THEN B!NoBindings ELSE B!insort_binding(h[j - 1], b(j))
    BY <1>10
  <2>2. 0 \in 0 .. n /\ \A j \in 1 .. n : j \in 0 .. n /\ j # 0
    OBVIOUS
  <2> QED BY <2>1, <2>2
<1> DEFINE S == {j \in 0 .. n : h[j] \in A /\ \A m \in 1 .. j : b(m).guest \in Places(h[j].guest)}
<1>13. 0 \in S
  <2>1. h[0] \in A /\ 0 \in 0 .. n
    BY <1>6, <1>12
  <2>2. \A m \in 1 .. 0 : FALSE
    OBVIOUS
  <2> HIDE DEF A
  <2> QED BY <2>1, <2>2
<1>14. ASSUME NEW j \in 1 .. n, j - 1 \in S PROVE j \in S
  <2> HIDE DEF A
  <2>1. h[j - 1] \in A /\ \A m \in 1 .. j - 1 : b(m).guest \in Places(h[j - 1].guest)
    BY <1>14
  <2>2. h[j] \in A /\ Places(h[j - 1].guest) \cup {b(j).guest} \subseteq Places(h[j].guest)
    BY <1>4, <1>12, <2>1
  <2>3. \A m \in 1 .. j : m \in 1 .. j - 1 \/ m = j
    OBVIOUS
  <2> QED BY <2>1, <2>2, <2>3
<1>15. n \in S
  <2> HIDE DEF S
  <2>1. \A j \in 0 .. n : j \in S
    BY <1>13, <1>14, Induction
  <2> QED BY <2>1
<1>16. GoodLists(h[n]) /\ \A m \in 1 .. n : b(m).guest \in Places(h[n].guest)
  BY <1>15
<1>17. PICK i \in 1 .. n : s[i].guest = <<>>
  BY <1>1 DEF Places
<1>18. \E m \in 1 .. n : b(m).guest = <<>>
  BY <1>2, <1>17
<1>19. <<>> \in Places(h[n].guest)
  BY <1>16, <1>18
<1> QED BY <1>11, <1>16, <1>19 DEF Rooted

(* The loop of emulate_pivot_root.                                         *)
Pivots == {s \in [l : Lists, stale : BOOLEAN] : Rooted(s.l)}

LEMMA PivotedRooted ==
  ASSUME NEW s \in Pivots, NEW b \in Bound, NEW new \in Route, NEW after \in Route
  PROVE  B!Pivoted(s, b, new, after) \in Pivots
<1> DEFINE gone == b \notin B!ToSet(s.l.guest)
<1> DEFINE t == [s EXCEPT !.stale = s.stale \/ (gone /\ b.startup)]
<1>1. b.host \in Route /\ b.guest \in Route /\ b.startup \in BOOLEAN
  BY DEF Bound
<1>2. s \in [l : Lists, stale : BOOLEAN] /\ Rooted(s.l)
  BY DEF Pivots
<1>3. t \in [l : Lists, stale : BOOLEAN] /\ t.l = s.l
  BY <1>1, <1>2
<1> HIDE DEF t
<1>4. \A q : Rooted(q) => [t EXCEPT !.l = q] \in Pivots
  <2> TAKE q
  <2> HAVE Rooted(q)
  <2>1. q \in Lists
    BY DEF Rooted, GoodLists
  <2>2. [t EXCEPT !.l = q] \in [l : Lists, stale : BOOLEAN] /\ [t EXCEPT !.l = q].l = q
    BY <1>3, <2>1
  <2> QED BY <2>2 DEF Pivots
<1>5. t \in Pivots
  BY <1>2, <1>3 DEF Pivots
<1>6. PICK c \in Bound : c = B!Binding(b.host, B!Substitute(b.guest, new, <<>>), FALSE)
  <2>1. <<>> \in Route
    BY DEF Route
  <2>2. B!Substitute(b.guest, new, <<>>) \in Route
    BY <1>1, <2>1, SubstituteIs
  <2> QED BY <1>1, <2>2, BindingIs
<1>7. PICK d \in Bound : d = B!Binding(b.host, after \o b.guest, FALSE)
  <2>1. after \o b.guest \in Route
    BY <1>1, ConcatProperties DEF Route
  <2> QED BY <1>1, <2>1, BindingIs
<1>8. CASE b.guest = <<>>
  BY <1>8 DEF B!Pivoted
<1>9. CASE b.guest # <<>> /\ new # <<>> /\ B!IsStrictPrefix(new, b.guest)
  <2>1. B!Pivoted(s, b, new, after)
        = [t EXCEPT !.l = B!remove_binding_from_all_lists(B!insort_binding(t.l, c), b)]
    BY <1>6, <1>9 DEF B!Pivoted, t
  <2>2. Rooted(B!insort_binding(s.l, c))
    BY <1>2, InsortRooted
  <2>3. PICK q : q = B!insort_binding(s.l, c)
    OBVIOUS
  <2>4. Rooted(B!remove_binding_from_all_lists(q, b))
    BY <1>9, <2>2, <2>3, RemoveRooted
  <2> QED BY <1>3, <1>4, <2>1, <2>3, <2>4
<1>10. CASE /\ b.guest # <<>> /\ ~(new # <<>> /\ B!IsStrictPrefix(new, b.guest))
            /\ after # <<>> /\ ~B!IsPrefix(after, b.guest)
  <2>1. B!Pivoted(s, b, new, after) = [t EXCEPT !.l = B!insort_binding(t.l, d)]
    BY <1>7, <1>10 DEF B!Pivoted, t
  <2>2. Rooted(B!insort_binding(s.l, d))
    BY <1>2, InsortRooted
  <2> QED BY <1>3, <1>4, <2>1, <2>2
<1>11. CASE /\ b.guest # <<>> /\ ~(new # <<>> /\ B!IsStrictPrefix(new, b.guest))
            /\ ~(after # <<>> /\ ~B!IsPrefix(after, b.guest))
  <2>1. B!Pivoted(s, b, new, after) = t
    BY <1>11 DEF B!Pivoted, t
  <2> QED BY <1>5, <2>1
<1> QED BY <1>8, <1>9, <1>10, <1>11

LEMMA PivotBindingsRooted ==
  ASSUME NEW first \in Pivots, NEW s \in Seq(Bound), NEW new \in Route, NEW after \in Route
  PROVE  B!pivot_bindings(first, s, new, after) \in Pivots
<1>1. PICK n \in Nat : n = Len(s) /\ DOMAIN s = 1 .. n
  OBVIOUS
<1> DEFINE G == [p \in (1 .. n) \X Pivots |-> B!Pivoted(p[2], s[p[1]], new, after)]
<1> DEFINE Step(a) == [j \in 0 .. n |-> IF j = 0 THEN first ELSE B!Pivoted(a[j - 1], s[j], new, after)]
<1>2. \A j \in 1 .. n, a \in Pivots : B!Pivoted(a, s[j], new, after) \in Pivots
  <2> TAKE j \in 1 .. n, a \in Pivots
  <2>1. s[j] \in Bound
    BY <1>1
  <2> QED BY <2>1, PivotedRooted
<1>3. G \in [(1 .. n) \X Pivots -> Pivots]
  BY <1>2
<1>4. PICK g \in [0 .. n -> Pivots] : g[0] = first /\ \A j \in 1 .. n : g[j] = G[<<j, g[j - 1]>>]
  <2> HIDE DEF G
  <2>1. \E g \in [0 .. n -> Pivots] : IsRec(g, n, first, G)
    BY <1>3, Recursion, Zenon
  <2> QED BY <2>1 DEF IsRec
<1>5. \A j \in 1 .. n : g[j] = B!Pivoted(g[j - 1], s[j], new, after)
  <2> TAKE j \in 1 .. n
  <2>1. <<j, g[j - 1]>> \in (1 .. n) \X Pivots
    BY <1>4
  <2>2. g[j] = G[<<j, g[j - 1]>>]
    BY <1>4
  <2> QED BY <2>1, <2>2
<1>6. g = Step(g)
  BY <1>4, <1>5
<1> DEFINE h == CHOOSE a : a = Step(a)
<1>7. h = Step(h)
  <2> HIDE DEF Step
  <2> QED BY <1>6
<1>8. B!pivot_bindings(first, s, new, after) = h[n]
  BY <1>1 DEF B!pivot_bindings
<1> HIDE DEF h
<1>9. h[0] = first /\ \A j \in 1 .. n : h[j] = B!Pivoted(h[j - 1], s[j], new, after)
  <2>1. \A j \in 0 .. n : h[j] = IF j = 0 THEN first ELSE B!Pivoted(h[j - 1], s[j], new, after)
    BY <1>7
  <2>2. 0 \in 0 .. n /\ \A j \in 1 .. n : j \in 0 .. n /\ j # 0
    OBVIOUS
  <2> QED BY <2>1, <2>2
<1> DEFINE S == {j \in 0 .. n : h[j] \in Pivots}
<1>10. 0 \in S
  BY <1>9
<1>11. ASSUME NEW j \in 1 .. n, j - 1 \in S PROVE j \in S
  BY <1>2, <1>9, <1>11
<1>12. n \in S
  <2> HIDE DEF S
  <2>1. \A j \in 0 .. n : j \in S
    BY <1>10, <1>11, Induction
  <2> QED BY <2>1
<1> QED BY <1>8, <1>12

-----------------------------------------------------------------------------
(* The inductive invariant: whoever lives has a table where something is   *)
(* bound to "/", and a record with a current directory.                    *)
BindTypes ==
  /\ guest \in [Procs -> Seq(Bound)] /\ host \in [Procs -> Seq(Bound)]
  /\ ns \in [Procs -> Procs \cup {B!None}] /\ fs \in [Procs -> Procs \cup {B!None}]
  /\ cwd \in [Procs -> Route] /\ tmpfs \in Nat /\ stale \in BOOLEAN
TablesRooted ==
  \A p \in Procs : ns[p] # B!None => ns[p] \in Procs /\ fs[p] \in Procs /\ Rooted(B!Table(ns[p]))
BindInv == BindTypes /\ TablesRooted

(* What a process that calls has.                                          *)
LEMMA CallerHas ==
  ASSUME BindUsual, BindInv, NEW p \in B!Live
  PROVE  /\ p \in Procs /\ ns[p] \in Procs /\ fs[p] \in Procs /\ cwd[fs[p]] \in Route
         /\ Rooted(B!Lists(p)) /\ B!Lists(p).guest = guest[ns[p]] /\ guest[ns[p]] \in Seq(Bound)
         /\ \A a \in Args : B!canonicalize(p, a) \in Route
<1>1. p \in Procs /\ ns[p] # B!None
  BY DEF B!Live
<1>2. ns[p] \in Procs /\ fs[p] \in Procs /\ Rooted(B!Table(ns[p]))
  BY <1>1 DEF BindInv, TablesRooted
<1>3. cwd[fs[p]] \in Route /\ guest[ns[p]] \in Seq(Bound)
  BY <1>2 DEF BindInv, BindTypes
<1>4. B!Lists(p) = B!Table(ns[p]) /\ B!Lists(p).guest = guest[ns[p]]
  BY DEF B!Lists, B!Table
<1>5. ASSUME NEW a \in Args PROVE B!canonicalize(p, a) \in Route
  <2>1. a.path \in Route
    BY DEF BindUsual
  <2>2. cwd[fs[p]] \o a.path \in Route
    <3>1. PICK c \in Route : c = cwd[fs[p]]
      BY <1>3
    <3>2. c \o a.path \in Route
      BY <2>1, ConcatProperties DEF Route
    <3> QED BY <3>1, <3>2
  <2> QED BY <2>1, <2>2 DEF B!canonicalize
<1> QED BY <1>1, <1>2, <1>3, <1>4, <1>5

(* A table is set, and whoever lives uses it or a table that was used.     *)
LEMMA SetKeeps ==
  ASSUME BindInv, NEW n \in Procs, NEW l, Rooted(l), B!SetLists(n, l),
         ns' \in [Procs -> Procs \cup {B!None}], fs' \in [Procs -> Procs \cup {B!None}],
         cwd' \in [Procs -> Route], tmpfs' \in Nat, stale' \in BOOLEAN,
         \A p \in Procs : ns'[p] # B!None =>
           fs'[p] \in Procs /\ (ns'[p] = n \/ \E q \in Procs : ns[q] # B!None /\ ns'[p] = ns[q])
  PROVE  BindInv'
<1>1. l \in Lists
  BY DEF Rooted, GoodLists
<1>2. PICK g, h : l = [guest |-> g, host |-> h] /\ g = l.guest /\ h = l.host /\ g \in Seq(Bound) /\ h \in Seq(Bound)
  BY <1>1 DEF Lists
<1>3. guest' = [guest EXCEPT ![n] = g] /\ host' = [host EXCEPT ![n] = h]
  BY <1>2 DEF B!SetLists
<1>4. guest \in [Procs -> Seq(Bound)] /\ host \in [Procs -> Seq(Bound)]
  BY DEF BindInv, BindTypes
<1>5. BindTypes'
  BY <1>2, <1>3, <1>4 DEF BindTypes
<1>6. B!Table(n)' = l
  BY <1>2, <1>3, <1>4 DEF B!Table
<1>7. ASSUME NEW m \in Procs, m # n PROVE B!Table(m)' = B!Table(m)
  BY <1>3, <1>4, <1>7 DEF B!Table
<1>8. ASSUME NEW p \in Procs, ns'[p] # B!None
      PROVE  ns'[p] \in Procs /\ fs'[p] \in Procs /\ Rooted(B!Table(ns[p]))'
  <2>1. ns'[p] = n \/ \E q \in Procs : ns[q] # B!None /\ ns'[p] = ns[q]
    BY <1>8
  <2>2. PICK m : m = ns'[p]
    OBVIOUS
  <2>3. m \in Procs /\ (m = n \/ Rooted(B!Table(m)))
    BY <2>1, <2>2 DEF BindInv, TablesRooted
  <2>4. Rooted(B!Table(m)')
    BY <1>6, <1>7, <2>3
  <2>5. B!Table(ns[p])' = B!Table(m)'
    BY <2>2 DEF B!Table
  <2>6. Rooted(B!Table(ns[p])')
    BY <2>4, <2>5
  <2>7. Rooted(B!Table(ns[p]))' = Rooted(B!Table(ns[p])')
    BY DEF Rooted, GoodLists, Lists, InnerGuests, InnerHosts, Distinct, Elems, Places
  <2> QED BY <1>8, <2>2, <2>3, <2>6, <2>7
<1>9. TablesRooted'
  BY <1>8 DEF TablesRooted
<1> QED BY <1>5, <1>9 DEF BindInv

(* No table is set.                                                        *)
LEMMA SameKeeps ==
  ASSUME BindInv, UNCHANGED <<guest, host>>,
         ns' \in [Procs -> Procs \cup {B!None}], fs' \in [Procs -> Procs \cup {B!None}],
         cwd' \in [Procs -> Route], tmpfs' \in Nat, stale' \in BOOLEAN,
         \A p \in Procs : ns'[p] # B!None =>
           fs'[p] \in Procs /\ \E q \in Procs : ns[q] # B!None /\ ns'[p] = ns[q]
  PROVE  BindInv'
<1>1. guest' = guest /\ host' = host
  OBVIOUS
<1>2. BindTypes'
  BY <1>1 DEF BindInv, BindTypes
<1>3. ASSUME NEW p \in Procs, ns'[p] # B!None
      PROVE  ns'[p] \in Procs /\ fs'[p] \in Procs /\ Rooted(B!Table(ns[p]))'
  <2>1. PICK q \in Procs : ns[q] # B!None /\ ns'[p] = ns[q]
    BY <1>3
  <2>2. ns[q] \in Procs /\ Rooted(B!Table(ns[q]))
    BY <2>1 DEF BindInv, TablesRooted
  <2>3. B!Table(ns[p])' = B!Table(ns[q])
    BY <1>1, <2>1 DEF B!Table
  <2>4. Rooted(B!Table(ns[p])')
    BY <2>2, <2>3
  <2>5. Rooted(B!Table(ns[p]))' = Rooted(B!Table(ns[p])')
    BY DEF Rooted, GoodLists, Lists, InnerGuests, InnerHosts, Distinct, Elems, Places
  <2> QED BY <1>3, <2>1, <2>2, <2>4, <2>5
<1>4. TablesRooted'
  BY <1>3 DEF TablesRooted
<1> QED BY <1>2, <1>4 DEF BindInv

LEMMA BindStart == BindUsual /\ B!Init => BindInv
<1> SUFFICES ASSUME BindUsual, B!Init PROVE BindInv
  OBVIOUS
<1> DEFINE first == CHOOSE p \in Procs : TRUE
<1>1. first \in Procs
  BY DEF BindUsual
<1>2. PICK options \in Startups :
        /\ guest = [n \in Procs |-> IF n = first THEN B!initialize_bindings(B!new_bindings(options)).guest ELSE <<>>]
        /\ host = [n \in Procs |-> IF n = first THEN B!initialize_bindings(B!new_bindings(options)).host ELSE <<>>]
        /\ ns = [p \in Procs |-> IF p = first THEN first ELSE B!None]
        /\ fs = ns /\ cwd = [p \in Procs |-> <<>>]
        /\ tmpfs = 0 /\ stale = FALSE
  BY DEF B!Init
<1> HIDE DEF first
<1>3. PICK l : l = B!initialize_bindings(B!new_bindings(options))
  OBVIOUS
<1>4. Rooted(l)
  <2>1. PICK i \in DOMAIN options : options \in Seq(Bound) /\ options[i].guest = <<>>
    BY DEF BindUsual
  <2>2. PICK s \in Seq(Bound) : s = B!new_bindings(options) /\ <<>> \in Places(s)
    BY <2>1, NewBindingsAre
  <2> QED BY <1>3, <2>2, InitializeBindingsRooted
<1>5. l \in Lists
  BY <1>4 DEF Rooted, GoodLists
<1>6. PICK g, h : l = [guest |-> g, host |-> h] /\ g = l.guest /\ h = l.host /\ g \in Seq(Bound) /\ h \in Seq(Bound)
  BY <1>5 DEF Lists
<1>7. BindTypes
  <2>1. guest = [n \in Procs |-> IF n = first THEN g ELSE <<>>] /\ host = [n \in Procs |-> IF n = first THEN h ELSE <<>>]
    BY <1>2, <1>3, <1>6
  <2>2. guest \in [Procs -> Seq(Bound)] /\ host \in [Procs -> Seq(Bound)]
    BY <1>6, <2>1
  <2>3. <<>> \in Route
    BY DEF Route
  <2> QED BY <1>1, <1>2, <2>2, <2>3 DEF BindTypes
<1>8. B!Table(first) = l
  BY <1>1, <1>2, <1>3, <1>6 DEF B!Table
<1>9. \A p \in Procs : ns[p] # B!None => ns[p] = first /\ fs[p] = first
  BY <1>2
<1>10. TablesRooted
  BY <1>1, <1>4, <1>8, <1>9 DEF TablesRooted
<1> QED BY <1>7, <1>10 DEF BindInv

LEMMA MountKeeps ==
  ASSUME BindUsual, BindInv, NEW p \in Procs, NEW type \in {"bind", "proc", "tmpfs"},
         NEW src \in Args, NEW target \in Args, B!emulate_mount(p, type, src, target)
  PROVE  BindInv'
<1> DEFINE to == B!canonicalize(p, target)
<1> DEFINE from == CASE type = "bind" -> B!translate(B!Lists(p), B!canonicalize(p, src))
                     [] type = "proc" -> B!Proc
                     [] type = "tmpfs" -> B!Tmpfs(tmpfs + 1)
<1>1. p \in B!Live
  BY DEF B!emulate_mount, B!Call
<1>2. /\ B!SetLists(ns[p], B!insort_binding(B!Lists(p), B!Binding(from, to, FALSE)))
      /\ UNCHANGED <<ns, fs, cwd, newns, stale>>
      /\ tmpfs' = IF type = "tmpfs" THEN tmpfs + 1 ELSE tmpfs
  BY DEF B!emulate_mount
<1>3. BindTypes
  BY DEF BindInv
<1>4. /\ ns[p] \in Procs /\ Rooted(B!Lists(p)) /\ to \in Route /\ B!canonicalize(p, src) \in Route
  BY <1>1, CallerHas
<1>5. B!translate(B!Lists(p), B!canonicalize(p, src)) \in Route
  BY <1>4, TranslateIs
<1>6. B!Proc \in Route /\ B!Tmpfs(tmpfs + 1) \in Route
  <2>1. tmpfs + 1 \in Nat
    BY <1>3 DEF BindTypes
  <2>2. "proc" \in Components /\ "tmp" \in Components /\ Nat \subseteq Components
    BY DEF BindUsual
  <2>3. tmpfs + 1 \in Components
    BY <2>1, <2>2
  <2> QED BY <2>2, <2>3 DEF B!Proc, B!Tmpfs, Route
<1>7. from \in Route
  BY <1>5, <1>6
<1> HIDE DEF from, to
<1>8. PICK b \in Bound : b = B!Binding(from, to, FALSE)
  BY <1>4, <1>7, BindingIs
<1>9. PICK l : l = B!insort_binding(B!Lists(p), b) /\ Rooted(l)
  BY <1>4, InsortRooted
<1>10. B!SetLists(ns[p], l)
  BY <1>2, <1>8, <1>9
<1>11. \A q \in Procs : ns'[q] # B!None =>
         fs'[q] \in Procs /\ (ns'[q] = ns[p] \/ \E r \in Procs : ns[r] # B!None /\ ns'[q] = ns[r])
  BY <1>2 DEF BindInv, TablesRooted
<1>12. /\ ns' \in [Procs -> Procs \cup {B!None}] /\ fs' \in [Procs -> Procs \cup {B!None}]
       /\ cwd' \in [Procs -> Route] /\ tmpfs' \in Nat /\ stale' \in BOOLEAN
  BY <1>2, <1>3 DEF BindTypes
<1> QED BY <1>4, <1>9, <1>10, <1>11, <1>12, SetKeeps

LEMMA UmountKeeps ==
  ASSUME BindUsual, BindInv, NEW p \in Procs, NEW target \in Args, B!emulate_umount(p, target)
  PROVE  BindInv'
<1> DEFINE to == B!canonicalize(p, target)
<1> DEFINE b == B!get_guest_binding(B!Lists(p), to)
<1>1. p \in B!Live
  BY DEF B!emulate_umount, B!Call
<1>2. /\ to # <<>> /\ b.guest = to
      /\ B!SetLists(ns[p], B!remove_binding_from_all_lists(B!Lists(p), b))
      /\ UNCHANGED <<ns, fs, cwd, newns, tmpfs, stale>>
  BY DEF B!emulate_umount
<1>3. ns[p] \in Procs /\ Rooted(B!Lists(p))
  BY <1>1, CallerHas
<1> HIDE DEF b, to
<1>4. PICK l : l = B!remove_binding_from_all_lists(B!Lists(p), b) /\ Rooted(l)
  BY <1>2, <1>3, RemoveRooted
<1>5. B!SetLists(ns[p], l)
  BY <1>2, <1>4
<1>6. \A q \in Procs : ns'[q] # B!None =>
         fs'[q] \in Procs /\ (ns'[q] = ns[p] \/ \E r \in Procs : ns[r] # B!None /\ ns'[q] = ns[r])
  BY <1>2 DEF BindInv, TablesRooted
<1>7. /\ ns' \in [Procs -> Procs \cup {B!None}] /\ fs' \in [Procs -> Procs \cup {B!None}]
      /\ cwd' \in [Procs -> Route] /\ tmpfs' \in Nat /\ stale' \in BOOLEAN
  BY <1>2 DEF BindInv, BindTypes
<1> QED BY <1>3, <1>4, <1>5, <1>6, <1>7, SetKeeps

LEMMA PivotKeeps ==
  ASSUME BindUsual, BindInv, NEW p \in Procs, NEW new_root \in Args, NEW put_old \in Args,
         B!emulate_pivot_root(p, new_root, put_old)
  PROVE  BindInv'
<1> DEFINE l == B!Lists(p)
<1> DEFINE new == B!canonicalize(p, new_root)
<1> DEFINE old == IF put_old.abs THEN put_old.path ELSE new \o put_old.path
<1> DEFINE after == IF B!IsStrictPrefix(new, old) THEN SubSeq(old, Len(new) + 1, Len(old)) ELSE <<>>
<1> DEFINE root == B!Last(l.guest)
<1> DEFINE fresh == B!Binding(B!translate(l, new), <<>>, FALSE)
<1> DEFINE switched == B!insort_binding(B!remove_binding_from_all_lists(l, root), fresh)
<1> DEFINE aliased == B!Binding(root.host, after, FALSE)
<1> DEFINE exposed == IF after = <<>> THEN switched ELSE B!insort_binding(switched, aliased)
<1> DEFINE done == B!pivot_bindings([l |-> exposed, stale |-> stale], l.guest, new, after)
<1>1. p \in B!Live
  BY DEF B!emulate_pivot_root, B!Call
<1>2. B!SetLists(ns[p], done.l) /\ stale' = done.stale /\ UNCHANGED <<ns, fs, cwd, newns, tmpfs>>
  BY DEF B!emulate_pivot_root
<1>3. ns[p] \in Procs /\ Rooted(l) /\ l.guest \in Seq(Bound) /\ new \in Route
  BY <1>1, CallerHas
<1> HIDE DEF l, new
<1>4. old \in Route /\ <<>> \in Route
  <2>1. put_old.path \in Route /\ <<>> \in Route
    BY DEF BindUsual, Route
  <2>2. new \o put_old.path \in Route
    BY <1>3, <2>1, ConcatProperties DEF Route
  <2> QED BY <2>1, <2>2
<1> HIDE DEF old
<1>5. after \in Route
  <2>1. Len(new) \in Nat /\ Len(old) \in Nat /\ \A i \in 1 .. Len(old) : old[i] \in Components
    BY <1>3, <1>4 DEF Route
  <2>2. PICK m, n : m = Len(new) + 1 /\ n = Len(old)
    OBVIOUS
  <2>3. m \in Int /\ n \in Int /\ \A i \in m .. n : old[i] \in Components
    BY <2>1, <2>2
  <2>4. SubSeq(old, m, n) \in Seq(Components)
    BY <2>3, SubSeqProperties
  <2> QED BY <1>4, <2>2, <2>4 DEF Route
<1> HIDE DEF after
<1>6. root \in Bound /\ root.host \in Route
  <2>1. root \in Bound
    BY <1>3, RootIsLast
  <2> QED BY <2>1 DEF Bound
<1>7. fresh \in Bound /\ fresh.guest = <<>>
  <2>1. B!translate(l, new) \in Route
    BY <1>3, TranslateIs
  <2> QED BY <1>4, <2>1, BindingIs
<1>8. aliased \in Bound
  BY <1>5, <1>6, BindingIs
<1> HIDE DEF root, fresh, aliased
<1>9. Rooted(switched)
  <2>1. GoodLists(l)
    BY <1>3 DEF Rooted
  <2>2. PICK k : k = B!remove_binding_from_all_lists(l, root) /\ GoodLists(k)
    BY <2>1, RemoveGood
  <2>3. GoodLists(B!insort_binding(k, fresh))
        /\ Places(B!insort_binding(k, fresh).guest) = Places(k.guest) \cup {fresh.guest}
    BY <1>7, <2>2, InsortGood
  <2> QED BY <1>7, <2>2, <2>3 DEF Rooted
<1> HIDE DEF switched
<1>10. Rooted(exposed)
  BY <1>8, <1>9, InsortRooted
<1> HIDE DEF exposed
<1>11. PICK first \in Pivots : first = [l |-> exposed, stale |-> stale]
  <2>1. exposed \in Lists
    BY <1>10 DEF Rooted, GoodLists
  <2>2. stale \in BOOLEAN
    BY DEF BindInv, BindTypes
  <2>3. PICK f : f = [l |-> exposed, stale |-> stale]
    OBVIOUS
  <2>4. f \in [l : Lists, stale : BOOLEAN] /\ f.l = exposed
    BY <2>1, <2>2, <2>3
  <2>5. f \in Pivots
    BY <1>10, <2>4 DEF Pivots
  <2> QED BY <2>3, <2>5
<1>12. done \in Pivots
  <2>1. PICK g \in Seq(Bound) : g = l.guest
    BY <1>3
  <2>2. B!pivot_bindings(first, g, new, after) \in Pivots
    BY <1>3, <1>5, PivotBindingsRooted
  <2> QED BY <1>11, <2>1, <2>2
<1> HIDE DEF done
<1>13. Rooted(done.l) /\ done.stale \in BOOLEAN
  BY <1>12 DEF Pivots
<1>14. \A q \in Procs : ns'[q] # B!None =>
         fs'[q] \in Procs /\ (ns'[q] = ns[p] \/ \E r \in Procs : ns[r] # B!None /\ ns'[q] = ns[r])
  BY <1>2 DEF BindInv, TablesRooted
<1>15. /\ ns' \in [Procs -> Procs \cup {B!None}] /\ fs' \in [Procs -> Procs \cup {B!None}]
       /\ cwd' \in [Procs -> Route] /\ tmpfs' \in Nat /\ stale' \in BOOLEAN
  BY <1>2, <1>13 DEF BindInv, BindTypes
<1>16. PICK d : d = done.l
  OBVIOUS
<1> QED BY <1>2, <1>3, <1>13, <1>14, <1>15, <1>16, SetKeeps

LEMMA ChdirKeeps ==
  ASSUME BindUsual, BindInv, NEW p \in Procs, NEW target \in Args, B!chdir(p, target)
  PROVE  BindInv'
<1> DEFINE to == B!canonicalize(p, target)
<1> DEFINE d == B!detranslate_path(B!Lists(p), B!translate(B!Lists(p), to))
<1>1. p \in B!Live
  BY DEF B!chdir, B!Call
<1>2. d # B!NoPath /\ cwd' = [cwd EXCEPT ![fs[p]] = d] /\ UNCHANGED <<guest, host, ns, fs, newns, tmpfs, stale>>
  BY DEF B!chdir
<1>3. Rooted(B!Lists(p)) /\ to \in Route
  BY <1>1, CallerHas
<1>4. d \in Route
  <2>1. B!translate(B!Lists(p), to) \in Route
    BY <1>3, TranslateIs
  <2> QED BY <1>2, <1>3, <2>1, DetranslateIs
<1> HIDE DEF d
<1>5. \A q \in Procs : ns'[q] # B!None =>
        fs'[q] \in Procs /\ \E r \in Procs : ns[r] # B!None /\ ns'[q] = ns[r]
  BY <1>2 DEF BindInv, TablesRooted
<1>6. /\ ns' \in [Procs -> Procs \cup {B!None}] /\ fs' \in [Procs -> Procs \cup {B!None}]
      /\ cwd' \in [Procs -> Route] /\ tmpfs' \in Nat /\ stale' \in BOOLEAN
  BY <1>2, <1>4 DEF BindInv, BindTypes
<1> QED BY <1>2, <1>5, <1>6, SameKeeps

LEMMA EnterCloneKeeps ==
  ASSUME BindInv, NEW p \in Procs, B!EnterClone(p)
  PROVE  BindInv'
<1>1. UNCHANGED <<guest, host, ns, fs, cwd, tmpfs, stale>>
  BY DEF B!EnterClone
<1>2. \A q \in Procs : ns'[q] # B!None =>
        fs'[q] \in Procs /\ \E r \in Procs : ns[r] # B!None /\ ns'[q] = ns[r]
  BY <1>1 DEF BindInv, TablesRooted
<1>3. /\ ns' \in [Procs -> Procs \cup {B!None}] /\ fs' \in [Procs -> Procs \cup {B!None}]
      /\ cwd' \in [Procs -> Route] /\ tmpfs' \in Nat /\ stale' \in BOOLEAN
  BY <1>1 DEF BindInv, BindTypes
<1> QED BY <1>1, <1>2, <1>3, SameKeeps

LEMMA NewChildKeeps ==
  ASSUME BindUsual, BindInv, NEW p \in Procs, NEW child \in Procs, NEW clone_fs \in BOOLEAN,
         B!new_child(p, child, clone_fs)
  PROVE  BindInv'
<1> DEFINE own == ~clone_fs /\ newns[p]
<1>1. /\ p \in B!Live
      /\ ns' = [ns EXCEPT ![child] = IF own THEN child ELSE ns[p]]
      /\ fs' = [fs EXCEPT ![child] = IF clone_fs THEN fs[p] ELSE child]
      /\ cwd' = IF clone_fs THEN cwd ELSE [cwd EXCEPT ![child] = cwd[fs[p]]]
      /\ IF own THEN B!SetLists(child, B!copied_bindings(guest[ns[p]])) ELSE UNCHANGED <<guest, host>>
      /\ UNCHANGED <<tmpfs, stale>>
  BY DEF B!new_child
<1> HIDE DEF own
<1>2. ns[p] \in Procs /\ fs[p] \in Procs /\ cwd[fs[p]] \in Route /\ Rooted(B!Lists(p))
      /\ B!Lists(p).guest = guest[ns[p]] /\ guest[ns[p]] \in Seq(Bound)
  BY <1>1, CallerHas
<1>3. BindTypes
  BY DEF BindInv
<1>4. /\ ns' \in [Procs -> Procs \cup {B!None}] /\ fs' \in [Procs -> Procs \cup {B!None}]
      /\ cwd' \in [Procs -> Route] /\ tmpfs' \in Nat /\ stale' \in BOOLEAN
  BY <1>1, <1>2, <1>3 DEF BindTypes
<1>5. ASSUME NEW q \in Procs, ns'[q] # B!None
      PROVE  /\ fs'[q] \in Procs
             /\ (own /\ ns'[q] = child) \/ \E r \in Procs : ns[r] # B!None /\ ns'[q] = ns[r]
  <2>1. CASE q = child
    <3>1. fs'[q] \in Procs
      BY <1>1, <1>2, <1>3, <2>1 DEF BindTypes
    <3>2. ns'[q] = IF own THEN child ELSE ns[p]
      BY <1>1, <1>3, <2>1 DEF BindTypes
    <3>3. ns[p] # B!None
      BY <1>1 DEF B!Live
    <3> QED BY <3>1, <3>2, <3>3
  <2>2. CASE q # child
    <3>1. ns'[q] = ns[q] /\ fs'[q] = fs[q]
      BY <1>1, <1>3, <2>2 DEF BindTypes
    <3>2. fs[q] \in Procs
      BY <1>5, <3>1 DEF BindInv, TablesRooted
    <3> QED BY <1>5, <3>1, <3>2
  <2> QED BY <2>1, <2>2
<1>6. CASE own
  <2>1. <<>> \in Places(guest[ns[p]])
    BY <1>2 DEF Rooted
  <2>2. PICK s \in Seq(Bound) : s = guest[ns[p]]
    BY <1>2
  <2>3. PICK l : l = B!copied_bindings(s) /\ Rooted(l)
    BY <2>1, <2>2, CopiedBindingsRooted
  <2>4. B!SetLists(child, l)
    BY <1>1, <1>6, <2>2, <2>3
  <2>5. \A q \in Procs : ns'[q] # B!None =>
          fs'[q] \in Procs /\ (ns'[q] = child \/ \E r \in Procs : ns[r] # B!None /\ ns'[q] = ns[r])
    BY <1>5
  <2> QED BY <1>4, <2>3, <2>4, <2>5, SetKeeps
<1>7. CASE ~own
  <2>1. UNCHANGED <<guest, host>>
    BY <1>1, <1>7
  <2>2. \A q \in Procs : ns'[q] # B!None =>
          fs'[q] \in Procs /\ \E r \in Procs : ns[r] # B!None /\ ns'[q] = ns[r]
    BY <1>5, <1>7
  <2> QED BY <1>4, <2>1, <2>2, SameKeeps
<1> QED BY <1>6, <1>7

LEMMA ChrootKeeps ==
  ASSUME BindUsual, BindInv, NEW p \in Procs, NEW target \in Args, NEW shown \in BOOLEAN,
         B!handle_chroot_exit_end(p, target, shown)
  PROVE  BindInv'
<1> DEFINE l == B!Lists(p)
<1> DEFINE to == B!canonicalize(p, target)
<1> DEFINE root == B!translate(l, to)
<1> DEFINE fresh == B!insort_binding(B!NoBindings, B!Binding(root, <<>>, TRUE))
<1> DEFINE d == B!detranslate_path(fresh, B!translate(l, cwd[fs[p]]))
<1>1. /\ p \in B!Live
      /\ ns' = [ns EXCEPT ![p] = p] /\ fs' = [fs EXCEPT ![p] = p]
      /\ B!SetLists(p, fresh)
      /\ cwd' = [cwd EXCEPT ![p] = IF d = B!NoPath THEN <<>> ELSE d]
      /\ UNCHANGED <<newns, tmpfs, stale>>
  BY DEF B!handle_chroot_exit_end, B!Call
<1>2. Rooted(l) /\ to \in Route /\ cwd[fs[p]] \in Route /\ <<>> \in Route
  <2>1. <<>> \in Route
    BY DEF Route
  <2> QED BY <1>1, <2>1, CallerHas
<1> HIDE DEF l, to
<1>3. root \in Route /\ B!translate(l, cwd[fs[p]]) \in Route
  BY <1>2, TranslateIs
<1> HIDE DEF root
<1>4. Rooted(fresh)
  <2>1. PICK b \in Bound : b = B!Binding(root, <<>>, TRUE) /\ b.guest = <<>>
    BY <1>2, <1>3, BindingIs
  <2>2. PICK z : z = B!NoBindings /\ GoodLists(z)
    BY NoBindingsGood
  <2>3. GoodLists(B!insort_binding(z, b)) /\ Places(B!insort_binding(z, b).guest) = Places(z.guest) \cup {b.guest}
    BY <2>2, InsortGood
  <2> QED BY <2>1, <2>2, <2>3 DEF Rooted
<1> HIDE DEF fresh
<1>5. d # B!NoPath => d \in Route
  BY <1>3, <1>4, DetranslateIs
<1> HIDE DEF d
<1>6. BindTypes
  BY DEF BindInv
<1>7. /\ ns' \in [Procs -> Procs \cup {B!None}] /\ fs' \in [Procs -> Procs \cup {B!None}]
      /\ cwd' \in [Procs -> Route] /\ tmpfs' \in Nat /\ stale' \in BOOLEAN
  BY <1>1, <1>2, <1>5, <1>6 DEF BindTypes
<1>8. ASSUME NEW q \in Procs, ns'[q] # B!None
      PROVE  fs'[q] \in Procs /\ (ns'[q] = p \/ \E r \in Procs : ns[r] # B!None /\ ns'[q] = ns[r])
  <2>1. CASE q = p
    BY <1>1, <1>6, <2>1 DEF BindTypes
  <2>2. CASE q # p
    <3>1. ns'[q] = ns[q] /\ fs'[q] = fs[q]
      BY <1>1, <1>6, <2>2 DEF BindTypes
    <3>2. fs[q] \in Procs
      BY <1>8, <3>1 DEF BindInv, TablesRooted
    <3> QED BY <1>8, <3>1, <3>2
  <2> QED BY <2>1, <2>2
<1> QED BY <1>1, <1>4, <1>7, <1>8, SetKeeps

-----------------------------------------------------------------------------
(* Whatever guests mount, unmount, pivot, clone and chroot, the first      *)
(* binding a search finds is the innermost one, both lists hold the same   *)
(* ones, and the last guest path is "/", as get_root asserts.              *)
THEOREM InnermostStaysFirst == ASSUME BindUsual PROVE B!Spec => []B!InnermostFirst
<1>1. B!Init => BindInv
  BY BindStart
<1>2. BindInv /\ [B!Next]_B!vars => BindInv'
  <2> SUFFICES ASSUME BindInv, [B!Next]_B!vars PROVE BindInv'
    OBVIOUS
  <2>1. CASE B!Next
    <3>1. PICK p \in Procs :
            \/ \E s, t \in Args : B!emulate_mount(p, "bind", s, t)
            \/ \E type \in {"proc", "tmpfs"}, t \in Args : B!emulate_mount(p, type, t, t)
            \/ \E t \in Args : B!emulate_umount(p, t) \/ B!chdir(p, t)
            \/ \E s, t \in Args : B!emulate_pivot_root(p, s, t)
            \/ B!EnterClone(p)
            \/ \E c \in Procs, x \in BOOLEAN : B!new_child(p, c, x)
            \/ \E t \in Args, x \in BOOLEAN : B!handle_chroot_exit_end(p, t, x)
      BY <2>1 DEF B!Next
    <3>2. CASE \E s, t \in Args : B!emulate_mount(p, "bind", s, t)
      BY <3>2, MountKeeps
    <3>3. CASE \E type \in {"proc", "tmpfs"}, t \in Args : B!emulate_mount(p, type, t, t)
      BY <3>3, MountKeeps
    <3>4. CASE \E t \in Args : B!emulate_umount(p, t) \/ B!chdir(p, t)
      BY <3>4, UmountKeeps, ChdirKeeps
    <3>5. CASE \E s, t \in Args : B!emulate_pivot_root(p, s, t)
      BY <3>5, PivotKeeps
    <3>6. CASE B!EnterClone(p)
      BY <3>6, EnterCloneKeeps
    <3>7. CASE \E c \in Procs, x \in BOOLEAN : B!new_child(p, c, x)
      BY <3>7, NewChildKeeps
    <3>8. CASE \E t \in Args, x \in BOOLEAN : B!handle_chroot_exit_end(p, t, x)
      BY <3>8, ChrootKeeps
    <3> QED BY <3>1, <3>2, <3>3, <3>4, <3>5, <3>6, <3>7, <3>8
  <2>2. CASE UNCHANGED B!vars
    <3>1. UNCHANGED <<guest, host, ns, fs, cwd, tmpfs, stale>>
      BY <2>2 DEF B!vars
    <3>2. \A q \in Procs : ns'[q] # B!None =>
            fs'[q] \in Procs /\ \E r \in Procs : ns[r] # B!None /\ ns'[q] = ns[r]
      BY <3>1 DEF BindInv, TablesRooted
    <3>3. /\ ns' \in [Procs -> Procs \cup {B!None}] /\ fs' \in [Procs -> Procs \cup {B!None}]
          /\ cwd' \in [Procs -> Route] /\ tmpfs' \in Nat /\ stale' \in BOOLEAN
      BY <3>1 DEF BindInv, BindTypes
    <3> QED BY <3>1, <3>2, <3>3, SameKeeps
  <2> QED BY <2>1, <2>2
<1>3. BindInv => B!InnermostFirst
  <2> SUFFICES ASSUME BindInv, NEW n \in B!Namespaces
               PROVE  /\ B!ToSet(guest[n]) = B!ToSet(host[n]) /\ Len(guest[n]) = Len(host[n])
                      /\ B!Last(guest[n]).guest = <<>>
                      /\ \A i, j \in 1 .. Len(guest[n]) : i < j =>
                           /\ ~B!IsPrefix(guest[n][i].guest, guest[n][j].guest)
                           /\ ~B!IsStrictPrefix(host[n][i].host, host[n][j].host)
    BY DEF B!InnermostFirst
  <2>1. PICK l : l = B!Table(n) /\ Rooted(l)
    BY DEF B!Namespaces, B!Live, BindInv, TablesRooted
  <2>2. PICK g, h : g = guest[n] /\ h = host[n] /\ g = l.guest /\ h = l.host
    BY <2>1 DEF B!Table
  <2>3. /\ g \in Seq(Bound) /\ h \in Seq(Bound) /\ InnerGuests(g) /\ InnerHosts(h)
        /\ Elems(g) = Elems(h) /\ Len(g) = Len(h)
    BY <2>1, <2>2 DEF Rooted, GoodLists, Lists
  <2>4. B!Last(g).guest = <<>>
    BY <2>1, <2>2, RootIsLast
  <2>5. B!ToSet(g) = B!ToSet(h)
    BY <2>3 DEF B!ToSet, Elems
  <2>6. DOMAIN g = 1 .. Len(g) /\ DOMAIN h = 1 .. Len(g)
    BY <2>3
  <2> QED BY <2>2, <2>3, <2>4, <2>5, <2>6 DEF InnerGuests, InnerHosts
<1> QED BY <1>1, <1>2, <1>3, PTL DEF B!Spec

-----------------------------------------------------------------------------
(* Paths of Answers: what is under a path is that path and some more.      *)
LEMMA PrefixMore ==
  ASSUME NEW a \in Route, NEW b \in Route, An!IsPrefix(a, b)
  PROVE  SubSeq(b, Len(a) + 1, Len(b)) \in Route /\ b = a \o SubSeq(b, Len(a) + 1, Len(b))
<1>1. B!IsPrefix(a, b)
  BY DEF An!IsPrefix, B!IsPrefix
<1>2. Len(a) \in Nat /\ Len(b) \in Nat /\ Len(a) =< Len(b) /\ \A i \in 1 .. Len(a) : a[i] = b[i]
  BY <1>1, PrefixIs DEF Route
<1>3. PICK m, n : m = Len(a) + 1 /\ n = Len(b)
  OBVIOUS
<1>4. m \in Int /\ n \in Int /\ \A i \in m .. n : b[i] \in Components
  BY <1>2, <1>3 DEF Route
<1>5. PICK s : s = SubSeq(b, m, n)
  OBVIOUS
<1>6. /\ s \in Seq(Components) /\ Len(s) = IF m <= n THEN n - m + 1 ELSE 0
      /\ \A i \in 1 .. n - m + 1 : s[i] = b[m + i - 1]
  BY <1>4, <1>5, SubSeqProperties
<1>7. /\ a \o s \in Seq(Components) /\ Len(a \o s) = Len(a) + Len(s)
      /\ \A i \in 1 .. Len(a) + Len(s) : (a \o s)[i] = IF i <= Len(a) THEN a[i] ELSE s[i - Len(a)]
  BY <1>6, ConcatProperties DEF Route
<1>8. PICK c : c = a \o s
  OBVIOUS
<1>9. Len(c) = Len(b) /\ c \in Seq(Components)
  BY <1>2, <1>3, <1>6, <1>7, <1>8
<1>10. ASSUME NEW i \in 1 .. Len(b) PROVE c[i] = b[i]
  <2>1. CASE i <= Len(a)
    BY <1>2, <1>3, <1>6, <1>7, <1>8, <2>1
  <2>2. CASE ~(i <= Len(a))
    <3>1. i \in 1 .. Len(a) + Len(s)
      BY <1>2, <1>7, <1>8, <1>9
    <3>2. c[i] = s[i - Len(a)]
      BY <1>7, <1>8, <2>2, <3>1
    <3>3. i - Len(a) \in 1 .. n - m + 1 /\ m + (i - Len(a)) - 1 = i
      BY <1>2, <1>3, <2>2
    <3> QED BY <1>6, <3>2, <3>3
  <2> QED BY <2>1, <2>2
<1>11. b = c
  BY <1>9, <1>10, SeqEqual DEF Route
<1> QED BY <1>3, <1>5, <1>6, <1>8, <1>11 DEF Route

LEMMA MorePrefix ==
  ASSUME NEW a \in Route, NEW s \in Route
  PROVE  /\ a \o s \in Route /\ Len(a \o s) = Len(a) + Len(s)
         /\ An!IsPrefix(a, a \o s) /\ SubSeq(a \o s, Len(a) + 1, Len(a \o s)) = s
         /\ a # <<>> => a \o s # <<>>
<1>1. /\ a \o s \in Route /\ Len(a \o s) = Len(a) + Len(s)
      /\ \A i \in 1 .. Len(a) + Len(s) : (a \o s)[i] = IF i <= Len(a) THEN a[i] ELSE s[i - Len(a)]
  BY ConcatProperties DEF Route
<1>2. Len(a) \in Nat /\ Len(s) \in Nat
  BY DEF Route
<1>3. PICK c : c = a \o s
  OBVIOUS
<1>4. c \in Route /\ Len(a) =< Len(c) /\ \A i \in 1 .. Len(a) : a[i] = c[i]
  BY <1>1, <1>2, <1>3
<1>5. An!IsPrefix(a, c)
  <2>1. B!IsPrefix(a, c)
    BY <1>4, PrefixIs
  <2> QED BY <2>1 DEF An!IsPrefix, B!IsPrefix
<1>6. SubSeq(c, Len(a) + 1, Len(c)) \in Route /\ c = a \o SubSeq(c, Len(a) + 1, Len(c))
  BY <1>4, <1>5, PrefixMore
<1>7. SubSeq(c, Len(a) + 1, Len(c)) = s
  BY <1>3, <1>6, ConcatSimplifications DEF Route
<1>8. a # <<>> => c # <<>>
  BY <1>3, ConcatSimplifications DEF Route
<1> QED BY <1>1, <1>3, <1>5, <1>7, <1>8

LEMMA Comparable ==
  ASSUME NEW a \in Route, NEW b \in Route, NEW c \in Route, An!IsPrefix(a, c), An!IsPrefix(b, c)
  PROVE  An!IsPrefix(a, b) \/ An!IsPrefix(b, a)
<1>1. B!IsPrefix(a, c) /\ B!IsPrefix(b, c)
  BY DEF An!IsPrefix, B!IsPrefix
<1>2. /\ Len(a) =< Len(c) /\ \A i \in 1 .. Len(a) : a[i] = c[i]
      /\ Len(b) =< Len(c) /\ \A i \in 1 .. Len(b) : b[i] = c[i]
      /\ Len(a) \in Nat /\ Len(b) \in Nat
  BY <1>1, PrefixIs DEF Route
<1>3. CASE Len(a) =< Len(b)
  <2>1. \A i \in 1 .. Len(a) : a[i] = b[i]
    BY <1>2, <1>3
  <2> QED BY <1>3, <2>1, PrefixIs DEF An!IsPrefix, B!IsPrefix
<1>4. CASE Len(b) =< Len(a)
  <2>1. \A i \in 1 .. Len(b) : b[i] = a[i]
    BY <1>2, <1>4
  <2> QED BY <1>4, <2>1, PrefixIs DEF An!IsPrefix, B!IsPrefix
<1> QED BY <1>2, <1>3, <1>4

(* A path on the way to new and some more.                                 *)
Beyond(q, new, s) == \E s1, s2 \in Route : q = new \o s1 /\ s = s1 \o s2

LEMMA OnTheWay ==
  ASSUME NEW q \in Route, NEW new \in Route, NEW s \in Route, An!IsPrefix(q, new \o s)
  PROVE  An!IsPrefix(q, new) \/ Beyond(q, new, s)
<1>1. new \o s \in Route /\ An!IsPrefix(new, new \o s)
  BY MorePrefix
<1>2. PICK c \in Route : c = new \o s
  BY <1>1
<1>3. CASE An!IsPrefix(new, q)
  <2>1. PICK s1 \in Route : q = new \o s1
    BY <1>3, PrefixMore
  <2>2. PICK s2 \in Route : c = q \o s2
    BY <1>2, PrefixMore
  <2>3. new \o s = new \o (s1 \o s2) /\ s1 \o s2 \in Route
    BY <1>2, <2>1, <2>2, ConcatAssociative, MorePrefix DEF Route
  <2>4. s = s1 \o s2
    BY <2>3, ConcatSimplifications DEF Route
  <2> QED BY <2>1, <2>2, <2>4 DEF Beyond
<1> QED BY <1>1, <1>2, <1>3, Comparable

LEMMA PrefixSame ==
  ASSUME NEW a \in Route, NEW b \in Route, NEW c \in Route
  PROVE  /\ An!IsPrefix(a, a)
         /\ An!IsPrefix(a, b) /\ An!IsPrefix(b, c) => An!IsPrefix(a, c)
         /\ An!IsPrefix(a, b) /\ An!IsPrefix(b, a) => a = b
         /\ An!IsPrefix(a, <<>>) => a = <<>>
<1>1. \A x, y : An!IsPrefix(x, y) <=> B!IsPrefix(x, y)
  BY DEF An!IsPrefix, B!IsPrefix
<1>2. <<>> \in Route
  BY DEF Route
<1>3. An!IsPrefix(<<>>, a)
  BY <1>1, PrefixOrder
<1>4. An!IsPrefix(a, <<>>) => a = <<>>
  BY <1>1, <1>2, <1>3, PrefixOrder
<1> QED BY <1>1, <1>4, PrefixOrder

LEMMA FrontOnTheWay ==
  ASSUME NEW q \in Route, NEW new \in Route, An!IsPrefix(q, new), q # new, q # <<>>
  PROVE  An!Front(new) \in Route /\ An!Front(new) # <<>> /\ An!IsPrefix(q, An!Front(new))
<1>1. Len(q) =< Len(new) /\ \A i \in 1 .. Len(q) : q[i] = new[i]
  BY PrefixIs DEF An!IsPrefix, B!IsPrefix
<1>2. Len(q) \in Nat /\ Len(new) \in Nat /\ Len(q) # 0
  BY DEF Route
<1>3. Len(q) # Len(new)
  BY <1>1, SeqEqual DEF Route
<1>4. PICK n : n = Len(new) - 1
  OBVIOUS
<1>5. n \in Int /\ Len(q) =< n /\ n >= 1 /\ \A i \in 1 .. n : new[i] \in Components
  BY <1>1, <1>2, <1>3, <1>4 DEF Route
<1>6. PICK f : f = SubSeq(new, 1, n)
  OBVIOUS
<1>7. f \in Seq(Components) /\ Len(f) = n - 1 + 1 /\ \A i \in 1 .. n - 1 + 1 : f[i] = new[1 + i - 1]
  BY <1>5, <1>6, SubSeqProperties
<1>8. f \in Route /\ Len(f) = n /\ \A i \in 1 .. Len(q) : f[i] = q[i]
  BY <1>1, <1>5, <1>7 DEF Route
<1>9. An!IsPrefix(q, f)
  BY <1>5, <1>8, PrefixIs DEF An!IsPrefix, B!IsPrefix
<1>10. f # <<>>
  BY <1>5, <1>8
<1> QED BY <1>4, <1>6, <1>8, <1>9, <1>10 DEF An!Front

-----------------------------------------------------------------------------
(* What the theorem about Answers asks of the constants: no quirk; places  *)
(* are paths but the root, where every directory starts at one of its own, *)
(* below directories; a socket has a name sun_path has room for, and a     *)
(* shorter path that is no other's, nor under the root file system.        *)
AnswersUsual ==
  /\ Quirks = {} /\ 0 \notin Dirs /\ 0 \notin Fds
  /\ Spots \subseteq Route \ {<<>>} /\ FirstSpots \in [Dirs -> Route]
  /\ \A d, e \in Dirs : FirstSpots[d] # <<>> /\ FirstSpots[d] = FirstSpots[e] => d = e
  /\ \A d \in Dirs, q \in Route : q # <<>> /\ An!IsPrefix(q, FirstSpots[d]) => \E e \in Dirs : FirstSpots[e] = q
  /\ HostRoot \in Route /\ SizeofPath \in Nat /\ SizeofPath >= 2
  /\ Sockets \subseteq Route /\ Targets \subseteq Route /\ Sizes \subseteq Nat
  /\ \A p \in Sockets : Len(p) <= SizeofPath /\ An!ShortOf(p) \in Route
  /\ \A p, q \in Sockets : An!ShortOf(p) # HostRoot \o q /\ (An!ShortOf(p) = An!ShortOf(q) => p = q)

(* A directory has one place, and what leads to it is one of directories.  *)
PlacesPart ==
  /\ where \in [Dirs -> Route]
  /\ \A d, e \in Dirs : where[d] # <<>> /\ where[d] = where[e] => d = e
  /\ \A d \in Dirs, q \in Route : q # <<>> /\ An!IsPrefix(q, where[d]) => \E e \in Dirs : where[e] = q

(* Between the kernel and the exit of a rename nothing has the old name.   *)
Renames(t) == renaming[t] # An!NoRename
RenamePart ==
  /\ renaming \in [Tracees -> [old : Route, new : Route]]
  /\ \A t \in Tracees : Renames(t) =>
       /\ renaming[t].old # <<>> /\ renaming[t].new # <<>>
       /\ \A e \in Dirs : ~An!IsPrefix(renaming[t].old, where[e])
       /\ \A u \in Tracees : Renames(u) => u = t

(* A name of the directory d: where it is, and no other's once removed.    *)
NameOf(d, p) ==
  IF d = 0 THEN p = <<>>
  ELSE IF where[d] = <<>> THEN p # <<>> /\ \A e \in Dirs : where[e] # p
  ELSE p = where[d]

(* A working directory has its name, or will at the exit of the rename.    *)
CwdPart ==
  /\ shared \in BOOLEAN /\ cwd \in [Tracees -> Route] /\ real \in [Tracees -> Dirs \cup {0}]
  /\ \A u \in Tracees :
       /\ (\A t \in Tracees : Renames(t) => u \notin An!Sharing(t)) => NameOf(real[u], cwd[u])
       /\ \A t \in Tracees : Renames(t) /\ u \in An!Sharing(t) =>
            NameOf(real[u], An!Moved(cwd[u], renaming[t].old, renaming[t].new))

(* Each socket is where a connect looks for it.                            *)
SocketPart ==
  /\ DOMAIN shorts \subseteq Sockets /\ \A p \in DOMAIN shorts : shorts[p] = An!ShortOf(p)
  /\ DOMAIN bound \subseteq Sockets /\ \A p \in DOMAIN bound : bound[p] = An!HostOf(p) /\ ~An!TooLong(p)

(* The descriptor that is remembered is right whenever it is looked at.    *)
FilePart ==
  /\ files \in [Tracees -> [Fds -> {"closed", "auxv", "data"}]] /\ auxv_fd \in [Tracees -> Fds \cup {0}]
  /\ filter \in BOOLEAN /\ watched \in [Tracees -> BOOLEAN]
  /\ \A t \in Tracees : auxv_fd[t] # 0 /\ An!Stops(t) => ~shared /\ files[t][auxv_fd[t]] = "auxv"

AnswersInv == PlacesPart /\ RenamePart /\ CwdPart /\ SocketPart /\ FilePart

LEMMA AnswersStart == ASSUME AnswersUsual, An!Init PROVE AnswersInv
<1>1. <<>> \in Route
  BY DEF Route
<1>2. PlacesPart
  BY DEF An!Init, AnswersUsual, PlacesPart
<1>3. RenamePart
  BY <1>1 DEF An!Init, RenamePart, Renames, An!NoRename
<1>4. CwdPart
  BY <1>1 DEF An!Init, CwdPart, Renames, NameOf
<1>5. SocketPart
  <2>1. DOMAIN shorts = {} /\ DOMAIN bound = {}
    BY DEF An!Init
  <2> QED BY <2>1 DEF SocketPart
<1>6. FilePart
  BY DEF An!Init, FilePart
<1> QED BY <1>2, <1>3, <1>4, <1>5, <1>6 DEF AnswersInv

(* A call that leaves the descriptors alone.                               *)
LEMMA FilesSame ==
  ASSUME FilePart, UNCHANGED <<shared, files, auxv_fd>>,
         UNCHANGED <<filter, watched>> \/ \E t \in Tracees : An!Asks(t, FALSE)
  PROVE  FilePart'
<1>1. /\ filter' = filter /\ watched' \in [Tracees -> BOOLEAN]
      /\ \A u \in Tracees : watched'[u] => watched[u]
  BY DEF FilePart, An!Asks
<1>2. \A u \in Tracees : An!Stops(u)' => An!Stops(u)
  BY <1>1 DEF An!Stops
<1> QED BY <1>1, <1>2 DEF FilePart

LEMMA MovedAlong ==
  ASSUME NEW old \in Route, NEW new \in Route, NEW s \in Route, old # <<>>
  PROVE  An!Under(old, old \o s) /\ An!Moved(old \o s, old, new) = new \o s
<1>1. An!IsPrefix(old, old \o s) /\ SubSeq(old \o s, Len(old) + 1, Len(old \o s)) = s
  BY MorePrefix
<1> QED BY <1>1 DEF An!Under, An!Moved

LEMMA MovedFrom ==
  ASSUME NEW p \in Route, NEW old \in Route, NEW new \in Route, An!Under(old, p)
  PROVE  \E s \in Route : p = old \o s /\ An!Moved(p, old, new) = new \o s
<1>1. PICK s : s = SubSeq(p, Len(old) + 1, Len(p)) /\ s \in Route /\ p = old \o s
  BY PrefixMore DEF An!Under
<1>2. An!Moved(p, old, new) = new \o s
  BY <1>1 DEF An!Moved
<1> QED BY <1>1, <1>2

LEMMA MovedIsPath ==
  ASSUME NEW p \in Route, NEW old \in Route, NEW new \in Route
  PROVE  An!Moved(p, old, new) \in Route /\ (p # <<>> /\ new # <<>> => An!Moved(p, old, new) # <<>>)
<1>1. CASE An!Under(old, p)
  <2>1. PICK s \in Route : p = old \o s /\ An!Moved(p, old, new) = new \o s
    BY <1>1, MovedFrom
  <2>2. new \o s \in Route /\ (new # <<>> => new \o s # <<>>)
    BY MorePrefix
  <2> QED BY <2>1, <2>2
<1>2. CASE ~An!Under(old, p)
  BY <1>2 DEF An!Moved
<1> QED BY <1>1, <1>2

LEMMA AnswersChdir ==
  ASSUME AnswersInv, NEW t \in Tracees, NEW d \in Dirs \cup {0}, An!Chdir(t, d)
  PROVE  AnswersInv'
<1> USE DEF AnswersInv
<1> DEFINE p == IF d = 0 THEN <<>> ELSE where[d]
<1>1. /\ d # 0 => where[d] # <<>>
      /\ cwd' = [u \in Tracees |-> IF u \in An!Sharing(t) THEN p ELSE cwd[u]]
      /\ real' = [u \in Tracees |-> IF u \in An!Sharing(t) THEN d ELSE real[u]]
      /\ UNCHANGED <<shared, where, renaming, shorts, bound, files, auxv_fd>>
  BY DEF An!Chdir
<1>2. p \in Route /\ NameOf(d, p)
  BY <1>1 DEF PlacesPart, Route, NameOf
<1>3. ASSUME NEW u \in Tracees, Renames(u) PROVE An!Moved(p, renaming[u].old, renaming[u].new) = p
  <2>1. renaming[u].old \in Route /\ renaming[u].new \in Route /\ renaming[u].old # <<>>
    BY <1>3 DEF RenamePart
  <2>2. ~An!IsPrefix(renaming[u].old, p)
    BY <1>3, <2>1, PrefixSame DEF RenamePart
  <2> QED BY <2>2 DEF An!Moved, An!Under
<1> HIDE DEF p
<1>4. /\ \A u : Renames(u)' <=> Renames(u)
      /\ \A u : An!Sharing(u)' = An!Sharing(u) /\ \A e, q : NameOf(e, q)' <=> NameOf(e, q)
  BY <1>1 DEF Renames, An!NoRename, An!Sharing, NameOf
<1>5. PlacesPart'
  BY <1>1 DEF PlacesPart
<1>6. RenamePart'
  BY <1>1, <1>4 DEF RenamePart
<1>7. cwd' \in [Tracees -> Route] /\ real' \in [Tracees -> Dirs \cup {0}]
  BY <1>1, <1>2 DEF CwdPart
<1>8. CwdPart'
  <2>1. ASSUME NEW u \in Tracees
        PROVE  /\ (\A r \in Tracees : Renames(r)' => u \notin An!Sharing(r)') => NameOf(real[u], cwd[u])'
               /\ \A r \in Tracees : Renames(r)' /\ u \in An!Sharing(r)' =>
                    NameOf(real[u], An!Moved(cwd[u], renaming[r].old, renaming[r].new))'
    <3>1. CASE u \in An!Sharing(t)
      <4>1. cwd'[u] = p /\ real'[u] = d
        BY <1>1, <3>1
      <4>2. NameOf(real[u], cwd[u])'
        BY <1>1, <1>2, <4>1 DEF NameOf
      <4>3. ASSUME NEW r \in Tracees, Renames(r)'
            PROVE  NameOf(real[u], An!Moved(cwd[u], renaming[r].old, renaming[r].new))'
        <5>1. An!Moved(p, renaming[r].old, renaming[r].new) = p
          BY <1>3, <1>4, <4>3
        <5>2. An!Moved(cwd[u], renaming[r].old, renaming[r].new)' = p
          BY <1>1, <4>1, <5>1 DEF An!Moved, An!Under
        <5> QED BY <1>1, <1>2, <4>1, <5>2 DEF NameOf
      <4> QED BY <4>2, <4>3
    <3>2. CASE u \notin An!Sharing(t)
      <4>1. cwd'[u] = cwd[u] /\ real'[u] = real[u]
        BY <1>1, <3>2
      <4>2. NameOf(real[u], cwd[u])' <=> NameOf(real[u], cwd[u])
        BY <1>1, <4>1 DEF NameOf
      <4>3. ASSUME NEW r \in Tracees
            PROVE  NameOf(real[u], An!Moved(cwd[u], renaming[r].old, renaming[r].new))'
                     <=> NameOf(real[u], An!Moved(cwd[u], renaming[r].old, renaming[r].new))
        <5>1. An!Moved(cwd[u], renaming[r].old, renaming[r].new)' = An!Moved(cwd[u], renaming[r].old, renaming[r].new)
          BY <1>1, <4>1 DEF An!Moved, An!Under
        <5> QED BY <1>1, <4>1, <5>1 DEF NameOf
      <4> QED BY <1>4, <4>2, <4>3 DEF CwdPart
    <3> QED BY <3>1, <3>2
  <2> QED BY <1>1, <1>7, <2>1 DEF CwdPart
<1>9. SocketPart'
  BY <1>1 DEF SocketPart, An!HostOf, An!TooLong, An!ShortOf
<1>10. FilePart'
  <2>1. An!Asks(t, FALSE)
    BY DEF An!Chdir
  <2> QED BY <1>1, <2>1, FilesSame
<1> QED BY <1>5, <1>6, <1>8, <1>9, <1>10

(* The kernel's rename: the directories that have moved are those that     *)
(* were below the old name, nothing was below the new one.                 *)
LEMMA KernelMoves ==
  ASSUME AnswersUsual, AnswersInv, NEW t \in Tracees, NEW d \in Dirs, NEW new \in Spots, An!RenameKernel(t, d, new)
  PROVE  /\ where[d] \in Route \ {<<>>} /\ new \in Route \ {<<>>}
         /\ where' = [e \in Dirs |-> An!Moved(where[e], where[d], new)]
         /\ ~An!IsPrefix(where[d], new) /\ ~An!IsPrefix(new, where[d])
         /\ \A e \in Dirs : ~An!IsPrefix(new, where[e])
         /\ An!Front(new) = <<>> \/ \E e \in Dirs : where[e] = An!Front(new)
         /\ \A u \in Tracees : ~Renames(u)
         /\ renaming' = [renaming EXCEPT ![t] = [old |-> where[d], new |-> new]]
         /\ \A u \in Tracees \ An!Sharing(t) : ~An!Inside(u, where[d])
         /\ \A u \in Tracees, e \in Dirs : real[u] # 0 /\ where[real[u]] = <<>> => where'[e] # cwd[u]
         /\ UNCHANGED <<shared, cwd, real, shorts, bound, files, auxv_fd>>
<1>1. Quirks = {}
  BY DEF AnswersUsual
<1>2. where[d] \in Route \ {<<>>} /\ new \in Route \ {<<>>}
  BY DEF AnswersUsual, AnswersInv, PlacesPart, An!RenameKernel
<1>3. \A e \in Dirs : where[e] # new
  BY DEF An!RenameKernel
<1>4. \A e \in Dirs : ~An!IsPrefix(new, where[e])
  BY <1>2, <1>3 DEF AnswersInv, PlacesPart
<1>5. ~An!IsPrefix(where[d], new) /\ (An!Front(new) = <<>> \/ \E e \in Dirs : where[e] = An!Front(new))
  BY DEF An!RenameKernel
<1>6. \A u \in Tracees : ~Renames(u)
  BY <1>1 DEF An!RenameKernel, Renames
<1>7. \A u \in Tracees \ An!Sharing(t) : ~An!Inside(u, where[d])
  BY <1>1 DEF An!RenameKernel
<1>8. \A u \in Tracees, e \in Dirs : (real[u] # 0 /\ where[real[u]] = <<>>) => where'[e] # cwd[u]
  BY <1>1 DEF An!RenameKernel
<1>9. renaming' = [renaming EXCEPT ![t] = [old |-> where[d], new |-> new]]
  <2>1. PICK translated \in {TRUE} \cup (IF "renameat2" \in Quirks THEN {FALSE} ELSE {}) :
          renaming' = [renaming EXCEPT ![t] = IF translated THEN [old |-> where[d], new |-> new] ELSE An!NoRename]
    BY DEF An!RenameKernel
  <2>2. translated = TRUE
    BY <1>1, <2>1
  <2> QED BY <2>1, <2>2
<1>10. /\ where' = [e \in Dirs |-> An!Moved(where[e], where[d], new)]
       /\ UNCHANGED <<shared, cwd, real, shorts, bound, files, auxv_fd>>
  BY DEF An!RenameKernel
<1> QED BY <1>2, <1>4, <1>5, <1>6, <1>7, <1>8, <1>9, <1>10

LEMMA KernelPlaces ==
  ASSUME AnswersUsual, AnswersInv, NEW t \in Tracees, NEW d \in Dirs, NEW new \in Spots, An!RenameKernel(t, d, new)
  PROVE  /\ PlacesPart' /\ \A e \in Dirs : ~An!IsPrefix(where[d], where'[e])
         /\ \A e \in Dirs : where'[e] = <<>> <=> where[e] = <<>>
<1> DEFINE old == where[d]
<1>1. /\ old \in Route /\ old # <<>> /\ new \in Route /\ new # <<>>
      /\ where' = [e \in Dirs |-> An!Moved(where[e], old, new)]
      /\ ~An!IsPrefix(old, new) /\ ~An!IsPrefix(new, old)
      /\ \A e \in Dirs : ~An!IsPrefix(new, where[e])
      /\ An!Front(new) = <<>> \/ \E e \in Dirs : where[e] = An!Front(new)
  BY KernelMoves
<1>2. /\ where \in [Dirs -> Route]
      /\ \A e, f \in Dirs : where[e] # <<>> /\ where[e] = where[f] => e = f
      /\ \A e \in Dirs, q \in Route : q # <<>> /\ An!IsPrefix(q, where[e]) => \E f \in Dirs : where[f] = q
  BY DEF AnswersInv, PlacesPart
<1> HIDE DEF old
<1>3. \A e \in Dirs : /\ where[e] \in Route /\ where'[e] \in Route
                      /\ \/ ~An!Under(old, where[e]) /\ where'[e] = where[e]
                         \/ \E s \in Route : where[e] = old \o s /\ where'[e] = new \o s
  <2> TAKE e \in Dirs
  <2>1. PICK p \in Route : p = where[e]
    BY <1>2
  <2>2. where'[e] = An!Moved(p, old, new)
    BY <1>1, <2>1
  <2>3. An!Moved(p, old, new) \in Route
    BY <1>1, MovedIsPath
  <2>4. CASE An!Under(old, p)
    <3>1. \E s \in Route : p = old \o s /\ An!Moved(p, old, new) = new \o s
      BY <1>1, <2>4, MovedFrom
    <3> QED BY <2>1, <2>2, <2>3, <3>1
  <2>5. CASE ~An!Under(old, p)
    <3>1. An!Moved(p, old, new) = p
      BY <2>5 DEF An!Moved
    <3> QED BY <2>1, <2>2, <2>5, <3>1
  <2> QED BY <2>4, <2>5
<1>4. ASSUME NEW e \in Dirs, NEW s \in Route, where[e] = old \o s PROVE where'[e] = new \o s
  <2>1. PICK p \in Route : p = where[e]
    BY <1>2
  <2>2. where'[e] = An!Moved(old \o s, old, new)
    BY <1>1, <1>4
  <2>3. An!Moved(old \o s, old, new) = new \o s
    BY <1>1, MovedAlong
  <2> QED BY <2>2, <2>3
<1>5. \A e \in Dirs : ~An!Under(old, where[e]) => where'[e] = where[e]
  BY <1>1 DEF An!Moved
<1>6. \A s \in Route : An!IsPrefix(new, new \o s) /\ new \o s # <<>> /\ old \o s # <<>> /\ new \o s \in Route /\ old \o s \in Route
  BY <1>1, MorePrefix
<1>7. where' \in [Dirs -> Route]
  BY <1>1, <1>3
<1>8. ASSUME NEW e \in Dirs, NEW f \in Dirs, where'[e] # <<>>, where'[e] = where'[f] PROVE e = f
  <2>1. CASE ~An!Under(old, where[e]) /\ where'[e] = where[e]
    <3>1. ~\E s \in Route : where[f] = old \o s /\ where'[f] = new \o s
      BY <1>1, <1>6, <1>8, <2>1
    <3>2. where'[f] = where[f]
      BY <1>3, <3>1
    <3> QED BY <1>2, <1>8, <2>1, <3>2
  <2>2. CASE \E s \in Route : where[e] = old \o s /\ where'[e] = new \o s
    <3>1. PICK s \in Route : where[e] = old \o s /\ where'[e] = new \o s
      BY <2>2
    <3>2. ~(where'[f] = where[f])
      BY <1>1, <1>6, <1>8, <3>1
    <3>3. PICK r \in Route : where[f] = old \o r /\ where'[f] = new \o r
      BY <1>3, <3>2
    <3>4. r = s
      BY <1>1, <1>8, <3>1, <3>3, ConcatSimplifications DEF Route
    <3> QED BY <1>2, <1>6, <3>1, <3>3, <3>4
  <2> QED BY <1>3, <2>1, <2>2
<1>9. ASSUME NEW e \in Dirs, NEW q \in Route, q # <<>>, An!IsPrefix(q, where'[e])
      PROVE  \E f \in Dirs : where'[f] = q
  <2>1. CASE ~An!Under(old, where[e]) /\ where'[e] = where[e]
    <3>1. PICK f \in Dirs : where[f] = q
      BY <1>2, <1>9, <2>1
    <3>2. ~An!Under(old, where[f])
      BY <1>1, <1>3, <1>9, <2>1, <3>1, PrefixSame DEF An!Under
    <3> QED BY <1>5, <3>1, <3>2
  <2>2. CASE \E s \in Route : where[e] = old \o s /\ where'[e] = new \o s
    <3>1. PICK s \in Route : where[e] = old \o s /\ where'[e] = new \o s
      BY <2>2
    <3>2. An!IsPrefix(q, new) \/ Beyond(q, new, s)
      <4>1. An!IsPrefix(q, new \o s)
        BY <1>9, <3>1
      <4> QED BY <1>1, <4>1, OnTheWay
    <3>3. CASE Beyond(q, new, s)
      <4>1. PICK s1, s2 \in Route : q = new \o s1 /\ s = s1 \o s2
        BY <3>3 DEF Beyond
      <4>2. old \o s = (old \o s1) \o s2
        <5>1. old \in Seq(Components) /\ s1 \in Seq(Components) /\ s2 \in Seq(Components)
          BY <1>1, <4>1 DEF Route
        <5>2. (old \o s1) \o s2 = old \o (s1 \o s2)
          BY <5>1, ConcatAssociative
        <5> QED BY <4>1, <5>2
      <4>3. An!IsPrefix(old \o s1, where[e])
        BY <1>6, <3>1, <4>1, <4>2, MorePrefix
      <4>4. PICK f \in Dirs : where[f] = old \o s1
        BY <1>2, <1>6, <4>1, <4>3
      <4> QED BY <1>4, <4>1, <4>4
    <3>4. CASE An!IsPrefix(q, new) /\ q # new
      <4>1. An!Front(new) \in Route /\ An!Front(new) # <<>> /\ An!IsPrefix(q, An!Front(new))
        BY <1>1, <1>9, <3>4, FrontOnTheWay
      <4>2. PICK g \in Dirs : where[g] = An!Front(new)
        BY <1>1, <4>1
      <4>3. PICK f \in Dirs : where[f] = q
        BY <1>2, <1>9, <4>1, <4>2
      <4>4. ~An!Under(old, where[f])
        BY <1>1, <3>4, <4>3, PrefixSame DEF An!Under
      <4> QED BY <1>5, <4>3, <4>4
    <3>5. CASE q = new
      <4>1. PICK f \in Dirs : where[f] = old
        BY DEF old
      <4>2. <<>> \in Route /\ old \o <<>> = old /\ new \o <<>> = new
        BY <1>1, ConcatEmptySeq DEF Route
      <4>3. where'[f] = new \o <<>>
        BY <1>4, <4>1, <4>2
      <4> QED BY <3>5, <4>2, <4>3
    <3> QED BY <3>2, <3>3, <3>4, <3>5
  <2> QED BY <1>3, <2>1, <2>2
<1>10. ASSUME NEW e \in Dirs, An!IsPrefix(old, where'[e]) PROVE FALSE
  <2>1. CASE ~An!Under(old, where[e]) /\ where'[e] = where[e]
    BY <1>1, <1>10, <2>1 DEF An!Under
  <2>2. CASE \E s \in Route : where[e] = old \o s /\ where'[e] = new \o s
    <3>1. PICK s \in Route : where'[e] = new \o s
      BY <2>2
    <3> QED BY <1>1, <1>3, <1>6, <1>10, <3>1, Comparable
  <2> QED BY <1>3, <2>1, <2>2
<1>11. \A e \in Dirs : where'[e] = <<>> <=> where[e] = <<>>
  BY <1>3, <1>6
<1>12. PlacesPart'
  BY <1>7, <1>8, <1>9 DEF PlacesPart
<1> QED BY <1>10, <1>11, <1>12 DEF old

LEMMA AnswersRename ==
  ASSUME AnswersUsual, AnswersInv, NEW t \in Tracees, NEW d \in Dirs, NEW new \in Spots, An!RenameKernel(t, d, new)
  PROVE  AnswersInv'
<1>0. PICK old : old = where[d]
  OBVIOUS
<1>1. /\ old \in Route /\ old # <<>> /\ new \in Route /\ new # <<>>
      /\ where' = [e \in Dirs |-> An!Moved(where[e], old, new)]
      /\ \A e \in Dirs : ~An!IsPrefix(new, where[e])
      /\ \A u \in Tracees : ~Renames(u)
      /\ renaming' = [renaming EXCEPT ![t] = [old |-> old, new |-> new]]
      /\ \A u \in Tracees \ An!Sharing(t) : ~An!Inside(u, old)
      /\ \A u \in Tracees, e \in Dirs : real[u] # 0 /\ where[real[u]] = <<>> => where'[e] # cwd[u]
      /\ UNCHANGED <<shared, cwd, real, shorts, bound, files, auxv_fd>>
  BY <1>0, KernelMoves
<1>2. /\ PlacesPart' /\ \A e \in Dirs : ~An!IsPrefix(old, where'[e])
      /\ \A e \in Dirs : where'[e] = <<>> <=> where[e] = <<>>
  BY <1>0, KernelPlaces
<1>3. /\ PlacesPart /\ RenamePart /\ CwdPart /\ SocketPart /\ FilePart
      /\ where \in [Dirs -> Route] /\ cwd \in [Tracees -> Route] /\ real \in [Tracees -> Dirs \cup {0}]
  BY DEF AnswersInv, CwdPart, PlacesPart
<1>4. \A u \in Tracees : NameOf(real[u], cwd[u])
  BY <1>1, <1>3 DEF CwdPart
<1>5. renaming'[t] = [old |-> old, new |-> new] /\ Renames(t)' /\ \A u \in Tracees : u # t => ~Renames(u)'
  <2>1. renaming'[t] = [old |-> old, new |-> new] /\ \A u \in Tracees : u # t => renaming'[u] = renaming[u]
    BY <1>1, <1>3 DEF RenamePart
  <2>2. [old |-> old, new |-> new] # An!NoRename
    BY <1>1 DEF An!NoRename
  <2> QED BY <1>1, <2>1, <2>2 DEF Renames, An!NoRename
<1>6. RenamePart'
  <2>1. renaming' \in [Tracees -> [old : Route, new : Route]]
    BY <1>1, <1>3 DEF RenamePart
  <2> QED BY <1>1, <1>2, <1>5, <2>1 DEF RenamePart
<1>7. ASSUME NEW u \in Tracees, u \in An!Sharing(t)
      PROVE  \E q : q = An!Moved(cwd[u], old, new) /\ NameOf(real[u], q)'
  <2>1. PICK p \in Route : p = cwd[u]
    BY <1>3
  <2>2. real'[u] = real[u] /\ cwd'[u] = p /\ NameOf(real[u], p)
    BY <1>1, <1>4, <2>1
  <2>3. PICK q : q = An!Moved(p, old, new)
    OBVIOUS
  <2>4. SUFFICES NameOf(real[u], q)'
    BY <2>1, <2>3
  <2>5. CASE real[u] = 0
    <3>1. p = <<>>
      BY <2>2, <2>5 DEF NameOf
    <3>2. ~An!Under(old, p)
      BY <1>1, <3>1, PrefixSame DEF An!Under
    <3>3. q = <<>>
      BY <2>3, <3>1, <3>2 DEF An!Moved
    <3> QED BY <2>2, <2>5, <3>3 DEF NameOf
  <2>6. CASE real[u] # 0 /\ where[real[u]] # <<>>
    <3>1. real[u] \in Dirs /\ p = where[real[u]]
      BY <1>3, <2>2, <2>6 DEF NameOf
    <3>2. where'[real[u]] = q /\ where'[real[u]] # <<>>
      BY <1>1, <1>2, <2>3, <2>6, <3>1
    <3> QED BY <2>2, <2>6, <3>2 DEF NameOf
  <2>7. CASE real[u] # 0 /\ where[real[u]] = <<>>
    <3>1. real[u] \in Dirs /\ p # <<>> /\ \A e \in Dirs : where[e] # p
      BY <1>3, <2>2, <2>7 DEF NameOf
    <3>2. \A e \in Dirs : where'[e] # p
      BY <1>1, <2>1, <2>7
    <3>3. q # <<>>
      BY <1>1, <2>3, <3>1, MovedIsPath
    <3>4. ASSUME NEW e \in Dirs PROVE where'[e] # q
      <4>1. CASE ~An!Under(old, p)
        BY <2>3, <3>2, <4>1 DEF An!Moved
      <4>2. CASE An!Under(old, p)
        <5>1. PICK s \in Route : p = old \o s /\ An!Moved(p, old, new) = new \o s
          BY <1>1, <4>2, MovedFrom
        <5>2. PICK w \in Route : w = where[e]
          BY <1>3
        <5>3. where'[e] = An!Moved(w, old, new)
          BY <1>1, <5>2
        <5>4. CASE ~An!Under(old, w)
          <6>1. where'[e] = w
            BY <5>3, <5>4 DEF An!Moved
          <6>2. An!IsPrefix(new, new \o s) /\ ~An!IsPrefix(new, w)
            BY <1>1, <5>2, MorePrefix
          <6> QED BY <2>3, <5>1, <6>1, <6>2
        <5>5. CASE An!Under(old, w)
          <6>1. PICK r \in Route : w = old \o r /\ An!Moved(w, old, new) = new \o r
            BY <1>1, <5>5, MovedFrom
          <6>2. new \o r = new \o s => r = s
            BY <1>1, ConcatSimplifications DEF Route
          <6> QED BY <2>3, <3>1, <5>1, <5>2, <5>3, <6>1, <6>2
        <5> QED BY <5>4, <5>5
      <4> QED BY <4>1, <4>2
    <3>5. where'[real[u]] = <<>>
      BY <1>2, <2>7, <3>1
    <3> QED BY <2>2, <2>7, <3>3, <3>4, <3>5 DEF NameOf
  <2> QED BY <2>5, <2>6, <2>7
<1>8. ASSUME NEW u \in Tracees, u \notin An!Sharing(t)
      PROVE  NameOf(real[u], cwd[u])'
  <2>1. real'[u] = real[u] /\ cwd'[u] = cwd[u] /\ NameOf(real[u], cwd[u])
    BY <1>1, <1>4
  <2>2. CASE real[u] = 0
    BY <2>1, <2>2 DEF NameOf
  <2>3. CASE real[u] # 0 /\ where[real[u]] # <<>>
    <3>1. real[u] \in Dirs /\ ~An!Under(old, where[real[u]])
      BY <1>1, <1>3, <1>8, <2>3 DEF An!Inside
    <3>2. where'[real[u]] = where[real[u]]
      BY <1>1, <3>1 DEF An!Moved
    <3> QED BY <2>1, <2>3, <3>2 DEF NameOf
  <2>4. CASE real[u] # 0 /\ where[real[u]] = <<>>
    <3>1. real[u] \in Dirs /\ where'[real[u]] = <<>> /\ \A e \in Dirs : where'[e] # cwd[u]
      BY <1>1, <1>2, <1>3, <2>4
    <3> QED BY <2>1, <2>4, <3>1 DEF NameOf
  <2> QED BY <2>2, <2>3, <2>4
<1>9. CwdPart'
  <2>1. An!Sharing(t)' = An!Sharing(t)
    BY <1>1 DEF An!Sharing
  <2>2. \A u \in Tracees : u \in An!Sharing(t) => NameOf(real[u], An!Moved(cwd[u], renaming[t].old, renaming[t].new))'
    <3> TAKE u \in Tracees
    <3>1. An!Moved(cwd[u], renaming[t].old, renaming[t].new)' = An!Moved(cwd[u], old, new)
      BY <1>1, <1>5 DEF An!Moved, An!Under
    <3> QED BY <1>1, <1>7, <3>1 DEF NameOf
  <2> QED BY <1>1, <1>3, <1>5, <1>8, <2>1, <2>2 DEF CwdPart
<1>10. SocketPart'
  BY <1>1, <1>3 DEF SocketPart, An!HostOf, An!TooLong, An!ShortOf
<1>11. FilePart'
  <2>1. An!Asks(t, FALSE)
    BY DEF An!RenameKernel
  <2> QED BY <1>1, <1>3, <2>1, FilesSame
<1> QED BY <1>2, <1>6, <1>9, <1>10, <1>11 DEF AnswersInv

LEMMA AnswersRenameExit ==
  ASSUME AnswersInv, NEW t \in Tracees, An!RenameExit(t)
  PROVE  AnswersInv'
<1>1. /\ Renames(t)
      /\ cwd' = [u \in Tracees |-> IF u \in An!Sharing(t) THEN An!Moved(cwd[u], renaming[t].old, renaming[t].new) ELSE cwd[u]]
      /\ renaming' = [renaming EXCEPT ![t] = An!NoRename]
      /\ UNCHANGED <<shared, where, real, shorts, bound, files, auxv_fd, filter, watched>>
  BY DEF An!RenameExit, An!Follows, Renames
<1>2. /\ PlacesPart /\ RenamePart /\ CwdPart /\ SocketPart /\ FilePart
      /\ cwd \in [Tracees -> Route] /\ real \in [Tracees -> Dirs \cup {0}] /\ shared \in BOOLEAN
  BY DEF AnswersInv, CwdPart
<1>3. renaming[t].old \in Route /\ renaming[t].new \in Route
  BY <1>2 DEF RenamePart
<1>4. \A u \in Tracees : ~Renames(u)'
  <2>1. \A u \in Tracees : renaming'[u] = An!NoRename
    BY <1>1, <1>2 DEF RenamePart, Renames
  <2> QED BY <2>1 DEF Renames, An!NoRename
<1>5. RenamePart'
  <2>1. renaming' \in [Tracees -> [old : Route, new : Route]]
    BY <1>1, <1>2 DEF RenamePart, An!NoRename, Route
  <2> QED BY <1>4, <2>1 DEF RenamePart
<1>6. CwdPart'
  <2>1. cwd' \in [Tracees -> Route]
    <3>1. \A u \in Tracees : An!Moved(cwd[u], renaming[t].old, renaming[t].new) \in Route
      BY <1>2, <1>3, MovedIsPath
    <3> QED BY <1>1, <1>2, <3>1
  <2>2. ASSUME NEW u \in Tracees PROVE NameOf(real[u], cwd[u])'
    <3>1. CASE u \in An!Sharing(t)
      <4>1. NameOf(real[u], An!Moved(cwd[u], renaming[t].old, renaming[t].new))
        BY <1>1, <1>2, <3>1 DEF CwdPart
      <4> QED BY <1>1, <3>1, <4>1 DEF NameOf
    <3>2. CASE u \notin An!Sharing(t)
      <4>1. NameOf(real[u], cwd[u])
        BY <1>1, <1>2, <3>2 DEF CwdPart, RenamePart
      <4> QED BY <1>1, <3>2, <4>1 DEF NameOf
    <3> QED BY <3>1, <3>2
  <2> QED BY <1>1, <1>2, <1>4, <2>1, <2>2 DEF CwdPart
<1>7. PlacesPart' /\ FilePart'
  BY <1>1, <1>2, FilesSame DEF PlacesPart
<1>8. SocketPart'
  BY <1>1, <1>2 DEF SocketPart, An!HostOf, An!TooLong, An!ShortOf
<1> QED BY <1>5, <1>6, <1>7, <1>8 DEF AnswersInv

LEMMA AnswersRmdir ==
  ASSUME AnswersInv, NEW t \in Tracees, NEW d \in Dirs, An!Rmdir(t, d)
  PROVE  AnswersInv'
<1>1. /\ where[d] # <<>> /\ \A e \in Dirs \ {d} : ~An!Under(where[d], where[e])
      /\ \A u \in Tracees : ~Renames(u)
      /\ where' = [where EXCEPT ![d] = <<>>]
      /\ UNCHANGED <<shared, cwd, real, renaming, shorts, bound, files, auxv_fd>>
  BY DEF An!Rmdir, Renames
<1>2. /\ PlacesPart /\ RenamePart /\ CwdPart /\ SocketPart /\ FilePart
      /\ where \in [Dirs -> Route] /\ cwd \in [Tracees -> Route] /\ real \in [Tracees -> Dirs \cup {0}]
  BY DEF AnswersInv, CwdPart, PlacesPart
<1>3. where'[d] = <<>> /\ \A e \in Dirs : e # d => where'[e] = where[e]
  BY <1>1, <1>2
<1>4. where' \in [Dirs -> Route]
  BY <1>1, <1>2 DEF Route
<1>5. \A u \in Tracees : ~Renames(u)'
  BY <1>1 DEF Renames, An!NoRename
<1>6. PlacesPart'
  <2>1. \A e, f \in Dirs : where'[e] # <<>> /\ where'[e] = where'[f] => e = f
    BY <1>2, <1>3 DEF PlacesPart
  <2>2. ASSUME NEW e \in Dirs, NEW q \in Route, q # <<>>, An!IsPrefix(q, where'[e]) PROVE \E f \in Dirs : where'[f] = q
    <3>1. e # d
      BY <1>3, <2>2, PrefixSame
    <3>2. where'[e] = where[e]
      BY <1>3, <3>1
    <3>3. PICK f \in Dirs : where[f] = q
      BY <1>2, <2>2, <3>2 DEF PlacesPart
    <3>4. f # d
      BY <1>1, <2>2, <3>1, <3>2, <3>3 DEF An!Under
    <3> QED BY <1>3, <3>3, <3>4
  <2> QED BY <1>4, <2>1, <2>2 DEF PlacesPart
<1>7. RenamePart'
  BY <1>1, <1>2, <1>5 DEF RenamePart
<1>8. ASSUME NEW u \in Tracees PROVE NameOf(real[u], cwd[u])'
  <2>1. NameOf(real[u], cwd[u]) /\ real[u] \in Dirs \cup {0}
    BY <1>1, <1>2 DEF CwdPart
  <2>2. CASE real[u] = d
    <3>1. (cwd[u] = where[d] /\ d # 0) \/ d = 0
      BY <1>1, <2>1, <2>2 DEF NameOf
    <3>2. d # 0 => \A e \in Dirs : where'[e] # cwd[u]
      BY <1>1, <1>2, <1>3, <3>1 DEF PlacesPart
    <3> QED BY <1>1, <1>3, <2>1, <2>2, <3>1, <3>2 DEF NameOf
  <2>3. CASE real[u] # d
    <3>1. real[u] # 0 => where'[real[u]] = where[real[u]]
      BY <1>3, <2>1, <2>3
    <3> QED BY <1>1, <1>3, <2>1, <2>3, <3>1 DEF NameOf
  <2> QED BY <2>2, <2>3
<1>9. CwdPart'
  BY <1>1, <1>2, <1>5, <1>8 DEF CwdPart
<1>10. FilePart'
  <2>1. An!Asks(t, FALSE)
    BY DEF An!Rmdir
  <2> QED BY <1>1, <1>2, <2>1, FilesSame
<1>11. SocketPart'
  BY <1>1, <1>2 DEF SocketPart, An!HostOf, An!TooLong, An!ShortOf
<1> QED BY <1>6, <1>7, <1>9, <1>10, <1>11 DEF AnswersInv

(* What leaves the directories alone.                                      *)
LEMMA DirsSame ==
  ASSUME AnswersInv, UNCHANGED <<shared, where, cwd, real, renaming>>
  PROVE  (PlacesPart /\ RenamePart /\ CwdPart)'
<1>1. PlacesPart /\ RenamePart /\ CwdPart
  BY DEF AnswersInv
<1>2. PlacesPart'
  BY <1>1 DEF PlacesPart
<1>3. RenamePart'
  BY <1>1 DEF RenamePart, Renames, An!NoRename
<1>4. CwdPart'
  <2>1. \A r \in Tracees : (Renames(r)' <=> Renames(r)) /\ An!Sharing(r)' = An!Sharing(r)
    BY DEF Renames, An!NoRename, An!Sharing
  <2>2. \A e, q : NameOf(e, q)' <=> NameOf(e, q)
    BY DEF NameOf
  <2>3. \A u \in Tracees : NameOf(real[u], cwd[u])' <=> NameOf(real[u], cwd[u])
    BY DEF NameOf
  <2>4. ASSUME NEW u \in Tracees, NEW r \in Tracees
        PROVE  NameOf(real[u], An!Moved(cwd[u], renaming[r].old, renaming[r].new))'
                 <=> NameOf(real[u], An!Moved(cwd[u], renaming[r].old, renaming[r].new))
    <3>1. An!Moved(cwd[u], renaming[r].old, renaming[r].new)' = An!Moved(cwd[u], renaming[r].old, renaming[r].new)
      BY DEF An!Moved, An!Under
    <3> QED BY <3>1 DEF NameOf
  <2> QED BY <1>1, <2>1, <2>3, <2>4 DEF CwdPart
<1> QED BY <1>2, <1>3, <1>4

LEMMA ShortFits ==
  ASSUME AnswersUsual, SocketPart, NEW p \in Sockets
  PROVE  /\ An!HostOf(p) \in Route
         /\ p \in DOMAIN shorts => An!HostOf(p) = An!ShortOf(p) /\ ~An!TooLong(p)
         /\ p \notin DOMAIN shorts => An!HostOf(p) = HostRoot \o p
<1>1. p \in Route /\ HostRoot \in Route /\ An!ShortOf(p) \in Route /\ SizeofPath \in Nat /\ SizeofPath >= 2
  BY DEF AnswersUsual
<1>2. CASE p \in DOMAIN shorts
  <2>1. An!HostOf(p) = An!ShortOf(p)
    BY <1>2 DEF SocketPart, An!HostOf
  <2>2. Len(An!ShortOf(p)) = 2
    BY DEF An!ShortOf
  <2> QED BY <1>1, <1>2, <2>1, <2>2 DEF An!TooLong
<1>3. CASE p \notin DOMAIN shorts
  BY <1>1, <1>3, MorePrefix DEF An!HostOf
<1> QED BY <1>2, <1>3

(* A shorter path is made for a socket that has a long one only.           *)
LEMMA Shortens ==
  ASSUME AnswersUsual, SocketPart, NEW p \in Sockets, shorts' = IF An!TooLong(p) THEN An!Shortened(p) ELSE shorts
  PROVE  /\ DOMAIN shorts' \subseteq Sockets /\ \A q \in DOMAIN shorts' : shorts'[q] = An!ShortOf(q)
         /\ \A q \in DOMAIN bound : An!HostOf(q)' = bound[q] /\ ~An!TooLong(q)'
         /\ An!HostOf(p)' = (IF An!TooLong(p) THEN An!ShortOf(p) ELSE An!HostOf(p)) /\ ~An!TooLong(p)'
<1>1. SizeofPath \in Nat /\ SizeofPath >= 2 /\ Len(An!ShortOf(p)) = 2
  BY DEF AnswersUsual, An!ShortOf
<1>2. CASE ~An!TooLong(p)
  <2>1. shorts' = shorts
    BY <1>2
  <2> QED BY <1>2, <2>1 DEF SocketPart, An!HostOf, An!TooLong, An!ShortOf
<1>3. CASE An!TooLong(p)
  <2>1. shorts' = [q \in DOMAIN shorts \cup {p} |-> IF q = p THEN An!ShortOf(p) ELSE shorts[q]]
    BY <1>3 DEF An!Shortened
  <2>2. DOMAIN shorts' = DOMAIN shorts \cup {p} /\ shorts'[p] = An!ShortOf(p) /\ \A q \in DOMAIN shorts : q # p => shorts'[q] = shorts[q]
    BY <2>1
  <2>3. PICK h : h = An!ShortOf(p) /\ An!HostOf(p)' = h
    BY <2>2 DEF An!HostOf
  <2>4. ~An!TooLong(p)'
    <3>1. An!TooLong(p)' <=> Len(An!HostOf(p)') > SizeofPath
      BY DEF An!TooLong
    <3>2. Len(h) = 2 /\ SizeofPath \in Nat /\ SizeofPath >= 2
      BY <1>1, <2>3
    <3>3. Len(An!HostOf(p)') = Len(h)
      BY <2>3
    <3>4. ~(Len(h) > SizeofPath)
      BY <3>2
    <3> QED BY <3>1, <3>3, <3>4, Zenon
  <2>5. \A q : q # p => An!HostOf(q)' = An!HostOf(q)
    BY <2>2 DEF An!HostOf
  <2>6. ASSUME NEW q \in DOMAIN bound PROVE An!HostOf(q)' = bound[q] /\ ~An!TooLong(q)'
    BY <1>3, <2>5, <2>6 DEF SocketPart, An!TooLong
  <2>7. \A q \in DOMAIN shorts' : shorts'[q] = An!ShortOf(q)
    BY <2>2 DEF SocketPart
  <2> QED BY <1>3, <2>2, <2>3, <2>4, <2>6, <2>7 DEF SocketPart
<1> QED BY <1>2, <1>3

LEMMA AnswersSockets ==
  ASSUME AnswersUsual, AnswersInv, NEW t \in Tracees, NEW p \in Sockets, An!Bind(t, p) \/ An!Connect(t, p) \/ An!Unlink(t, p)
  PROVE  AnswersInv'
<1>1. UNCHANGED <<shared, where, cwd, real, renaming, files, auxv_fd>>
  BY DEF An!Bind, An!Connect, An!Unlink
<1>2. (PlacesPart /\ RenamePart /\ CwdPart /\ FilePart)'
  <2>1. An!Asks(t, FALSE)
    BY DEF An!Bind, An!Connect, An!Unlink
  <2> QED BY <1>1, <2>1, DirsSame, FilesSame DEF AnswersInv
<1>3. SocketPart
  BY DEF AnswersInv
<1>4. CASE An!Bind(t, p)
  <2>1. /\ shorts' = IF An!TooLong(p) THEN An!Shortened(p) ELSE shorts
        /\ bound' = [q \in DOMAIN bound \cup {p} |-> IF q # p THEN bound[q] ELSE IF An!TooLong(p) THEN An!ShortOf(p) ELSE An!HostOf(p)]
    BY <1>4 DEF An!Bind
  <2>2. /\ DOMAIN shorts' \subseteq Sockets /\ \A q \in DOMAIN shorts' : shorts'[q] = An!ShortOf(q)
        /\ \A q \in DOMAIN bound : An!HostOf(q)' = bound[q] /\ ~An!TooLong(q)'
        /\ An!HostOf(p)' = (IF An!TooLong(p) THEN An!ShortOf(p) ELSE An!HostOf(p)) /\ ~An!TooLong(p)'
    BY <1>3, <2>1, Shortens
  <2>3. /\ DOMAIN bound' = DOMAIN bound \cup {p} /\ \A q \in DOMAIN bound : q # p => bound'[q] = bound[q]
        /\ bound'[p] = IF An!TooLong(p) THEN An!ShortOf(p) ELSE An!HostOf(p)
    BY <2>1
  <2>4. \A q \in DOMAIN bound' : bound'[q] = An!HostOf(q)' /\ ~An!TooLong(q)'
    BY <2>2, <2>3
  <2>5. SocketPart'
    BY <1>3, <2>2, <2>3, <2>4 DEF SocketPart, An!ShortOf
  <2> QED BY <1>2, <2>5 DEF AnswersInv
<1>5. CASE An!Connect(t, p)
  <2>1. shorts' = (IF An!TooLong(p) THEN An!Shortened(p) ELSE shorts) /\ bound' = bound
    BY <1>5 DEF An!Connect
  <2>2. /\ DOMAIN shorts' \subseteq Sockets /\ \A q \in DOMAIN shorts' : shorts'[q] = An!ShortOf(q)
        /\ \A q \in DOMAIN bound : An!HostOf(q)' = bound[q] /\ ~An!TooLong(q)'
    BY <1>3, <2>1, Shortens
  <2>3. SocketPart'
    BY <1>3, <2>1, <2>2 DEF SocketPart, An!ShortOf
  <2> QED BY <1>2, <2>3 DEF AnswersInv
<1>6. CASE An!Unlink(t, p)
  <2>1. bound' = [q \in DOMAIN bound \ {p} |-> bound[q]] /\ shorts' = shorts
    BY <1>6 DEF An!Unlink
  <2>2. DOMAIN bound' \subseteq DOMAIN bound /\ \A q \in DOMAIN bound' : bound'[q] = bound[q]
    BY <2>1
  <2>3. SocketPart'
    BY <1>3, <2>1, <2>2 DEF SocketPart, An!HostOf, An!TooLong, An!ShortOf
  <2> QED BY <1>2, <2>3 DEF AnswersInv
<1> QED BY <1>4, <1>5, <1>6

LEMMA AnswersFiles ==
  ASSUME AnswersUsual, AnswersInv, NEW t \in Tracees, NEW f \in Fds,
         An!Close(t, f) \/ An!Read(t, f) \/ \E what \in {"auxv", "data"} : An!Open(t, f, what)
  PROVE  AnswersInv'
<1>1. UNCHANGED <<shared, where, cwd, real, renaming, shorts, bound>>
  BY DEF An!Open, An!Close, An!Read
<1>2. (PlacesPart /\ RenamePart /\ CwdPart)'
  BY <1>1, DirsSame
<1>3. SocketPart'
  BY <1>1 DEF AnswersInv, SocketPart, An!HostOf, An!TooLong, An!ShortOf
<1>4. FilePart /\ f # 0 /\ Quirks = {} /\ shared \in BOOLEAN
  BY DEF AnswersInv, AnswersUsual, CwdPart
<1>5. ASSUME NEW what \in {"closed", "auxv", "data"}, An!Opened(t, f, what)
      PROVE  /\ files' \in [Tracees -> [Fds -> {"closed", "auxv", "data"}]]
             /\ \A u \in Tracees, g \in Fds : files'[u][g] = IF u \in An!Sharing(t) /\ g = f THEN what ELSE files[u][g]
  BY <1>4, <1>5 DEF An!Opened, FilePart
<1>6. ASSUME NEW more \in BOOLEAN, An!Asks(t, more)
      PROVE  /\ filter' = filter /\ filter' \in BOOLEAN /\ watched' \in [Tracees -> BOOLEAN]
             /\ \A u \in Tracees : u # t \/ ~more => (An!Stops(u)' => An!Stops(u))
  <2>1. filter' = filter /\ watched' = [watched EXCEPT ![t] = more]
    BY <1>6 DEF An!Asks
  <2> QED BY <1>4, <2>1 DEF FilePart, An!Stops
<1>7. CASE \E what \in {"auxv", "data"} : An!Open(t, f, what)
  <2>1. PICK what \in {"auxv", "data"} : An!Open(t, f, what)
    BY <1>7
  <2>2. /\ files[t][f] = "closed" /\ An!Opened(t, f, what) /\ (what = "auxv" => ~shared) /\ An!Asks(t, what = "auxv")
        /\ auxv_fd' = IF what = "auxv" THEN [auxv_fd EXCEPT ![t] = f] ELSE auxv_fd
    BY <1>4, <2>1 DEF An!Open
  <2>3. /\ files' \in [Tracees -> [Fds -> {"closed", "auxv", "data"}]]
        /\ \A u \in Tracees, g \in Fds : files'[u][g] = IF u \in An!Sharing(t) /\ g = f THEN what ELSE files[u][g]
    BY <1>5, <2>2
  <2>4. auxv_fd' \in [Tracees -> Fds \cup {0}]
    BY <1>4, <2>2 DEF FilePart
  <2>5. /\ filter' = filter /\ filter' \in BOOLEAN /\ watched' \in [Tracees -> BOOLEAN]
        /\ \A u \in Tracees : u # t \/ what # "auxv" => (An!Stops(u)' => An!Stops(u))
    BY <1>6, <2>2
  <2>6. ASSUME NEW u \in Tracees, auxv_fd'[u] # 0, An!Stops(u)' PROVE ~shared' /\ files'[u][auxv_fd'[u]] = "auxv"
    <3>1. CASE u = t /\ what = "auxv"
      BY <1>1, <1>4, <2>2, <2>3, <3>1 DEF FilePart, An!Sharing
    <3>2. CASE ~(u = t /\ what = "auxv")
      <4>1. auxv_fd'[u] = auxv_fd[u] /\ auxv_fd[u] \in Fds /\ ~shared /\ files[u][auxv_fd[u]] = "auxv"
        BY <1>4, <2>2, <2>5, <2>6, <3>2 DEF FilePart
      <4>2. ~(u \in An!Sharing(t) /\ auxv_fd[u] = f)
        BY <2>2, <4>1 DEF An!Sharing
      <4> QED BY <1>1, <2>3, <4>1, <4>2
    <3> QED BY <3>1, <3>2
  <2>7. FilePart'
    BY <2>3, <2>4, <2>5, <2>6 DEF FilePart
  <2> QED BY <1>2, <1>3, <2>7 DEF AnswersInv
<1>8. CASE An!Close(t, f)
  <2>1. /\ An!Opened(t, f, "closed") /\ An!Asks(t, FALSE)
        /\ auxv_fd' = IF An!Stops(t) /\ auxv_fd[t] = f THEN [auxv_fd EXCEPT ![t] = 0] ELSE auxv_fd
    BY <1>8 DEF An!Close
  <2>2. /\ files' \in [Tracees -> [Fds -> {"closed", "auxv", "data"}]]
        /\ \A u \in Tracees, g \in Fds : files'[u][g] = IF u \in An!Sharing(t) /\ g = f THEN "closed" ELSE files[u][g]
    BY <1>5, <2>1
  <2>3. auxv_fd' \in [Tracees -> Fds \cup {0}]
    BY <1>4, <2>1 DEF FilePart
  <2>4. /\ filter' = filter /\ filter' \in BOOLEAN /\ watched' \in [Tracees -> BOOLEAN]
        /\ \A u \in Tracees : An!Stops(u)' => An!Stops(u)
    BY <1>6, <2>1
  <2>5. ASSUME NEW u \in Tracees, auxv_fd'[u] # 0, An!Stops(u)' PROVE ~shared' /\ files'[u][auxv_fd'[u]] = "auxv"
    <3>1. /\ auxv_fd'[u] = auxv_fd[u] /\ auxv_fd[u] \in Fds /\ ~shared /\ files[u][auxv_fd[u]] = "auxv"
          /\ ~(u = t /\ auxv_fd[u] = f)
      BY <1>4, <2>1, <2>4, <2>5 DEF FilePart
    <3>2. ~(u \in An!Sharing(t) /\ auxv_fd[u] = f)
      BY <3>1 DEF An!Sharing
    <3> QED BY <1>1, <2>2, <3>1, <3>2
  <2>6. FilePart'
    BY <2>2, <2>3, <2>4, <2>5 DEF FilePart
  <2> QED BY <1>2, <1>3, <2>6 DEF AnswersInv
<1>9. CASE An!Read(t, f)
  <2>1. An!Asks(t, An!Patched(t, f)) /\ UNCHANGED <<files, auxv_fd>>
    BY <1>9 DEF An!Read
  <2>2. An!Patched(t, f) \in BOOLEAN
    BY DEF An!Patched
  <2>3. /\ filter' = filter /\ filter' \in BOOLEAN /\ watched' \in [Tracees -> BOOLEAN]
        /\ \A u \in Tracees : u # t \/ ~An!Patched(t, f) => (An!Stops(u)' => An!Stops(u))
    BY <1>6, <2>1, <2>2
  <2>4. An!Patched(t, f) => An!Stops(t)
    BY DEF An!Patched
  <2>5. \A u \in Tracees : An!Stops(u)' => An!Stops(u)
    BY <2>3, <2>4
  <2>6. FilePart'
    BY <1>1, <1>4, <2>1, <2>3, <2>5 DEF FilePart
  <2> QED BY <1>2, <1>3, <2>6 DEF AnswersInv
<1> QED BY <1>7, <1>8, <1>9

(* What the guest is answered.                                             *)
LEMMA CwdAnswer ==
  ASSUME AnswersUsual, AnswersInv, NEW t \in Tracees, NEW size \in Sizes, An!Settled(t)
  PROVE  An!getcwd(t, size) = An!KernelCwd(t, size)
<1>1. CwdPart /\ PlacesPart /\ cwd[t] \in Route /\ real[t] \in Dirs \cup {0}
  BY DEF AnswersInv, CwdPart
<1>2. \A u \in Tracees : Renames(u) => t \notin An!Sharing(u)
  BY DEF An!Settled, Renames, An!Sharing
<1>3. NameOf(real[t], cwd[t])
  BY <1>1, <1>2 DEF CwdPart
<1>4. CASE real[t] = 0
  <2>1. cwd[t] = <<>>
    BY <1>3, <1>4 DEF NameOf
  <2> QED BY <1>4, <2>1 DEF An!getcwd, An!KernelCwd, An!Exists, An!NUL
<1>5. CASE real[t] # 0 /\ where[real[t]] # <<>>
  <2>1. cwd[t] = where[real[t]] /\ An!Exists(cwd[t])
    BY <1>1, <1>3, <1>5 DEF NameOf, An!Exists
  <2> QED BY <1>5, <2>1 DEF An!getcwd, An!KernelCwd, An!NUL
<1>6. CASE real[t] # 0 /\ where[real[t]] = <<>>
  <2>1. ~An!Exists(cwd[t])
    BY <1>3, <1>6 DEF NameOf, An!Exists
  <2> QED BY <1>6, <2>1 DEF An!getcwd, An!KernelCwd, An!NUL
<1> QED BY <1>4, <1>5, <1>6

LEMMA GuestOf ==
  ASSUME AnswersUsual, SocketPart, NEW h \in Route
  PROVE  /\ An!detranslate_path(h) \in Route
         /\ \A p \in DOMAIN bound : bound[p] = h => An!detranslate_path(h) = p
<1>1. Sockets \subseteq Route /\ HostRoot \in Route
  BY DEF AnswersUsual
<1>2. CASE \E p \in DOMAIN shorts : shorts[p] = h
  <2>1. PICK c : c = An!detranslate_path(h) /\ c \in DOMAIN shorts /\ shorts[c] = h
    BY <1>2 DEF An!detranslate_path
  <2>2. c \in Sockets /\ h = An!ShortOf(c)
    BY <2>1 DEF SocketPart
  <2>3. ASSUME NEW p \in DOMAIN bound, bound[p] = h PROVE p = c
    <3>1. p \in Sockets /\ An!HostOf(p) = h
      BY <2>3 DEF SocketPart
    <3>2. p \in DOMAIN shorts
      BY <2>2, <3>1, ShortFits DEF AnswersUsual
    <3>3. h = An!ShortOf(p)
      BY <3>1, <3>2, ShortFits
    <3> QED BY <2>2, <3>1, <3>3 DEF AnswersUsual
  <2> QED BY <1>1, <2>1, <2>2, <2>3
<1>3. CASE ~\E p \in DOMAIN shorts : shorts[p] = h
  <2>1. An!detranslate_path(h) = IF An!IsPrefix(HostRoot, h) THEN SubSeq(h, Len(HostRoot) + 1, Len(h)) ELSE h
    BY <1>3 DEF An!detranslate_path
  <2>2. An!detranslate_path(h) \in Route
    BY <1>1, <2>1, PrefixMore
  <2>3. ASSUME NEW p \in DOMAIN bound, bound[p] = h PROVE An!detranslate_path(h) = p
    <3>1. p \in Sockets /\ p \in Route /\ An!HostOf(p) = h
      BY <1>1, <2>3 DEF SocketPart
    <3>2. p \notin DOMAIN shorts
      BY <1>3, <3>1 DEF An!HostOf
    <3>3. h = HostRoot \o p
      BY <3>1, <3>2, ShortFits
    <3>4. An!IsPrefix(HostRoot, HostRoot \o p) /\ SubSeq(HostRoot \o p, Len(HostRoot) + 1, Len(HostRoot \o p)) = p
      BY <1>1, <3>1, MorePrefix
    <3> QED BY <2>1, <3>3, <3>4
  <2> QED BY <2>2, <2>3
<1> QED BY <1>2, <1>3

LEMMA AtMostIs ==
  ASSUME NEW S, NEW s \in Seq(S), NEW n \in Nat
  PROVE  n >= Len(s) => An!AtMost(s, n) = s
<1>1. SubSeq(s, 1, Len(s)) = s /\ Len(s) \in Nat
  BY SubSeqFull
<1>2. PICK m : m = IF n < Len(s) THEN n ELSE Len(s)
  OBVIOUS
<1>3. An!AtMost(s, n) = SubSeq(s, 1, m)
  BY <1>2 DEF An!AtMost
<1>4. ASSUME n >= Len(s) PROVE m = Len(s)
  <2>1. PICK l \in Nat : l = Len(s)
    BY <1>1
  <2>2. ~(n < l)
    BY <1>4, <2>1
  <2> QED BY <1>2, <2>1, <2>2, Zenon
<1> QED BY <1>1, <1>3, <1>4

(* As much of a terminated path as does not reach the terminator.          *)
LEMMA AtMostOf ==
  ASSUME NEW s \in Route, NEW n \in Nat, n <= Len(s)
  PROVE  An!AtMost(s \o <<An!NUL>>, n) = An!AtMost(s, n)
<1>1. PICK T : T = Components \cup {An!NUL}
  OBVIOUS
<1>2. s \in Seq(T) /\ <<An!NUL>> \in Seq(T) /\ Len(s) \in Nat /\ Len(<<An!NUL>>) = 1
  BY <1>1 DEF Route
<1>3. PICK one : one = <<An!NUL>> /\ one \in Seq(T) /\ Len(one) = 1
  BY <1>2
<1>4. Len(s \o one) = Len(s) + 1
  BY <1>2, <1>3, ConcatProperties
<1>5. SubSeq(s \o one, 1, n) = SubSeq(s, 1, n)
  BY <1>2, <1>3, SubSeqOfConcat1
<1>6. n < Len(s \o one)
  BY <1>2, <1>4
<1>7. An!AtMost(s \o one, n) = SubSeq(s \o one, 1, n)
  BY <1>6 DEF An!AtMost
<1>8. An!AtMost(s, n) = SubSeq(s, 1, n)
  BY <1>2 DEF An!AtMost
<1> QED BY <1>3, <1>5, <1>7, <1>8

LEMMA LinkAnswer ==
  ASSUME AnswersUsual, SocketPart, NEW h \in Route, NEW size \in Nat \ {0}, size # Len(An!detranslate_path(h)) + 1
  PROVE  An!readlink(h, size) = An!AtMost(An!detranslate_path(h), size)
<1>1. PICK guests \in Route : guests = An!detranslate_path(h)
  BY GuestOf
<1>2. Len(guests) \in Nat /\ guests \in Seq(Components)
  BY DEF Route
<1>3. CASE An!Unchanged(h)
  BY <1>3 DEF An!readlink, An!Unchanged
<1>4. CASE ~An!Unchanged(h) /\ Len(guests) + 1 < size
  <2>1. An!readlink(h, size) = An!AtMost(guests \o <<An!NUL>>, Len(guests))
    BY <1>1, <1>4 DEF An!readlink
  <2>2. An!AtMost(guests \o <<An!NUL>>, Len(guests)) = An!AtMost(guests, Len(guests))
    BY <1>2, AtMostOf
  <2>3. An!AtMost(guests, Len(guests)) = guests /\ An!AtMost(guests, size) = guests
    BY <1>2, <1>4, AtMostIs
  <2> QED BY <1>1, <2>1, <2>2, <2>3
<1>5. CASE ~An!Unchanged(h) /\ ~(Len(guests) + 1 < size)
  <2>1. An!readlink(h, size) = An!AtMost(guests \o <<An!NUL>>, size)
    BY <1>1, <1>5 DEF An!readlink
  <2>2. size <= Len(guests)
    BY <1>1, <1>2, <1>5
  <2> QED BY <1>1, <2>1, <2>2, AtMostOf
<1> QED BY <1>3, <1>4, <1>5

LEMMA NameAnswer ==
  ASSUME AnswersUsual, SocketPart, NEW p \in DOMAIN bound, NEW size \in Nat, An!MaxSize(size) > Len(bound[p])
  PROVE  /\ An!sockname(bound[p], size).path = An!AtMost(p, An!MaxSize(size))
         /\ (An!sockname(bound[p], size).size > size) <=> (Len(p) + 1 > size)
<1>1. /\ p \in Sockets /\ p \in Route /\ SizeofPath \in Nat /\ Len(p) <= SizeofPath /\ Len(p) \in Nat
      /\ p \in Seq(Components)
  BY DEF SocketPart, AnswersUsual, Route
<1>2. PICK h \in Route : h = bound[p]
  BY <1>1, ShortFits DEF SocketPart
<1>3. An!detranslate_path(h) = p /\ Len(h) \in Nat
  BY <1>2, GuestOf DEF Route
<1>4. PICK max : max = An!MaxSize(size)
  OBVIOUS
<1>5. max \in Nat /\ max <= size /\ max <= SizeofPath /\ (max = size \/ (max = SizeofPath /\ size > SizeofPath)) /\ An!IsRead(h, max)
  BY <1>1, <1>2, <1>3, <1>4 DEF An!MaxSize, An!IsRead
<1>6. An!sockname(h, size) = IF Len(p) + 1 > max THEN [path |-> An!AtMost(p, max), size |-> max + 1]
                            ELSE [path |-> p, size |-> Len(p) + 1]
  BY <1>3, <1>4, <1>5 DEF An!sockname, An!translate_socketcall_exit
<1>7. CASE Len(p) + 1 > max
  <2>1. An!sockname(h, size).path = An!AtMost(p, max) /\ An!sockname(h, size).size = max + 1
    BY <1>6, <1>7
  <2>2. max + 1 > size <=> Len(p) + 1 > size
    BY <1>1, <1>5, <1>7
  <2> QED BY <1>2, <1>4, <2>1, <2>2
<1>8. CASE ~(Len(p) + 1 > max)
  <2>1. An!sockname(h, size).path = p /\ An!sockname(h, size).size = Len(p) + 1
    BY <1>6, <1>8
  <2>2. An!AtMost(p, max) = p
    BY <1>1, <1>5, <1>8, AtMostIs
  <2> QED BY <1>2, <1>4, <2>1, <2>2
<1> QED BY <1>7, <1>8

-----------------------------------------------------------------------------
(* Whatever directories are renamed, removed and made the working          *)
(* directory, and sockets bound, unlinked and connected to, the guest is   *)
(* answered what Linux would answer a process that sees its paths: where   *)
(* it works, where a link leads, how a socket is called, in buffers of any *)
(* size, and only what is read from /proc/self/auxv is corrected.          *)
THEOREM AnswersAreLinuxs == ASSUME AnswersUsual PROVE An!Spec => []An!AnswersAreTheGuests
<1>1. An!Init => AnswersInv
  BY AnswersStart
<1>2. AnswersInv /\ [An!Next]_An!vars => AnswersInv'
  <2> SUFFICES ASSUME AnswersInv, [An!Next]_An!vars PROVE AnswersInv'
    OBVIOUS
  <2>1. CASE An!Next
    <3>1. PICK t \in Tracees :
            \/ \E d \in Dirs \cup {0} : An!Chdir(t, d)
            \/ \E d \in Dirs : (\E new \in Spots : An!RenameKernel(t, d, new)) \/ An!Rmdir(t, d)
            \/ An!RenameExit(t)
            \/ \E p \in Sockets : An!Bind(t, p) \/ An!Connect(t, p) \/ An!Unlink(t, p)
            \/ \E f \in Fds : (\E what \in {"auxv", "data"} : An!Open(t, f, what)) \/ An!Close(t, f) \/ An!Read(t, f)
      BY <2>1 DEF An!Next
    <3>2. CASE \E d \in Dirs \cup {0} : An!Chdir(t, d)
      BY <3>2, AnswersChdir
    <3>3. CASE \E d \in Dirs : (\E new \in Spots : An!RenameKernel(t, d, new)) \/ An!Rmdir(t, d)
      BY <3>3, AnswersRename, AnswersRmdir
    <3>4. CASE An!RenameExit(t)
      BY <3>4, AnswersRenameExit
    <3>5. CASE \E p \in Sockets : An!Bind(t, p) \/ An!Connect(t, p) \/ An!Unlink(t, p)
      BY <3>5, AnswersSockets
    <3>6. CASE \E f \in Fds : (\E what \in {"auxv", "data"} : An!Open(t, f, what)) \/ An!Close(t, f) \/ An!Read(t, f)
      BY <3>6, AnswersFiles
    <3> QED BY <3>1, <3>2, <3>3, <3>4, <3>5, <3>6
  <2>2. CASE UNCHANGED An!vars
    <3>1. UNCHANGED <<shared, where, cwd, real, renaming, shorts, bound, files, auxv_fd, filter, watched>>
      BY <2>2 DEF An!vars
    <3>2. (PlacesPart /\ RenamePart /\ CwdPart)'
      BY <3>1, DirsSame
    <3>3. SocketPart' /\ FilePart'
      BY <3>1, FilesSame DEF AnswersInv, SocketPart, An!HostOf, An!TooLong, An!ShortOf
    <3> QED BY <3>2, <3>3 DEF AnswersInv
  <2> QED BY <2>1, <2>2
<1>3. AnswersInv => An!AnswersAreTheGuests
  <2> SUFFICES ASSUME AnswersInv PROVE An!AnswersAreTheGuests
    OBVIOUS
  <2>1. SocketPart /\ FilePart /\ Sizes \subseteq Nat /\ Targets \subseteq Route /\ Quirks = {} /\ 0 \notin Fds
    BY DEF AnswersInv, AnswersUsual
  <2>2. \A t \in Tracees, size \in Sizes : An!Settled(t) => An!getcwd(t, size) = An!KernelCwd(t, size)
    BY CwdAnswer
  <2>3. ASSUME NEW h \in An!HostPaths PROVE h \in Route
    <3>1. \A p \in DOMAIN bound : p \in Sockets /\ bound[p] = An!HostOf(p)
      BY <2>1 DEF SocketPart
    <3>2. \A p \in DOMAIN bound : bound[p] \in Route
      BY <2>1, <3>1, ShortFits
    <3> QED BY <2>1, <2>3, <3>2 DEF An!HostPaths
  <2>4. \A h \in An!HostPaths, size \in Sizes \ {0} :
          size # Len(An!detranslate_path(h)) + 1 => An!readlink(h, size) = An!AtMost(An!detranslate_path(h), size)
    BY <2>1, <2>3, LinkAnswer
  <2>5. ASSUME NEW p \in DOMAIN bound
        PROVE  /\ An!HostOf(p) = bound[p]
               /\ \A size \in Sizes : An!MaxSize(size) > Len(bound[p]) =>
                    /\ An!sockname(bound[p], size).path = An!AtMost(p, An!MaxSize(size))
                    /\ (An!sockname(bound[p], size).size > size) <=> (Len(p) + 1 > size)
    BY <2>1, <2>5, NameAnswer DEF SocketPart
  <2>6. \A t \in Tracees, f \in Fds : An!Patched(t, f) => files[t][f] = "auxv"
    BY <2>1 DEF An!Patched, FilePart
  <2> QED BY <2>1, <2>2, <2>4, <2>5, <2>6 DEF An!AnswersAreTheGuests
<1> QED BY <1>1, <1>2, <1>3, PTL DEF An!Spec
=============================================================================
