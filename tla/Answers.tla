------------------------------- MODULE Answers -------------------------------
(***************************************************************************)
(* syscall/exit.c and syscall/socket.c: what the kernel answers is put in  *)
(* the guest's terms.  The working directory is a name PRoot keeps and has *)
(* to follow when a directory is renamed; the content of a link and the    *)
(* name of a socket are host paths that become guest paths in a buffer of  *)
(* a given size; a socket whose host path is too long is bound to a        *)
(* shorter one; AT_EXECFN is corrected in what is read from                *)
(* /proc/self/auxv.                                                        *)
(*                                                                         *)
(* A path is the sequence of its components, each as long as one byte.     *)
(* Quirks: "other" a tracee's directory is renamed by another, that does   *)
(* not share it; "renameat2" a call whose exit is not translated;          *)
(* "concurrent" two renames at a time; "again" the name of a working       *)
(* directory that was removed is taken by another; "exact" a buffer with   *)
(* room for the terminator only; "small" a buffer the host path does not   *)
(* fit in; "brim" a host path as long as sun_path; "threads" descriptors   *)
(* are shared.  A descriptor is only closed by close(2).                   *)
(***************************************************************************)
EXTENDS Naturals, Sequences, SequencesExt, FiniteSets

CONSTANTS Tracees, Dirs,        \* the directories, by inode
          Places,               \* where each may be
          FirstPlaces,          \* where each is at first
          Root,                 \* the host path of the root file system
          SizeofPath,           \* of sun_path
          Sockets,              \* the guest paths sockets are bound to
          Targets,              \* host paths that the links of /proc lead to
          Sizes,                \* of the guest's buffers
          Fds, MaxCalls, Quirks

VARIABLES shared,       \* the tracees are threads: one working directory, one table of descriptors
          where,        \* the guest path of each directory, <<>> once removed
          cwd,          \* tracee->fs->cwd
          real,         \* the directory it was set to
          renaming,     \* the rename each tracee is in, between the kernel and its exit
          shorts,       \* the bindings to shorter host paths, by guest path
          bound,        \* the host path each socket is bound to
          files,        \* the descriptors of each tracee
          auxv_fd,      \* tracee->auxv_fd, 0 if none
          calls,
          filter,       \* the seccomp filter is used: close and read are in no list of it
          watched       \* the next call of the tracee stops, whatever it is (restart_how)
vars == <<shared, where, cwd, real, renaming, shorts, bound, files, auxv_fd, calls, filter, watched>>

NUL == "NUL"
AtMost(s, n) == SubSeq(s, 1, IF n < Len(s) THEN n ELSE Len(s))
NoRename == [old |-> <<>>, new |-> <<>>]

Init ==
  /\ shared \in {TRUE, FALSE}
  /\ where = FirstPlaces
  /\ cwd = [t \in Tracees |-> <<>>] /\ real = [t \in Tracees |-> 0]
  /\ renaming = [t \in Tracees |-> NoRename]
  /\ shorts = <<>> /\ bound = <<>>
  /\ files = [t \in Tracees |-> [f \in Fds |-> "closed"]] /\ auxv_fd = [t \in Tracees |-> 0]
  /\ calls = 0 /\ filter \in BOOLEAN /\ watched = [t \in Tracees |-> FALSE]

Sharing(t) == IF shared THEN Tracees ELSE {t}
Counted == calls < MaxCalls /\ calls' = calls + 1

(* Without the filter every call of a tracee is a stop.  With it a call    *)
(* in no list is one only if the call before asked for it: unless it asks  *)
(* again the tracee goes on with PTRACE_CONT.                              *)
Stops(t) == ~filter \/ watched[t]
Asks(t, more) == watched' = [watched EXCEPT ![t] = more] /\ UNCHANGED filter

-----------------------------------------------------------------------------
(* External: the working directory is the root, 0, or a directory.         *)
Chdir(t, d) ==
  /\ Counted /\ Asks(t, FALSE) /\ (d # 0 => where[d] # <<>>)
  /\ cwd' = [u \in Tracees |-> IF u \in Sharing(t) THEN (IF d = 0 THEN <<>> ELSE where[d]) ELSE cwd[u]]
  /\ real' = [u \in Tracees |-> IF u \in Sharing(t) THEN d ELSE real[u]]
  /\ UNCHANGED <<shared, where, renaming, shorts, bound, files, auxv_fd>>

Under(old, p) == old # <<>> /\ IsPrefix(old, p)
Moved(p, old, new) == IF Under(old, p) THEN new \o SubSeq(p, Len(old) + 1, Len(p)) ELSE p
Inside(t, old) == real[t] # 0 /\ Under(old, where[real[t]])

(* External: the kernel renames a directory.                               *)
RenameKernel(t, d, new) ==
  /\ Counted /\ Asks(t, FALSE) /\ where[d] # <<>> /\ renaming[t] = NoRename
  /\ \A e \in Dirs : where[e] # new
  /\ Front(new) = <<>> \/ \E e \in Dirs : where[e] = Front(new)
  /\ ~IsPrefix(where[d], new)
  /\ "concurrent" \notin Quirks => \A u \in Tracees : renaming[u] = NoRename
  /\ "other" \notin Quirks => \A u \in Tracees \ Sharing(t) : ~Inside(u, where[d])
  /\ where' = [e \in Dirs |-> Moved(where[e], where[d], new)]
  /\ "again" \notin Quirks => \A u \in Tracees, e \in Dirs : (real[u] # 0 /\ where[real[u]] = <<>>) => where'[e] # cwd[u]
  /\ \E translated \in {TRUE} \cup (IF "renameat2" \in Quirks THEN {FALSE} ELSE {}) :
       renaming' = [renaming EXCEPT ![t] = IF translated THEN [old |-> where[d], new |-> new] ELSE NoRename]
  /\ UNCHANGED <<shared, cwd, real, shorts, bound, files, auxv_fd>>

(* The exit of rename and renameat: the name of the working directory      *)
(* follows if it was the one that is moved, or below it.                   *)
FollowsOnlyItself(p, old, new) == IF p = old THEN new ELSE p                    \* Fault
Follows(p, old, new) == Moved(p, old, new)
RenameExit(t) ==
  /\ renaming[t] # NoRename
  /\ cwd' = [u \in Tracees |-> IF u \in Sharing(t) THEN Follows(cwd[u], renaming[t].old, renaming[t].new) ELSE cwd[u]]
  /\ renaming' = [renaming EXCEPT ![t] = NoRename]
  /\ UNCHANGED <<shared, where, real, shorts, bound, files, auxv_fd, calls, filter, watched>>

(* External: an empty directory is removed.                                *)
Rmdir(t, d) ==
  /\ Counted /\ Asks(t, FALSE) /\ where[d] # <<>> /\ \A e \in Dirs \ {d} : ~Under(where[d], where[e])
  /\ \A u \in Tracees : renaming[u] = NoRename
  /\ where' = [where EXCEPT ![d] = <<>>]
  /\ UNCHANGED <<shared, cwd, real, renaming, shorts, bound, files, auxv_fd>>

(* getcwd: the name is checked, not looked up again.                       *)
Exists(p) == p = <<>> \/ \E d \in Dirs : where[d] = p
getcwd(t, size) ==
  IF size = 0 THEN <<"EINVAL">>
  ELSE IF ~Exists(cwd[t]) THEN <<"ENOENT">>
  ELSE IF size < Len(cwd[t]) + 1 THEN <<"ERANGE">>
  ELSE cwd[t] \o <<NUL>>

-----------------------------------------------------------------------------
(* detranslate_path of a host path.                                        *)
HostOf(p) == IF p \in DOMAIN shorts THEN shorts[p] ELSE Root \o p
detranslate_path(h) ==
  IF \E p \in DOMAIN shorts : shorts[p] = h THEN CHOOSE p \in DOMAIN shorts : shorts[p] = h
  ELSE IF IsPrefix(Root, h) THEN SubSeq(h, Len(Root) + 1, Len(h)) ELSE h
Unchanged(h) == detranslate_path(h) = h

(* readlink: the kernel has filled the buffer; the link is read again when *)
(* it filled all of it.                                                    *)
readlink(h, size) ==
  LET guest == detranslate_path(h)
      told  == IF Len(guest) + 1 < size THEN Len(guest) ELSE size
  IN  IF Unchanged(h) THEN AtMost(h, size) ELSE AtMost(guest \o <<NUL>>, told)

-----------------------------------------------------------------------------
(* translate_socketcall_enter: a path that is too long is bound to one     *)
(* that is not, and that nothing else has.                                 *)
TooLong(p) == Len(HostOf(p)) > SizeofPath
ShortOf(p) == <<"tmp", Last(p)>>
Shortened(p) == [q \in DOMAIN shorts \cup {p} |-> IF q = p THEN ShortOf(p) ELSE shorts[q]]

Bind(t, p) ==
  /\ Counted /\ Asks(t, FALSE) /\ p \notin DOMAIN bound
  /\ "brim" \notin Quirks => Len(HostOf(p)) # SizeofPath
  /\ shorts' = IF TooLong(p) THEN Shortened(p) ELSE shorts
  /\ bound' = [q \in DOMAIN bound \cup {p} |-> IF q # p THEN bound[q] ELSE IF TooLong(p) THEN ShortOf(p) ELSE HostOf(p)]
  /\ UNCHANGED <<shared, where, cwd, real, renaming, files, auxv_fd>>

(* A connect takes the same way, and leaves a binding behind it too.       *)
Connect(t, p) ==
  /\ Counted /\ Asks(t, FALSE)
  /\ shorts' = IF TooLong(p) THEN Shortened(p) ELSE shorts
  /\ UNCHANGED <<shared, where, cwd, real, renaming, bound, files, auxv_fd>>

Unlink(t, p) ==
  /\ p \in DOMAIN bound /\ Asks(t, FALSE) /\ bound' = [q \in DOMAIN bound \ {p} |-> bound[q]]
  /\ UNCHANGED <<shared, where, cwd, real, renaming, shorts, files, auxv_fd, calls>>

(* read_sockaddr_un: a name that does not fit is not looked at.            *)
IsRead(h, max) == Len(h) + 1 <= max

(* translate_socketcall_exit: the path in the buffer and the size told.    *)
translate_socketcall_exit(h, max) ==
  LET guest == detranslate_path(h)
  IN  IF ~IsRead(h, max) THEN [path |-> AtMost(h, max), size |-> Len(h) + 1]
      ELSE IF Len(guest) + 1 > max THEN [path |-> AtMost(guest, max), size |-> max + 1]
      ELSE [path |-> guest, size |-> Len(guest) + 1]

(* The exit of getsockname, getpeername, accept and their socketcall.      *)
MaxSize(size) == IF size < SizeofPath THEN size ELSE SizeofPath
sockname(h, size) == translate_socketcall_exit(h, MaxSize(size))

-----------------------------------------------------------------------------
(* The descriptor of /proc/self/auxv is remembered when it is opened, and  *)
(* forgotten when it is closed, by a close that is a stop: with the filter *)
(* only the call after the open, or after a read that was patched, is one. *)
(* Otherwise the number stays, and may be given to another file.           *)
Opened(t, f, what) == files' = [u \in Tracees |-> IF u \in Sharing(t) THEN [files[u] EXCEPT ![f] = what] ELSE files[u]]
Open(t, f, what) ==
  /\ Counted /\ files[t][f] = "closed" /\ Opened(t, f, what) /\ Asks(t, what = "auxv")
  /\ what = "auxv" => (\A g \in Fds : files[t][g] # "auxv") /\ (shared => "threads" \in Quirks)
  /\ auxv_fd' = IF what = "auxv" THEN [auxv_fd EXCEPT ![t] = f] ELSE auxv_fd
  /\ UNCHANGED <<shared, where, cwd, real, renaming, shorts, bound>>

Close(t, f) ==
  /\ files[t][f] # "closed" /\ Opened(t, f, "closed") /\ Asks(t, FALSE)
  /\ auxv_fd' = IF Stops(t) /\ auxv_fd[t] = f THEN [auxv_fd EXCEPT ![t] = 0] ELSE auxv_fd
  /\ UNCHANGED <<shared, where, cwd, real, renaming, shorts, bound, calls>>

(* read: what is patched.                                                  *)
Patched(t, f) == Stops(t) /\ auxv_fd[t] = f
Read(t, f) ==
  /\ files[t][f] # "closed" /\ Asks(t, Patched(t, f))
  /\ UNCHANGED <<shared, where, cwd, real, renaming, shorts, bound, files, auxv_fd, calls>>

Next ==
  \E t \in Tracees :
    \/ \E d \in Dirs \cup {0} : Chdir(t, d)
    \/ \E d \in Dirs : (\E new \in Places : RenameKernel(t, d, new)) \/ Rmdir(t, d)
    \/ RenameExit(t)
    \/ \E p \in Sockets : Bind(t, p) \/ Connect(t, p) \/ Unlink(t, p)
    \/ \E f \in Fds : (\E what \in {"auxv", "data"} : Open(t, f, what)) \/ Close(t, f) \/ Read(t, f)

Spec == Init /\ [][Next]_vars

-----------------------------------------------------------------------------
(* What Linux answers: the directory, wherever it is now.                  *)
KernelCwd(t, size) ==
  LET path == IF real[t] = 0 THEN <<>> ELSE where[real[t]]
  IN  IF size = 0 THEN <<"EINVAL">>
      ELSE IF real[t] # 0 /\ path = <<>> THEN <<"ENOENT">>
      ELSE IF size < Len(path) + 1 THEN <<"ERANGE">>
      ELSE path \o <<NUL>>
Settled(t) == \A u \in Sharing(t) : renaming[u] = NoRename
HostPaths == Targets \cup {bound[p] : p \in DOMAIN bound}

(* The guest is answered what Linux would answer a process that sees its   *)
(* paths: the working directory where it has been moved to; the whole of a *)
(* link, or as much of it as there is room for; the name a socket was      *)
(* bound to, never the host's, which a connect finds; and only what is     *)
(* read from /proc/self/auxv is corrected.                                 *)
AnswersAreTheGuests ==
  /\ \A t \in Tracees, size \in Sizes : Settled(t) => getcwd(t, size) = KernelCwd(t, size)
  /\ \A h \in HostPaths, size \in Sizes \ {0} :
       "exact" \in Quirks \/ size # Len(detranslate_path(h)) + 1 => readlink(h, size) = AtMost(detranslate_path(h), size)
  /\ \A p \in DOMAIN bound :
       /\ HostOf(p) = bound[p]
       /\ \A size \in Sizes : "small" \in Quirks \/ ("brim" \in Quirks /\ size > SizeofPath) \/ MaxSize(size) > Len(bound[p]) =>
            /\ sockname(bound[p], size).path = AtMost(p, MaxSize(size))
            /\ (sockname(bound[p], size).size > size) <=> (Len(p) + 1 > size)
  /\ \A t \in Tracees, f \in Fds : Patched(t, f) => files[t][f] = "auxv"
=============================================================================
