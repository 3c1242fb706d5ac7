------------------------------ MODULE MetaFiles ------------------------------
(***************************************************************************)
(* extension/fake_id0 as built with USERLAND: owners and modes the host    *)
(* cannot hold are kept in a second file beside each file.  The handlers   *)
(* of SYSCALL_ENTER_END write it before the kernel performs the call, the  *)
(* handlers of the exit read it.                                           *)
(*                                                                         *)
(* A mode gives the owner, the group and the others their permissions.     *)
(* want is history: what a kernel that held them would report, None when   *)
(* the file came with the host.  Quirks: "fails" a call the handlers let   *)
(* through may fail; "host" there are files that came with the host, and   *)
(* a file without a meta file is renamed to one that has it; "link" hard   *)
(* links; "group" chown of the owner alone; "exec" an execve may fail.     *)
(***************************************************************************)
EXTENDS Naturals

CONSTANTS Files,      \* the files of the one directory
          Ids,        \* of users, and of groups
          Modes,      \* [own, grp, oth : sets of "r", "w", "x"]
          MaxCalls, Quirks

VARIABLES there,     \* the files there are
          meta,      \* the content of each meta file, None if there is none
          want,
          euid, ruid,
          call,      \* the call the tracee is in, as the enter handler left it
          result, calls
vars == <<there, meta, want, euid, ruid, call, result, calls>>

Dir == "dir"
AllPaths == Files \cup {Dir}
NoMode == [own |-> {}, grp |-> {}, oth |-> {}]
None == [mode |-> NoMode, owner |-> "none", group |-> "none"]
Made(d, f, m, a) ==
  [go |-> "none", do |-> d, path |-> f, to |-> f, mode |-> m, owner |-> "none", group |-> "none", access |-> a]
Idle == Made("none", Dir, NoMode, {})
Default == [own |-> {"r", "w", "x"}, grp |-> {"r", "x"}, oth |-> {"r", "x"}]
Root == "0"

Init ==
  /\ there \in {{Dir}} \cup (IF "host" \in Quirks THEN {AllPaths} ELSE {})
  /\ \E d \in {None} \cup {[mode |-> m, owner |-> Root, group |-> Root] : m \in Modes} :
       meta = [n \in AllPaths |-> IF n = Dir THEN d ELSE None]
  /\ want = meta
  /\ euid \in Ids /\ ruid = euid /\ call = Idle /\ result = "ok" /\ calls = 0

-----------------------------------------------------------------------------
(* helper_functions.c                                                      *)
read_meta_file(n) == IF meta[n] = None THEN [mode |-> Default, owner |-> euid, group |-> euid] ELSE meta[n]
get_permissions(n, id) ==
  LET m == read_meta_file(n)
      found == IF id = m.owner \/ id = Root THEN m.mode.own ELSE IF euid = m.group THEN m.mode.grp ELSE m.mode.oth
  IN  IF id = Root THEN found \cup {"r", "w"} ELSE found
check_dir_perms(type) == type \in get_permissions(Dir, euid)

umask == {"w"}
Masked(m) == [own |-> m.own, grp |-> m.grp \ umask, oth |-> m.oth \ umask]

-----------------------------------------------------------------------------
(* The handlers of the entry: whether the call goes on, and the meta files *)
(* after it.                                                               *)
Refused == [go |-> "EACCES", meta |-> meta]
Through(m) == [go |-> "kernel", meta |-> m]
Voided(m) == [go |-> "void", meta |-> m]

handle_open_enter_end(c) ==
  CASE c.do = "open" /\ meta[c.path] = None -> Through(meta)
    [] c.do = "creat" /\ c.path \notin there ->
         IF check_dir_perms("w")
         THEN Through([meta EXCEPT ![c.path] = [mode |-> Masked(c.mode), owner |-> euid, group |-> euid]])
         ELSE Refused
    [] OTHER -> IF check_dir_perms("x") /\ c.access \subseteq get_permissions(c.path, euid) THEN Through(meta) ELSE Refused

handle_mk_enter_end(c) ==
  IF c.path \in there THEN Through(meta)
  ELSE IF ~check_dir_perms("w") THEN Refused
  ELSE Through([meta EXCEPT ![c.path] = [mode |-> Masked(c.mode), owner |-> euid, group |-> euid]])

handle_unlink_enter_end(c) ==
  IF check_dir_perms("w") THEN Through([meta EXCEPT ![c.path] = None]) ELSE Refused

(* Fault: the meta file is copied, the old one stays.                   *)
RenameCopies(c) ==
  IF ~check_dir_perms("w") THEN Refused
  ELSE IF meta[c.path] = None THEN Through(meta)
  ELSE Through([meta EXCEPT ![c.to] = meta[c.path]])

handle_rename_enter_end(c) ==
  IF ~check_dir_perms("w") THEN Refused
  ELSE IF meta[c.path] = None THEN Through(meta)
  ELSE Through([[meta EXCEPT ![c.path] = None] EXCEPT ![c.to] = meta[c.path]])

handle_chmod_enter_end(c) ==
  IF meta[c.path] = None THEN Through(meta)
  ELSE IF ~check_dir_perms("x") \/ euid \notin {meta[c.path].owner, Root} THEN Refused
  ELSE Voided([meta EXCEPT ![c.path].mode = c.mode])

handle_chown_enter_end(c) ==
  LET owner == IF c.owner = "none" THEN meta[c.path].owner ELSE c.owner
  IN  IF meta[c.path] = None THEN Through(meta)
      ELSE IF ~check_dir_perms("x") \/ euid \notin {meta[c.path].owner, Root} THEN Refused
      ELSE Voided([meta EXCEPT ![c.path].owner = IF euid = Root THEN owner ELSE @, ![c.path].group = c.group])

handle_access_enter_end(c) ==
  IF check_dir_perms("x") /\ c.access \subseteq get_permissions(c.path, ruid) THEN Through(meta) ELSE Refused
handle_utimensat_enter_end(c) ==
  IF euid \in {read_meta_file(c.path).owner, Root} /\ "w" \in get_permissions(c.path, euid) THEN Through(meta) ELSE Refused
handle_link_enter_end(c) ==
  IF check_dir_perms("x") /\ check_dir_perms("w") THEN Through(meta) ELSE Refused
handle_symlink_enter_end(c) == IF check_dir_perms("w") THEN Through(meta) ELSE Refused

Entered(c) ==
  CASE c.do \in {"open", "creat"} -> handle_open_enter_end(c)
    [] c.do = "mkdir"             -> handle_mk_enter_end(c)
    [] c.do = "unlink"            -> handle_unlink_enter_end(c)
    [] c.do = "rename"            -> handle_rename_enter_end(c)
    [] c.do = "chmod"             -> handle_chmod_enter_end(c)
    [] c.do = "chown"             -> handle_chown_enter_end(c)
    [] c.do = "access"            -> handle_access_enter_end(c)
    [] c.do = "utimensat"         -> handle_utimensat_enter_end(c)
    [] c.do = "link"              -> handle_link_enter_end(c)
    [] c.do = "symlink"           -> handle_symlink_enter_end(c)
    [] OTHER                      -> Through(meta)

Enter(c) ==
  /\ call = Idle /\ calls < MaxCalls /\ calls' = calls + 1
  /\ (c.do = "rename" /\ meta[c.path] = None /\ meta[c.to] # None) => "host" \in Quirks
  /\ \E e \in {Entered(c)} :
       /\ meta' = e.meta
       /\ call' = [c EXCEPT !.go = e.go]
  /\ UNCHANGED <<there, want, euid, ruid, result>>

-----------------------------------------------------------------------------
(* The kernel performs the call, unless it was refused or replaced by one  *)
(* that does nothing.                                                      *)
Exists(c) == (c.path \in there) = (c.do \notin {"mkdir", "symlink"})
Succeeds(c) == c.do = "creat" \/ (Exists(c) /\ (c.do = "link" => c.to \notin there))

After(c, w) ==
  CASE c.do \in {"creat", "mkdir"} /\ c.path \notin there ->
         [w EXCEPT ![c.path] = [mode |-> Masked(c.mode), owner |-> euid, group |-> euid]]
    [] c.do = "unlink"                    -> [w EXCEPT ![c.path] = None]
    [] c.do = "rename" /\ c.to # c.path   -> [[w EXCEPT ![c.path] = None] EXCEPT ![c.to] = w[c.path]]
    [] c.do = "link"                      -> [w EXCEPT ![c.to] = w[c.path]]
    [] c.do = "chmod" /\ w[c.path] # None -> [w EXCEPT ![c.path].mode = c.mode]
    [] c.do = "chown" /\ w[c.path] # None ->
         [w EXCEPT ![c.path].owner = IF c.owner = "none" \/ euid # Root THEN @ ELSE c.owner,
                   ![c.path].group = IF c.group = "none" THEN @ ELSE c.group]
    [] OTHER                              -> w
FilesAfter(c) ==
  CASE c.do \in {"creat", "mkdir", "symlink"} -> there \cup {c.path}
    [] c.do = "unlink"                        -> there \ {c.path}
    [] c.do = "rename"                        -> (there \ {c.path}) \cup {c.to}
    [] c.do = "link"                          -> there \cup {c.to}
    [] OTHER                                  -> there

Kernel(fails) ==
  /\ call # Idle /\ call.go \in {"kernel", "void"}
  /\ fails => call.go = "kernel" /\ ("fails" \in Quirks \/ ~Succeeds(call))
  /\ ~fails => call.go = "void" \/ Succeeds(call)
  /\ IF fails THEN UNCHANGED <<there, want>>
     ELSE there' = FilesAfter(call) /\ want' = After(call, want)
  /\ result' = IF fails THEN "failed" ELSE "ok"
  /\ call' = [call EXCEPT !.go = "exit"]
  /\ UNCHANGED <<meta, euid, ruid, calls>>

(* stat reports the content of the meta file, or the tracee as the owner   *)
(* of what its real user owns.                                             *)
Reported(m) == IF m = None THEN [mode |-> Default, owner |-> euid, group |-> euid] ELSE m
handle_stat_exit_end(f) == Reported(meta[f])

(* The handlers of the exit: the meta file of an open that created nothing *)
(* is removed.                                                             *)
handle_sysexit_end ==
  /\ call # Idle /\ call.go = "exit"
  /\ meta' = IF call.do \in {"open", "creat"} /\ call.path \notin there THEN [meta EXCEPT ![call.path] = None] ELSE meta
  /\ call' = Idle
  /\ UNCHANGED <<there, want, euid, ruid, result, calls>>
Denied ==
  /\ call # Idle /\ call.go = "EACCES" /\ call' = Idle /\ result' = "EACCES"
  /\ UNCHANGED <<there, meta, want, euid, ruid, calls>>

(* handle_exec_enter_end changes the ids before the execve is performed.   *)
handle_exec_enter_end(f, setuid, succeeds) ==
  /\ call = Idle /\ calls < MaxCalls /\ calls' = calls + 1
  /\ meta[f] # None /\ f \in there /\ check_dir_perms("x") /\ "x" \in get_permissions(f, euid)
  /\ (setuid /\ ~succeeds) => "exec" \in Quirks
  /\ euid' = (IF setuid THEN Root ELSE euid) /\ ruid' = (IF setuid THEN Root ELSE ruid)
  /\ UNCHANGED <<there, meta, want, call, result>>

Between(d, f, g) == [Made(d, f, NoMode, {}) EXCEPT !.to = g]
Chowned(f, o, g) == [Made("chown", f, NoMode, {}) EXCEPT !.owner = o, !.group = g]
Calls ==
  {Made(d, f, m, {"w"}) : d \in {"creat", "mkdir", "chmod"}, f \in Files, m \in Modes}
  \cup {Made(d, f, NoMode, {"r"}) : d \in {"open", "access", "unlink", "utimensat", "symlink"}, f \in Files}
  \cup {Between("rename", f, g) : f, g \in Files}
  \cup {Chowned(f, o, g) : f \in Files, o \in Ids \cup {"none"}, g \in Ids \cup (IF "group" \in Quirks THEN {"none"} ELSE {})}
  \cup {Between(d, f, g) : d \in Quirks \cap {"link"}, f, g \in Files}

Next ==
  \/ \E c \in Calls : Enter(c)
  \/ \E fails \in BOOLEAN : Kernel(fails)
  \/ handle_sysexit_end \/ Denied
  \/ \E f \in Files, setuid, succeeds \in BOOLEAN : handle_exec_enter_end(f, setuid, succeeds)

Spec == Init /\ [][Next]_vars

-----------------------------------------------------------------------------
(* Between calls, what stat would report of each file is what its creator, *)
(* its last chmod and its last chown made it, under whatever name a rename *)
(* has put it; no meta file outlives its file, to be found by the next one *)
(* of that name.                                                           *)
MetaFollowsFile ==
  call = Idle => \A f \in Files : IF f \in there THEN handle_stat_exit_end(f) = Reported(want[f]) ELSE meta[f] = None
=============================================================================
