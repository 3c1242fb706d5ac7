-------------------------------- MODULE Vdisk --------------------------------
(***************************************************************************)
(* extension/vdisk/vdisk.c: a root file system read from a disk image.     *)
(*                                                                         *)
(* The guest's root is a cache directory that is filled as paths are       *)
(* translated: every prefix of a path goes through the HOST_PATH event,    *)
(* which copies the entries of a directory the first time it is met.  On a *)
(* persistent exit the entries never met are copied too, a new file system *)
(* is built from the cache and replaces the image.                         *)
(*                                                                         *)
(* A file is its content, a directory is "dir", what is absent is "none".  *)
(* view is history: what the guest would see on a disk really mounted.     *)
(* Quirks: "delete" the guest removes files of the disk, not only its own; *)
(* "partitions" the image has two; "install" the last command of the exit  *)
(* fails; "stale" the process id of a killed PRoot is used again.          *)
(***************************************************************************)
EXTENDS Naturals, Sequences, FiniteSets, SequencesExt

CONSTANTS Paths,           \* every path there may be, each a sequence of names, <<>> the root
          Images,          \* the trees a partition may hold at first
          Writable,        \* the paths the guest writes
          SetupPaths, Excluded, \* --setup-paths, and the names --setup-exclude gives
          MAX_LOADED_DIRS, \* 512 in the code
          MAX_DEPTH,       \* 20 in the code
          MaxOps, MaxSessions,
          Quirks

VARIABLES image,       \* the partitions of the disk
          target,      \* partition_index, as it was opened
          cache, loaded_dirs,
          persistent, phase, raw_tmp,
          path_env,    \* the directories of PATH
          view, told,  \* history: what the guest expects; what the exit said
          ops, sessions
vars == <<image, target, cache, loaded_dirs, persistent, phase, raw_tmp, path_env, view, told, ops, sessions>>

Dirs == {d \in Paths : \E p \in Paths : p # <<>> /\ Front(p) = d}
Nothing == [p \in Paths |-> IF p = <<>> THEN "dir" ELSE "none"]
Ancestors(p) == {d \in Paths : IsStrictPrefix(d, p)}
disk == image[target]
Partitions == IF "partitions" \in Quirks THEN 1 .. 2 ELSE {1}

Init ==
  /\ image \in [Partitions -> Images]
  /\ target = 1 /\ cache = Nothing /\ loaded_dirs = {} /\ persistent = FALSE /\ phase = "off"
  /\ raw_tmp = Nothing /\ path_env = {} /\ view = Nothing /\ told = "nothing" /\ ops = 0 /\ sessions = 0

-----------------------------------------------------------------------------
(* The copies from the disk to the cache c.                                *)
mkdir(c, d) == IF c[d] = "none" THEN [c EXCEPT ![d] = "dir"] ELSE c
ensure_parent_dirs(c, p) == [q \in Paths |-> IF q \in Ancestors(p) /\ c[q] = "none" THEN "dir" ELSE c[q]]
extract_vdisk_file_to_host(c, p) ==
  LET parents == ensure_parent_dirs(c, p)
  IN  CASE disk[p] = "none" -> c
        [] disk[p] = "dir"  -> mkdir(parents, p)
        [] OTHER            -> [parents EXCEPT ![p] = disk[p]]

Marked(l, d) == IF Cardinality(l) < MAX_LOADED_DIRS THEN l \cup {d} ELSE l

(* Fault: what is in the cache is not looked at.                        *)
CopiesOver(f, d) ==
  LET c == mkdir(ensure_parent_dirs(f.cache, d), d)
  IN  IF disk[d] # "dir" THEN [f EXCEPT !.cache = c]
      ELSE [cache  |-> [p \in Paths |-> IF p # <<>> /\ Front(p) = d /\ disk[p] # "none" THEN disk[p] ELSE c[p]],
            loaded |-> Marked(f.loaded, d)]

(* The entries of one directory that are not in the cache yet: they are    *)
(* copied, whatever they are, directories without their content.           *)
extract_vdisk_dir_shallow(f, d) ==
  LET c == mkdir(ensure_parent_dirs(f.cache, d), d)
  IN  IF disk[d] # "dir" THEN [f EXCEPT !.cache = c]
      ELSE [cache  |-> [p \in Paths |-> IF p # <<>> /\ c[p] = "none" /\ Front(p) = d THEN disk[p] ELSE c[p]],
            loaded |-> Marked(f.loaded, d)]

(* Fault: the guest's version is not preserved.                         *)
FullCopiesOver(c) ==
  [p \in Paths |-> IF disk[p] # "none" /\ 2 * Len(p) - 1 <= MAX_DEPTH THEN disk[p] ELSE c[p]]

(* Every entry of the disk, except below what the cache has as a file, and *)
(* as deep as the two counts of each level allow.                          *)
extract_vdisk_dir_full(c) ==
  [p \in Paths |-> IF /\ c[p] = "none" /\ 2 * Len(p) - 1 <= MAX_DEPTH
                      /\ \A d \in Ancestors(p) : c[d] \in {"none", "dir"}
                   THEN disk[p] ELSE c[p]]

(* HOST_PATH and TRANSLATED_PATH, for one prefix.                          *)
Translated(f, p) ==
  CASE f.cache[p] = "none" /\ disk[p] = "dir"           -> extract_vdisk_dir_shallow(f, p)
    [] f.cache[p] = "none" /\ disk[p] = "none"          -> [f EXCEPT !.cache = ensure_parent_dirs(@, p)]
    [] f.cache[p] = "none" /\ disk[p] \notin {"dir", "none"}
                                                        -> [f EXCEPT !.cache = extract_vdisk_file_to_host(@, p)]
    [] f.cache[p] = "dir" /\ p \notin f.loaded          -> extract_vdisk_dir_shallow(f, p)
    [] OTHER                                            -> f
TranslateAll(p) ==
  FoldLeft(LAMBDA f, n : IF n > 0 /\ f.cache[SubSeq(p, 1, n - 1)] # "dir" THEN f ELSE Translated(f, SubSeq(p, 1, n)),
           [cache |-> cache, loaded |-> loaded_dirs], [i \in 1 .. Len(p) + 1 |-> i - 1])

-----------------------------------------------------------------------------
(* INITIALIZATION: the partition is opened and its name found, / and /usr, *)
(* /etc and /root are copied without what is below, the directories every  *)
(* guest needs are made, its host name and the files PRoot brings are      *)
(* written (of these one stands for all: the library of the JIT).          *)
Eager == <<<<>>, <<"usr">>, <<"etc">>, <<"root">>>>
Essential == {<<"tmp">>, <<"root">>}
Hostname == <<"etc", "hostname">>
Brought == <<".proot.jit.so">>
detect_distro_codename ==
  LET named == SelectSeq(<<<<"usr", "lib", "os-release">>, <<"etc", "os-release">>, <<"etc", "issue">>, Hostname>>,
                         LAMBDA f : f \in Paths /\ disk[f] \notin {"none", "dir"})
  IN  IF named = <<>> THEN "vdisk" ELSE disk[Head(named)]
Booted(c) ==
  LET f == FoldLeft(LAMBDA g, d : IF d \in Paths THEN extract_vdisk_dir_shallow(g, d) ELSE g,
                    [cache |-> c, loaded |-> {}], Eager)
      At(p) == CASE p = Brought                                   -> "host"
                 [] p = Hostname /\ f.cache[<<"etc">>] = "dir"     -> detect_distro_codename
                 [] p \in Essential /\ f.cache[p] = "none"        -> "dir"
                 [] OTHER                                         -> f.cache[p]
  IN  [f EXCEPT !.cache = [p \in Paths |-> At(p)]]

(* vdisk_discover_and_export_paths looks in the cache, as it is at boot.   *)
is_binary_dir_name(d) == d # <<>> /\ Last(d) \in {"bin", "sbin", "xbin", ".bin", "games"}
is_path_excluded(d) == \E i \in DOMAIN d : d[i] \in Excluded
scan_dir_for_bins(c) ==
  {d \in Paths : is_binary_dir_name(d) /\ ~is_path_excluded(d) /\ c[d] = "dir" /\ Len(d) <= 6
                 /\ Head(d) \notin {"proc", "sys", "dev", "run", "var", "tmp"}}

WithBoot(c, expected) ==
  [p \in Paths |-> IF p \in {Hostname, Brought} \/ expected[p] = "none" THEN c[p] ELSE expected[p]]

Boot ==
  /\ phase = "off" /\ sessions < MaxSessions /\ sessions' = sessions + 1
  /\ persistent' \in BOOLEAN
  /\ \E f \in {Booted(IF "stale" \in Quirks THEN cache ELSE Nothing)} :
       /\ cache' = f.cache /\ loaded_dirs' = f.loaded
       /\ path_env' = IF SetupPaths THEN scan_dir_for_bins(f.cache) ELSE {}
       /\ view' = WithBoot(f.cache, disk)
  /\ phase' = "run" /\ told' = "nothing"
  /\ UNCHANGED <<image, target, raw_tmp, ops>>

-----------------------------------------------------------------------------
(* A system call of the guest on a path: its prefixes are translated, then *)
(* the kernel acts on the cache.                                           *)
Call(p, does(_)) ==
  /\ phase = "run" /\ ops < MaxOps /\ ops' = ops + 1
  /\ \E f \in {TranslateAll(p)} : loaded_dirs' = f.loaded /\ cache' = does(f.cache)
  /\ UNCHANGED <<image, target, persistent, phase, raw_tmp, path_env, told, sessions>>

Look(p) == Call(p, LAMBDA c : c) /\ UNCHANGED view
Write(p, v) ==
  LET Does(c) == IF p # <<>> /\ c[Front(p)] = "dir" /\ c[p] # "dir" THEN [c EXCEPT ![p] = v] ELSE c
  IN  Call(p, Does) /\ view' = Does(view)
MakeDir(p) ==
  LET Does(c) == IF p # <<>> /\ c[Front(p)] = "dir" THEN mkdir(c, p) ELSE c
  IN  Call(p, Does) /\ view' = Does(view)
Unlink(p) ==
  LET Does(c) == IF c[p] \notin {"none", "dir"} THEN [c EXCEPT ![p] = "none"] ELSE c
  IN  (disk[p] # "none" => "delete" \in Quirks) /\ Call(p, Does) /\ view' = Does(view)

-----------------------------------------------------------------------------
(* vdisk_do_commit_and_cleanup, command by command.                        *)
Volatile(p) == p # <<>> /\ Head(p) \in {"tmp", "run", "proc", "sys", "dev"} /\ Len(p) > 1
WithoutVolatile(c) == [p \in Paths |-> IF Volatile(p) THEN "none" ELSE c[p]]

Exit ==
  /\ phase = "run"
  /\ LET whole == \E d \in {<<"bin">>, <<"usr">>} \cap Paths : cache[d] # "none"
     IN  IF persistent /\ whole
         THEN cache' = WithoutVolatile(extract_vdisk_dir_full(cache)) /\ phase' = "mkfs"
         ELSE phase' = "clean" /\ UNCHANGED cache
  /\ persistent' = FALSE
  /\ UNCHANGED <<image, target, loaded_dirs, raw_tmp, path_env, view, told, ops, sessions>>

Mkfs(fails) ==
  /\ phase = "mkfs"
  /\ IF fails THEN told' = "failed" /\ phase' = "clean" /\ UNCHANGED raw_tmp
     ELSE raw_tmp' = cache /\ phase' = "install" /\ UNCHANGED told
  /\ UNCHANGED <<image, target, cache, loaded_dirs, persistent, path_env, view, ops, sessions>>

(* What becomes of the command that installs the new image is not looked   *)
(* at.                                                                     *)
Install(fails) ==
  /\ phase = "install" /\ (fails => "install" \in Quirks)
  /\ image' = IF fails THEN image ELSE <<raw_tmp>>
  /\ target' = 1 /\ raw_tmp' = Nothing /\ told' = "saved" /\ phase' = "clean"
  /\ UNCHANGED <<cache, loaded_dirs, persistent, path_env, view, ops, sessions>>

Cleanup ==
  /\ phase = "clean" /\ phase' = "off" /\ cache' = Nothing /\ loaded_dirs' = {}
  /\ UNCHANGED <<image, target, persistent, raw_tmp, path_env, view, told, ops, sessions>>

(* PRoot is killed: the cache stays under the name of its process.         *)
Killed ==
  /\ phase # "off" /\ phase' = "off" /\ told' = "nothing" /\ persistent' = FALSE /\ raw_tmp' = Nothing
  /\ UNCHANGED <<image, target, cache, loaded_dirs, path_env, view, ops, sessions>>

Next ==
  \/ Boot \/ Exit \/ Cleanup \/ Killed
  \/ \E fails \in BOOLEAN : Mkfs(fails) \/ Install(fails)
  \/ \E p \in Writable : Look(p) \/ MakeDir(p) \/ Write(p, "new") \/ Unlink(p)

Spec == Init /\ [][Next]_vars

-----------------------------------------------------------------------------
(* The guest sees what a mounted disk would show, though only a part of it *)
(* was ever copied: translating any path now would bring what the guest    *)
(* expects there, its own writes included.                                 *)
LazyIsTransparent ==
  phase = "run" => \A p \in Writable :
    LET f == TranslateAll(p)
    IN  (\A d \in Ancestors(p) : view[d] = "dir") => f.cache[p] = view[p]

(* After an exit that said it saved the changes, the disk has what the     *)
(* guest saw, entries it never opened included, less what is volatile, and *)
(* still the partitions it had.                                            *)
SavedIsTheView ==
  (phase = "clean" /\ told = "saved") => disk = WithoutVolatile(view) /\ DOMAIN image = Partitions
=============================================================================
