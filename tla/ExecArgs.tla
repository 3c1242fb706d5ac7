------------------------------- MODULE ExecArgs -------------------------------
(***************************************************************************)
(* execve/shebang.c, execve/aoxp.c, execve/ldso.c and expand_runner of     *)
(* execve/enter.c: how argv[] and envp[] of an execve(2) are rewritten for *)
(* a script, for a program of the guest's processor (run by QEMU, a        *)
(* program of the host) and for a program of the host ("mixed mode").      *)
(*                                                                         *)
(* An array of pointers is the sequence of what they point to; a variable  *)
(* is [name, value], and the value of LD_LIBRARY_PATH a sequence of        *)
(* directories <<root, directory>>.  logical is history: the environment   *)
(* the guest's programs gave, whichever processor they are for.  Quirks:   *)
(* "changed" LD_LIBRARY_PATH is set after a host program was run; "unset"  *)
(* there may be none; "rpath" host programs have paths of their own;       *)
(* "eof" the line of a shebang has no end; "empty" argv[] may be empty.    *)
(***************************************************************************)
EXTENDS Naturals, Sequences, FiniteSets, SequencesExt

CONSTANTS Files,        \* what may be executed: programs and scripts
          ContentOf(_), \* what a file is
          Qemu,         \* tracee->qemu: the runner and its arguments
          Values,       \* the values of LD_LIBRARY_PATH the guest uses
          MAXSYMLINKS, MaxCalls, Quirks

VARIABLES running,      \* the program that runs, and how it was called
          logical,
          host_ldso_paths, guest_ldso_paths,
          calls
vars == <<running, logical, host_ldso_paths, guest_ldso_paths, calls>>

LDLP == "LD_LIBRARY_PATH"
Var(n, v) == [name |-> n, value |-> v]
Blank == Var("", <<>>)
Unset == <<>>                       \* no LD_LIBRARY_PATH is remembered
(* The variables ldso_env_passthru knows, LD_LIBRARY_PATH aside.           *)
Known == {"LD_PRELOAD", "LD_BIND_NOW", "LD_TRACE_LOADED_OBJECTS"}

ValueIn(env, n) == IF \E i \in DOMAIN env : env[i].name = n THEN (CHOOSE v \in ToSet(env) : v.name = n).value ELSE Unset
Rebound(env, n, v) == [i \in DOMAIN env |-> IF env[i].name = n THEN Var(n, v) ELSE env[i]]
Vars(env) == ToSet(env) \ {Blank}

Init ==
  /\ \E v \in Values, preload \in BOOLEAN, set \in {TRUE} \cup (IF "unset" \in Quirks THEN {FALSE} ELSE {}) :
       logical = <<Var("TERM", <<>>)>> \o (IF set THEN <<Var(LDLP, v)>> ELSE <<>>) \o (IF preload THEN <<Var("LD_PRELOAD", <<>>)>> ELSE <<>>)
  /\ running = [file |-> "init", host |-> FALSE, argv |-> <<"init">>, env |-> logical, status |-> "ok", called |-> <<"init">>]
  /\ host_ldso_paths = Unset /\ guest_ldso_paths = Unset /\ calls = 0

-----------------------------------------------------------------------------
(* An entry of argv[] while it is rewritten: the pointer of the tracee, or *)
(* the string of PRoot that replaces it.  The last pointer is NULL.        *)
Entry(r, l) == [remote |-> r, local |-> l]
Null == "NULL"
fetch_array_of_xpointers(args) ==
  [i \in 1 .. Len(args) + 1 |-> Entry(IF i <= Len(args) THEN args[i] ELSE Null, Null)]
read_xpointee(e) == IF e.local # Null THEN e.local ELSE e.remote
resize_array_of_xpointers(a, i, n) ==
  SubSeq(a, 1, i - 1) \o [k \in 1 .. n |-> Entry(Null, Null)] \o SubSeq(a, i, Len(a))
write_xpointees(a, i, objects) ==
  [k \in DOMAIN a |-> IF k \in i .. (i + Len(objects) - 1) THEN [a[k] EXCEPT !.local = objects[k - i + 1]] ELSE a[k]]

(* What the tracee is given: the array ends at its first NULL.             *)
push_array_of_xpointers(a) ==
  LET end == CHOOSE i \in DOMAIN a : read_xpointee(a[i]) = Null /\ \A k \in 1 .. (i - 1) : read_xpointee(a[k]) # Null
  IN  [i \in 1 .. (end - 1) |-> read_xpointee(a[i])]

(* extract_shebang: the interpreter and the single argument.               *)
extract_shebang(f) ==
  LET c == ContentOf(f)
  IN  [interp |-> c.interp, argument |-> IF c.eof THEN "" ELSE c.argument]

(* One turn of expand_shebang: argv[0] is replaced by the script.          *)
ExpandedOnce(a, f) ==
  LET sb  == extract_shebang(f)
      new == IF sb.argument # "" THEN <<sb.interp, sb.argument, f>> ELSE <<sb.interp, f>>
  IN  write_xpointees(resize_array_of_xpointers(a, 1, Len(new) - 1 + (IF Len(a) = 1 THEN 1 ELSE 0)), 1, new)

expand_shebang(f, argv) ==
  LET turn[i \in 0 .. MAXSYMLINKS] ==
        IF i = 0 THEN [file |-> f, argv |-> fetch_array_of_xpointers(argv), status |-> "ELOOP"]
        ELSE LET s == turn[i - 1]
             IN  CASE s.status # "ELOOP"                   -> s
                   [] ContentOf(s.file).kind = "none"      -> [s EXCEPT !.status = "ENOENT"]
                   [] ContentOf(s.file).kind # "script"    -> [s EXCEPT !.status = "ok"]
                   [] OTHER -> [s EXCEPT !.file = extract_shebang(s.file).interp, !.argv = ExpandedOnce(s.argv, s.file)]
  IN  turn[MAXSYMLINKS]

-----------------------------------------------------------------------------
(* Fault: what a host program was given is passed on.                   *)
NeverUnswapped(v) == v

(* The value a host program was given is the guest's own when it was not   *)
(* touched since.                                                          *)
Unswapped(v) ==
  IF host_ldso_paths # Unset /\ guest_ldso_paths # Unset /\ v = host_ldso_paths THEN guest_ldso_paths ELSE v

(* ldso_env_passthru: what concerns the dynamic linker is for the program, *)
(* and not for QEMU.  The options, and the environment that is left.       *)
ldso_env_passthru(env) ==
  LET passed(i) == env[i].name \in Known \cup {LDLP}
      option(i) == [do |-> "-E", var |-> IF env[i].name = LDLP THEN Var(LDLP, Unswapped(env[i].value)) ELSE env[i]]
      found     == {i \in DOMAIN env : passed(i)}
      seen      == \E i \in found : env[i].name = LDLP
  IN  [options |-> {option(i) : i \in found} \cup (IF seen THEN {} ELSE {[do |-> "-U", var |-> Var(LDLP, Unset)]}),
       env     |-> [i \in DOMAIN env |-> IF passed(i) THEN Blank ELSE env[i]]]

(* add_host_ldso_paths: a directory of the host, as the guest names it.    *)
add_host_ldso_paths(dirs) == [i \in DOMAIN dirs |-> <<"host-rootfs", dirs[i]>>]

(* read_ldso_rpaths and the order of rebuild_host_ldso_paths.              *)
host_paths(f) ==
  LET c == ContentOf(f)
  IN  add_host_ldso_paths((IF c.runpath = <<>> THEN c.rpath ELSE <<>>) \o <<"initial">> \o c.runpath \o <<"lib">>)

(* rebuild_host_ldso_paths                                                 *)
rebuild_host_ldso_paths(f, env) ==
  LET new == Var(LDLP, host_paths(f))
      i   == IF \E k \in DOMAIN env : env[k].name = LDLP THEN CHOOSE k \in DOMAIN env : env[k].name = LDLP ELSE 0
  IN  [env   |-> IF i = 0 THEN Append(env, new) ELSE [env EXCEPT ![i] = new],
       guest |-> IF i # 0 /\ guest_ldso_paths = Unset THEN env[i].value ELSE guest_ldso_paths,
       host  |-> IF host_ldso_paths = Unset THEN new.value ELSE host_ldso_paths]

(* expand_runner for a program of the guest: the runner and its arguments, *)
(* then the program with its argv[0].  The options ldso_env_passthru puts  *)
(* before "-0" are kept apart.                                             *)
Runner(f, a) ==
  write_xpointees(resize_array_of_xpointers(a, 2, Len(Qemu) + 2), 1, Qemu \o <<"-0", read_xpointee(a[1]), f>>)

(* External: QEMU runs the program it is given with the environment its    *)
(* options make of its own.                                                *)
QemuRuns(args, options, env) ==
  LET kept == {v \in Vars(env) : \A o \in options : o.var.name # v.name}
      n    == Len(Qemu)
  IN  [argv |-> <<args[n + 2]>> \o SubSeq(args, n + 4, Len(args)), env |-> kept \cup {o.var : o \in {p \in options : p.do = "-E"}}]

(* A call that fails leaves the program as it runs.                        *)
Fails(status) == running' = [running EXCEPT !.status = status] /\ UNCHANGED <<logical, host_ldso_paths, guest_ldso_paths>>

(* translate_execve_enter, and the program that is run.                    *)
Exec(f, argv) ==
  LET sb      == expand_shebang(f, argv)
      host    == ContentOf(sb.file).kind = "host"
      passed  == ldso_env_passthru(running.env)
      rebuilt == rebuild_host_ldso_paths(IF host THEN sb.file ELSE Qemu[1], IF host THEN running.env ELSE passed.env)
  IN  /\ calls < MaxCalls /\ calls' = calls + 1
      /\ IF sb.status # "ok" THEN Fails(sb.status)
         ELSE IF ~host /\ Len(sb.argv) = 1 THEN Fails("abort")      \* assert(index < array->length)
         ELSE /\ host_ldso_paths' = rebuilt.host /\ guest_ldso_paths' = rebuilt.guest
              /\ LET seen == IF host THEN [argv |-> push_array_of_xpointers(sb.argv), env |-> Vars(rebuilt.env)]
                             ELSE QemuRuns(push_array_of_xpointers(Runner(sb.file, sb.argv)), passed.options, rebuilt.env)
                 IN running' = [file |-> f, host |-> host, argv |-> seen.argv, env |-> SetToSeq(seen.env), status |-> "ok",
                                called |-> argv]
              /\ UNCHANGED logical

(* The program changes its environment.                                    *)
Setenv(v) ==
  /\ calls < MaxCalls /\ calls' = calls + 1
  /\ "changed" \in Quirks \/ (~running.host /\ guest_ldso_paths = Unset)
  /\ logical' = Rebound(logical, LDLP, v) /\ running' = [running EXCEPT !.env = Rebound(@, LDLP, v)]
  /\ UNCHANGED <<host_ldso_paths, guest_ldso_paths>>

(* The program gives what it runs one more, or one less, variable.         *)
Preload ==
  LET Without(env) == SelectSeq(env, LAMBDA v : v.name # "LD_PRELOAD")
      Toggle(env)  == IF Len(Without(env)) < Len(env) THEN Without(env) ELSE Append(env, Var("LD_PRELOAD", <<>>))
  IN  /\ calls < MaxCalls /\ calls' = calls + 1
      /\ logical' = Toggle(logical) /\ running' = [running EXCEPT !.env = Toggle(@)]
      /\ UNCHANGED <<host_ldso_paths, guest_ldso_paths>>

Argvs == {<<"a0">>, <<"a0", "x">>} \cup (IF "empty" \in Quirks THEN {<<>>} ELSE {})
Next ==
  \/ \E f \in Files, argv \in Argvs : Exec(f, argv)
  \/ \E v \in Values : Setenv(v)
  \/ Preload
Spec == Init /\ [][Next]_vars

-----------------------------------------------------------------------------
(* What the kernel does with a script: "interpreter [optional-arg]         *)
(* filename arg...", once for each interpreter that is itself a script.    *)
KernelArgv(f, argv) ==
  LET Once(g, args) == LET c == ContentOf(g) IN <<c.interp>> \o (IF c.argument = "" THEN <<>> ELSE <<c.argument>>) \o <<g>> \o Tail(args)
      chain[i \in 0 .. MAXSYMLINKS] ==
        IF i = 0 THEN [file |-> f, argv |-> argv]
        ELSE LET s == chain[i - 1]
             IN  IF ContentOf(s.file).kind # "script" THEN s ELSE [file |-> ContentOf(s.file).interp, argv |-> Once(s.file, s.argv)]
  IN  chain[MAXSYMLINKS].argv

(* Whatever chain of programs of the host and of the guest has run it, and *)
(* through whatever scripts, a program has the arguments the kernel would  *)
(* have given it, a program of the guest has exactly the environment that  *)
(* the guest gave, and one of the host all of it but LD_LIBRARY_PATH.      *)
ArgsLikeLinux ==
  /\ running.status # "abort"
  /\ (running.status = "ok" /\ running.file # "init") => running.argv = KernelArgv(running.file, running.called)
  /\ IF running.host
     THEN {v \in Vars(running.env) : v.name # LDLP} = {v \in Vars(logical) : v.name # LDLP}
     ELSE Vars(running.env) = Vars(logical)
=============================================================================
