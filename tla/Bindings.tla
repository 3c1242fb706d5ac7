------------------------------ MODULE Bindings ------------------------------
(***************************************************************************)
(* The life of the binding tables: the command line makes the first one,   *)
(* emulated mount, umount, pivot_root and chroot calls change them, clone  *)
(* shares or copies them, chdir reads them.                                *)
(***************************************************************************)
EXTENDS BindingTable, FiniteSets

CONSTANTS Procs,
          Startups,   \* sets of startup bindings: sequences of -b and -r options
          Args,       \* what guests name: [abs, path] records
          Missing,    \* guest directories that a read-only rootfs lacks
          MaxDepth, MaxBindings, MaxTmpfs,
          MaxCalls    \* bound on the calls other than clone

Glue == <<"glue">>
Proc == <<"proc">>
Tmpfs(n) == <<"tmp", n>>

VARIABLES guest, host,  \* per mount namespace, the two lists of bindings
          ns,           \* the namespace of each process, None before its birth
          fs,           \* the fs record (which holds cwd) of each process
          cwd,          \* of each fs record
          newns,        \* clone_stripped_newns
          tmpfs,        \* number of temporary directories made
          stale,        \* a binding already freed has been read
          calls         \* number of calls so far
vars == <<guest, host, ns, fs, cwd, newns, tmpfs, stale, calls>>

None == "none"
Live == {p \in Procs : ns[p] # None}

-----------------------------------------------------------------------------
(* The start: new_binding sorts the options, initialize_bindings installs  *)
(* them from the last one, which is "/".                                   *)
new_binding(pending, b) ==
  LET same == {i \in 1..Len(pending) : pending[i].guest = b.guest} IN
  IF same = {} THEN Insorted(pending, b, InGuest)
  ELSE [pending EXCEPT ![CHOOSE i \in same : TRUE] = b]

(* build_glue: where the rootfs lacks a directory on the way to the        *)
(* binding and cannot be changed, a temporary directory stands for it.     *)
build_glue(l, b) ==
  LET absent == {i \in 1..(Len(b.guest) - 1) :
                   LET p == SubSeq(b.guest, 1, i) IN
                   p \in Missing /\ get_guest_binding(l, p).guest = <<>>}
  IN  IF absent = {} THEN l
      ELSE LET i == CHOOSE i \in absent : \A j \in absent : i <= j IN
           insort_binding(l, Binding(Glue, SubSeq(b.guest, 1, i), FALSE))

initialize_binding(l, b) == insort_binding(build_glue(l, b), b)

NoBindings == [guest |-> <<>>, host |-> <<>>]
new_bindings(options) ==
  LET pending[i \in 0 .. Len(options)] ==
        IF i = 0 THEN <<>> ELSE new_binding(pending[i - 1], options[i])
  IN  pending[Len(options)]
initialize_bindings(pending) ==
  LET l[i \in 0 .. Len(pending)] ==
        IF i = 0 THEN NoBindings ELSE initialize_binding(l[i - 1], pending[Len(pending) + 1 - i])
  IN  l[Len(pending)]

Init == \E options \in Startups : LET first == CHOOSE p \in Procs : TRUE IN
  /\ LET l == initialize_bindings(new_bindings(options)) IN
     /\ guest = [n \in Procs |-> IF n = first THEN l.guest ELSE <<>>]
     /\ host = [n \in Procs |-> IF n = first THEN l.host ELSE <<>>]
  /\ ns = [p \in Procs |-> IF p = first THEN first ELSE None]
  /\ fs = ns /\ cwd = [p \in Procs |-> <<>>]
  /\ newns = [p \in Procs |-> FALSE] /\ tmpfs = 0 /\ stale = FALSE /\ calls = 0

-----------------------------------------------------------------------------
Lists(p) == [guest |-> guest[ns[p]], host |-> host[ns[p]]]
SetLists(n, l) == /\ Len(l.guest) <= MaxBindings
                  /\ guest' = [guest EXCEPT ![n] = l.guest]
                  /\ host' = [host EXCEPT ![n] = l.host]

(* An argument of a call: absolute, or relative to the current directory.  *)
canonicalize(p, a) == IF a.abs THEN a.path ELSE cwd[fs[p]] \o a.path
Short(path) == Len(path) <= MaxDepth
Call(p) == p \in Live /\ calls < MaxCalls /\ calls' = calls + 1

(* mount(2): MS_BIND, or a file-system PRoot has a stand-in for.  Others   *)
(* and MS_REMOUNT are ignored.                                             *)
emulate_mount(p, type, src, target) ==
  LET to == canonicalize(p, target)
      from == CASE type = "bind" -> translate(Lists(p), canonicalize(p, src))
                [] type = "proc" -> Proc
                [] type = "tmpfs" -> Tmpfs(tmpfs + 1)
  IN  /\ Call(p) /\ Short(from) /\ Short(to)
      /\ type = "tmpfs" => tmpfs < MaxTmpfs
      /\ tmpfs' = IF type = "tmpfs" THEN tmpfs + 1 ELSE tmpfs
      /\ SetLists(ns[p], insort_binding(Lists(p), Binding(from, to, FALSE)))
      /\ UNCHANGED <<ns, fs, cwd, newns, stale>>

(* umount(2): only a binding of exactly that path, never the root.         *)
emulate_umount(p, target) ==
  LET to == canonicalize(p, target)
      b == get_guest_binding(Lists(p), to)
  IN  /\ Call(p) /\ to # <<>> /\ b.guest = to
      /\ SetLists(ns[p], remove_binding_from_all_lists(Lists(p), b))
      /\ UNCHANGED <<ns, fs, cwd, newns, tmpfs, stale>>

(* pivot_root(2): the bindings below the new root move with it, the others *)
(* stay and are shown again under put_old.  The loop goes over a snapshot, *)
(* in which a binding that an insertion replaced may have been freed.      *)
Pivoted(s, b, new, after) ==
  LET gone == b \notin ToSet(s.l.guest)
      t == [s EXCEPT !.stale = @ \/ (gone /\ b.startup)]
      rebased == Binding(b.host, Substitute(b.guest, new, <<>>), FALSE)
      aliased == Binding(b.host, after \o b.guest, FALSE)
  IN  IF b.guest = <<>> THEN s
      ELSE IF new # <<>> /\ IsStrictPrefix(new, b.guest)
      THEN [t EXCEPT !.l = remove_binding_from_all_lists(insort_binding(@, rebased), b)]
      ELSE IF after # <<>> /\ ~IsPrefix(after, b.guest)
      THEN [t EXCEPT !.l = insort_binding(@, aliased)]
      ELSE t

pivot_bindings(first, snapshot, new, after) ==
  LET s[i \in 0 .. Len(snapshot)] ==
        IF i = 0 THEN first ELSE Pivoted(s[i - 1], snapshot[i], new, after)
  IN  s[Len(snapshot)]

emulate_pivot_root(p, new_root, put_old) ==
  LET l == Lists(p)
      new == canonicalize(p, new_root)
      old == IF put_old.abs THEN put_old.path ELSE new \o put_old.path
      after == IF IsStrictPrefix(new, old) THEN SubSeq(old, Len(new) + 1, Len(old)) ELSE <<>>
      root == Last(l.guest)
      switched == insort_binding(remove_binding_from_all_lists(l, root),
                                 Binding(translate(l, new), <<>>, FALSE))
      exposed == IF after = <<>> THEN switched
                 ELSE insort_binding(switched, Binding(root.host, after, FALSE))
      done == pivot_bindings([l |-> exposed, stale |-> stale], l.guest, new, after)
  IN  /\ Call(p)
      /\ \A b \in ToSet(done.l.guest) : Short(b.guest) /\ Short(b.host)
      /\ SetLists(ns[p], done.l) /\ stale' = done.stale
      /\ UNCHANGED <<ns, fs, cwd, newns, tmpfs>>

(* chdir(2): the directory is remembered as detranslation names it.        *)
chdir(p, target) ==
  LET to == canonicalize(p, target)
      d == detranslate_path(Lists(p), translate(Lists(p), to))
  IN  /\ Call(p) /\ Short(to) /\ d # NoPath /\ Short(d)
      /\ cwd' = [cwd EXCEPT ![fs[p]] = d]
      /\ UNCHANGED <<guest, host, ns, fs, newns, tmpfs, stale>>

(* The enter stage of clone(2): the flag survives a clone that fails.      *)
EnterClone(p) ==
  /\ p \in Live /\ ~newns[p]
  /\ newns' = [newns EXCEPT ![p] = TRUE]
  /\ UNCHANGED <<guest, host, ns, fs, cwd, tmpfs, stale, calls>>

(* new_child: the child shares the fs record, or has a copy of it with the *)
(* same lists, or with lists of its own if a namespace was asked for.      *)
copied_bindings(list) ==
  LET l[i \in 0 .. Len(list)] ==
        IF i = 0 THEN NoBindings
        ELSE insort_binding(l[i - 1], Binding(list[i].host, list[i].guest, FALSE))
  IN  l[Len(list)]
new_child(p, child, clone_fs) ==
  LET own == ~clone_fs /\ newns[p]
  IN  /\ p \in Live /\ child \notin Live
      /\ ns' = [ns EXCEPT ![child] = IF own THEN child ELSE ns[p]]
      /\ fs' = [fs EXCEPT ![child] = IF clone_fs THEN fs[p] ELSE child]
      /\ cwd' = IF clone_fs THEN cwd ELSE [cwd EXCEPT ![child] = cwd[fs[p]]]
      /\ IF own THEN SetLists(child, copied_bindings(guest[ns[p]])) ELSE UNCHANGED <<guest, host>>
      /\ newns' = [newns EXCEPT ![p] = FALSE]
      /\ UNCHANGED <<tmpfs, stale, calls>>

(* chroot(2) under fake_id0, after the kernel refused it: a fresh table    *)
(* with only the new root.  Which path is compared with the bindings is    *)
(* left to chance: path_guest was not set (unless a signal brought the     *)
(* call here), so that they may or may not be seen.                        *)
handle_chroot_exit_end(p, target, seen) ==
  LET l == Lists(p)
      to == canonicalize(p, target)
      root == translate(l, to)
      fresh == insort_binding(NoBindings, Binding(root, <<>>, TRUE))
      d == detranslate_path(fresh, translate(l, cwd[fs[p]]))
  IN  /\ Call(p) /\ Short(to) /\ root # get_root(l) /\ ~seen
      /\ \A q \in Live \ {p} : ns[q] # p /\ fs[q] # p   \* p names the new record
      /\ ns' = [ns EXCEPT ![p] = p] /\ fs' = [fs EXCEPT ![p] = p]
      /\ SetLists(p, fresh)
      /\ cwd' = [cwd EXCEPT ![p] = IF d = NoPath THEN <<>> ELSE d]
      /\ UNCHANGED <<newns, tmpfs, stale>>

Next == \E p \in Procs :
  \/ \E s, t \in Args : emulate_mount(p, "bind", s, t)
  \/ \E type \in {"proc", "tmpfs"}, t \in Args : emulate_mount(p, type, t, t)
  \/ \E t \in Args : emulate_umount(p, t) \/ chdir(p, t)
  \/ \E s, t \in Args : emulate_pivot_root(p, s, t)
  \/ EnterClone(p)
  \/ \E c \in Procs, x \in BOOLEAN : new_child(p, c, x)
  \/ \E t \in Args, x \in BOOLEAN : handle_chroot_exit_end(p, t, x)

Spec == Init /\ [][Next]_vars

-----------------------------------------------------------------------------
Namespaces == {ns[p] : p \in Live}
Table(n) == [guest |-> guest[n], host |-> host[n]]

(* Whatever guests mount, unmount and pivot, both lists hold the same      *)
(* bindings, none of them after one that contains it (the first match is   *)
(* the innermost), and the last guest path is "/", as get_root asserts.    *)
InnermostFirst ==
  \A n \in Namespaces :
    /\ ToSet(guest[n]) = ToSet(host[n]) /\ Len(guest[n]) = Len(host[n])
    /\ Last(guest[n]).guest = <<>>
    /\ \A i, j \in 1..Len(guest[n]) : i < j =>
         /\ ~IsPrefix(guest[n][i].guest, guest[n][j].guest)
         /\ ~IsStrictPrefix(host[n][i].host, host[n][j].host)

(* pivot_root's comment: it takes a snapshot because walking the list it   *)
(* changes "would be unsafe".  Every binding the loop reads still exists.  *)
SnapshotIsLive == ~stale
=============================================================================
