---------------------------- MODULE BindingTable ----------------------------
(***************************************************************************)
(* path/binding.c, path/path.c: the table that maps guest paths to host    *)
(* paths, a record of two lists, one searched by guest path (translation)  *)
(* and one by host path (detranslation).                                   *)
(*                                                                         *)
(* A path is the sequence of its components, <<>> is "/".  Every path is   *)
(* canonical here (module Paths canonicalizes).                            *)
(***************************************************************************)
EXTENDS Naturals, Sequences, SequencesExt

NoPath == <<"!">>

(* A binding; startup tells those of the command line, which nothing but   *)
(* the lists keeps alive.                                                  *)
Binding(h, g, s) == [host |-> h, guest |-> g, startup |-> s]

-----------------------------------------------------------------------------
(* substitute_path_prefix                                                  *)
Substitute(path, old, new) == new \o SubSeq(path, Len(old) + 1, Len(path))

(* insort_binding: after everything the new binding contains, or else at   *)
(* the head.  On the guest's side a binding of the same path is replaced.  *)
Insorted(list, b, Below(_, _)) ==
  LET inside == {i \in 1..Len(list) : Below(b, list[i])} IN
  InsertAt(list, IF inside = {} THEN 1
                 ELSE 1 + CHOOSE i \in inside : \A j \in inside : j <= i, b)
InGuest(b, c) == IsStrictPrefix(b.guest, c.guest)
InHost(b, c) == IsPrefix(b.host, c.host)

(* Fault: a binding that another one replaces stays on the host's list.    *)
KeepReplaced(l, b) ==
  LET old == {i \in 1..Len(l.guest) : l.guest[i].guest = b.guest} IN
  [guest |-> IF old = {} THEN Insorted(l.guest, b, InGuest)
             ELSE [l.guest EXCEPT ![CHOOSE i \in old : TRUE] = b],
   host |-> Insorted(l.host, b, InHost)]

insort_binding(l, b) ==
  LET old == {i \in 1..Len(l.guest) : l.guest[i].guest = b.guest}
      kept == IF old = {} THEN l.host
              ELSE RemoveFirst(l.host, l.guest[CHOOSE i \in old : TRUE])
  IN  [guest |-> IF old = {} THEN Insorted(l.guest, b, InGuest)
                 ELSE [l.guest EXCEPT ![CHOOSE i \in old : TRUE] = b],
       host |-> Insorted(kept, b, InHost)]

remove_binding_from_all_lists(l, b) ==
  [guest |-> RemoveFirst(l.guest, b), host |-> RemoveFirst(l.host, b)]

(* get_root, get_binding and substitute_binding on both sides, and the two *)
(* translations.  NoPath stands for the error; a binding that may be       *)
(* missing is a sequence of one or none.                                   *)
get_root(l) == Last(l.guest).host

belongs_to_guestfs(l, path) == IsPrefix(get_root(l), path)

get_guest_binding(l, path) == l.guest[SelectInSeq(l.guest, LAMBDA b : IsPrefix(b.guest, path))]

get_host_binding(l, path) ==
  LET first == SelectInSeq(l.host, LAMBDA b : IsPrefix(b.host, path)) IN
  IF first = 0 \/ (get_root(l) # <<>> /\ belongs_to_guestfs(l, path)) THEN <<>> ELSE <<l.host[first]>>

translate(l, path) ==
  LET b == get_guest_binding(l, path) IN Substitute(path, b.guest, b.host)

detranslate_path(l, path) ==
  LET found == get_host_binding(l, path) IN
  CASE found # <<>> -> Substitute(path, found[1].host, found[1].guest)
    [] found = <<>> /\ belongs_to_guestfs(l, path) -> Substitute(path, get_root(l), <<>>)
    [] OTHER -> NoPath
=============================================================================
