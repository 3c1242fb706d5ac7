---------------------------- MODULE Link2Symlink ----------------------------
(***************************************************************************)
(* extension/link2symlink: hard links made of symbolic links.  A file with *)
(* several names is moved to a "final" file whose name ends with the count *)
(* of its links; an "intermediate" symbolic link leads to it, and each     *)
(* name of the file is a symbolic link to the intermediate one.            *)
(*                                                                         *)
(* dir is the host's directory.  PRoot handles the enter stage of a call   *)
(* by a sequence of host calls (todo), any of which may fail; it may also  *)
(* be killed between two of them.  Then the kernel runs the tracee's call. *)
(***************************************************************************)
EXTENDS Naturals, Sequences, FiniteSets, Functions

CONSTANTS Names, Inodes, Guests,
          MaxSuffix, MaxCount,  \* bounds on the numbers in the names
          MaxFaults,            \* bound on the host calls that fail
          Quirks                \* what guests do beyond the simple case:
          \* "race"      a call begins before another's has ended
          \* "same"      rename of a name to itself
          \* "refused"   a rename the kernel refuses: its source is missing,
          \*             or it is RENAME_NOREPLACE over an existing name
          \* "procfd"    linkat from /proc/self/fd over an existing name
          \* "fault"     any host call fails, not only the first one and
          \*             the one that PRoot takes back

None == 0
ASSUME Link2SymlinkAssumption ==
  IsFiniteSet(Names) /\ None \notin Inodes \cup Guests /\ MaxSuffix \in Nat
NoCall == [nr |-> "none"]

VARIABLES dir,    \* host directory: entry -> what is there
          todo,   \* the host calls PRoot has still to do, in order
          undo,   \* those that it does if the last one of todo fails
          busy,   \* the guest whose call PRoot handles, or None
          call,   \* each guest's call
          faults, \* number of host calls that failed
          crashed,
          snap    \* observer's: what the guest saw when the call began
vars == <<dir, todo, undo, busy, call, faults, crashed, snap>>

(* Entries of the directory, and the files in it.                          *)
Name(n) == <<"name", n>>
Inter(k) == <<"inter", k>>
Final(k, c) == <<"final", k, c>>
File(i) == <<"file", i>>
IsInter(e) == e[1] = "inter"

Exists(e) == e \in DOMAIN dir
Without(e) == Restrict(dir, DOMAIN dir \ {e})
With(e, x) == [f \in DOMAIN dir \cup {e} |-> IF f = e THEN x ELSE dir[f]]

(* resolve_faked_hard_link: is n a faked hard link, and to which final?    *)
IsFaked(n) == Exists(Name(n)) /\ IsInter(dir[Name(n)]) /\ Exists(dir[Name(n)])
Through(n) == dir[dir[Name(n)]]

(* The file a name leads to, for every call but link, unlink and rename.   *)
translated_path(n) ==
  LET e == IF IsFaked(n) THEN Through(n) ELSE Name(n) IN
  IF Exists(e) /\ dir[e][1] = "file" THEN dir[e][2] ELSE None

(* The number of links stat reports: of a final, the number in its name.   *)
handle_sysexit_end(i) ==
  LET At == {e \in DOMAIN dir : dir[e] = File(i)} IN
  IF At = {} THEN 0
  ELSE LET e == CHOOSE x \in At : TRUE IN IF e[1] = "final" THEN e[3] ELSE 1

-----------------------------------------------------------------------------
(* The host calls.                                                         *)
Rename(from, to) == [do |-> "rename", at |-> from, to |-> to]
Symlink(to, at) == [do |-> "symlink", at |-> at, to |-> to]
L2sSymlink(to, at) == [do |-> "l2s_symlink", at |-> at, to |-> to]
Unlink(at) == [do |-> "unlink", at |-> at, to |-> at]

Possible(h) == IF h.do = "symlink" THEN ~Exists(h.at)
               ELSE h.do = "l2s_symlink" \/ Exists(h.at)
Done(h) ==
  CASE h.do = "rename" -> [e \in (DOMAIN dir \ {h.at}) \cup {h.to} |->
                             IF e = h.to THEN dir[h.at] ELSE dir[e]]
    [] h.do = "unlink" -> Without(h.at)
    [] OTHER -> With(h.at, h.to)

(* The first suffix that is free.                                          *)
Free(n) == {s \in 1..MaxSuffix : ~Exists(Inter(<<n, s>>)) /\ ~Exists(Final(<<n, s>>, 2))}
NewInter(n) == <<n, CHOOSE s \in Free(n) : \A r \in Free(n) : s <= r>>

(* Fault: the count in the name is left alone when a link goes.            *)
DecrementLast(n) ==
  IF ~IsFaked(n) THEN <<>>
  ELSE LET f == Through(n) k == f[2] IN
       IF f[3] > 1 THEN <<>> ELSE <<Unlink(Inter(k)), Unlink(f)>>

decrement_link_count(n) ==
  IF ~IsFaked(n) THEN <<>>
  ELSE LET f == Through(n)
           k == f[2]
           less == Final(k, f[3] - 1)
       IN  IF f[3] > 1
           THEN <<Rename(f, less), Unlink(Inter(k)), L2sSymlink(less, Inter(k))>>
           ELSE <<Unlink(Inter(k)), Unlink(f)>>

(* Fault: the links are made before the file is where they lead, and the   *)
(* name of the file is freed for them.                                     *)
LinkBeforeMove(old, new) ==
  IF IsFaked(old) THEN <<>>
  ELSE LET k == NewInter(old) IN
       <<Unlink(Name(old)), L2sSymlink(Final(k, 2), Inter(k)),
         Symlink(Inter(k), Name(old)), Symlink(Inter(k), Name(new))>>

(* move_and_symlink_path, and what it does if its last symlink fails.      *)
move_and_symlink_path(old, new) ==
  IF IsFaked(old)
  THEN LET f == Through(old)
           k == f[2]
           more == Final(k, f[3] + 1)
       IN  <<Rename(f, more), Unlink(Inter(k)), L2sSymlink(more, Inter(k)),
             Symlink(Inter(k), Name(new))>>
  ELSE LET k == NewInter(old) IN
       <<Rename(Name(old), Final(k, 2)), L2sSymlink(Final(k, 2), Inter(k)),
         Symlink(Inter(k), Name(old)), Symlink(Inter(k), Name(new))>>

(* Fault: the intermediate link is left leading to the larger count.       *)
UndoFinalOnly(old) ==
  IF IsFaked(old)
  THEN LET f == Through(old) IN <<Rename(Final(f[2], f[3] + 1), f)>>
  ELSE LET k == NewInter(old) IN
       <<Unlink(Name(old)), Rename(Final(k, 2), Name(old)), Unlink(Inter(k))>>

UndoLink(old) ==
  IF IsFaked(old)
  THEN LET f == Through(old)
           k == f[2]
           more == Final(k, f[3] + 1)
       IN  <<Rename(more, f), Unlink(Inter(k)), L2sSymlink(f, Inter(k))>>
  ELSE LET k == NewInter(old) IN
       <<Unlink(Name(old)), Rename(Final(k, 2), Name(old)), Unlink(Inter(k))>>

-----------------------------------------------------------------------------
View == [link |-> [n \in Names |-> translated_path(n)],
         nlink |-> [i \in Inodes |-> handle_sysexit_end(i)]]
Quiet == busy = None /\ \A g \in Guests : call[g] = NoCall

Init == /\ dir = [e \in {} |-> <<>>] /\ todo = <<>> /\ undo = <<>> /\ busy = None
        /\ call = [g \in Guests |-> NoCall]
        /\ faults = 0 /\ crashed = FALSE
        /\ snap = [link |-> [n \in Names |-> None], nlink |-> [i \in Inodes |-> 0]]

(* The enter stage of c begins; plan is what PRoot will do.  "kernel": the *)
(* kernel runs the call afterwards.                                        *)
Enter(g, c, plan, rollback) ==
  /\ ~crashed /\ busy = None /\ call[g] = NoCall
  /\ Quiet \/ "race" \in Quirks
  /\ call' = [call EXCEPT ![g] = c]
  /\ todo' = plan /\ undo' = rollback
  /\ busy' = IF plan = <<>> THEN None ELSE g
  /\ snap' = IF Quiet THEN View ELSE snap
  /\ UNCHANGED <<dir, faults, crashed>>

EnterLink(g, old, new) ==
  /\ Exists(Name(old)) /\ ~Exists(Name(new))
  /\ IF IsFaked(old) THEN Through(old)[3] < MaxCount ELSE Free(old) # {}
  /\ Enter(g, [nr |-> "link"], move_and_symlink_path(old, new), UndoLink(old))

EnterUnlink(g, n) ==
  Enter(g, [nr |-> "unlink", path |-> n], decrement_link_count(n), <<>>)

EnterRename(g, old, new, noreplace) ==
  /\ old = new => "same" \in Quirks
  /\ ~Exists(Name(old)) \/ (noreplace /\ Exists(Name(new))) => "refused" \in Quirks
  /\ Enter(g, [nr |-> "rename", from |-> old, path |-> new, noreplace |-> noreplace],
           decrement_link_count(new), <<>>)

(* handle_linkat_from_proc_fd: the file of a descriptor whose names are    *)
(* gone is copied under a name, which is unlinked first.                   *)
LinkFromProcFd(g, new, i) ==
  /\ ~crashed /\ Quiet /\ \A e \in DOMAIN dir : dir[e] # File(i)
  /\ Exists(Name(new)) => "procfd" \in Quirks
  /\ dir' = With(Name(new), File(i))
  /\ snap' = View
  /\ UNCHANGED <<todo, undo, busy, call, faults, crashed>>

(* The handler ends: the call has been emulated, or goes to the kernel.    *)
HostCall ==
  /\ ~crashed /\ todo # <<>> /\ Possible(Head(todo))
  /\ dir' = Done(Head(todo)) /\ todo' = Tail(todo)
  /\ busy' = IF Tail(todo) = <<>> THEN None ELSE busy
  /\ call' = IF Tail(todo) = <<>> /\ call[busy].nr \in {"link", "undo"}
             THEN [call EXCEPT ![busy] = NoCall] ELSE call
  /\ UNCHANGED <<undo, faults, crashed, snap>>

(* A host call fails and the guest's call with it: PRoot leaves things as  *)
(* they are, except when the name of a new link cannot be made.            *)
Undone == Len(todo) = 1 /\ call[busy].nr = "link"
HostCallFails ==
  /\ ~crashed /\ todo # <<>> /\ call[busy].nr # "undo"
  /\ \/ ~Possible(Head(todo)) /\ UNCHANGED faults
     \/ /\ faults < MaxFaults /\ faults' = faults + 1
        /\ Undone \/ View = snap \/ "fault" \in Quirks
  /\ IF Undone THEN /\ todo' = undo /\ call' = [call EXCEPT ![busy].nr = "undo"]
                    /\ UNCHANGED busy
     ELSE todo' = <<>> /\ call' = [call EXCEPT ![busy] = NoCall] /\ busy' = None
  /\ UNCHANGED <<dir, undo, crashed, snap>>

(* The kernel runs an unlink or a rename whose enter stage is over.        *)
KernelCall(g) ==
  LET c == call[g] IN
  /\ ~crashed /\ busy # g /\ c.nr \in {"unlink", "rename"}
  /\ dir' = CASE c.nr = "unlink" /\ Exists(Name(c.path)) -> Without(Name(c.path))
              [] c.nr = "rename" /\ Exists(Name(c.from))
                   /\ ~(c.noreplace /\ Exists(Name(c.path)))
                   -> Done(Rename(Name(c.from), Name(c.path)))
              [] OTHER -> dir
  /\ call' = [call EXCEPT ![g] = NoCall]
  /\ UNCHANGED <<todo, undo, busy, faults, crashed, snap>>

(* A guest makes a file; the kernel alone is concerned.                    *)
Create(n, i) ==
  /\ ~crashed /\ Quiet /\ ~Exists(Name(n)) /\ \A e \in DOMAIN dir : dir[e] # File(i)
  /\ dir' = With(Name(n), File(i)) /\ snap' = View
  /\ UNCHANGED <<todo, undo, busy, call, faults, crashed>>

(* PRoot is killed; its tracees die with it.                               *)
Crash == /\ ~crashed /\ ~Quiet /\ crashed' = TRUE
         /\ UNCHANGED <<dir, todo, undo, busy, call, faults, snap>>

Next == \/ \E n \in Names, i \in Inodes : Create(n, i)
        \/ \E g \in Guests, n \in Names : EnterUnlink(g, n)
        \/ \E g \in Guests, old, new \in Names : EnterLink(g, old, new)
        \/ \E g \in Guests, old, new \in Names, x \in BOOLEAN : EnterRename(g, old, new, x)
        \/ \E g \in Guests, n \in Names, i \in Inodes : LinkFromProcFd(g, n, i)
        \/ \E g \in Guests : KernelCall(g)
        \/ HostCall \/ HostCallFails \/ Crash

Spec == Init /\ [][Next]_vars

-----------------------------------------------------------------------------
(* The number in the name of a final file, which stat reports and the next *)
(* unlink counts down from, is the number of names that lead to it.        *)
CountIsLinks ==
  Quiet /\ ~crashed => \A e \in DOMAIN dir : e[1] = "final" =>
    e[3] = Cardinality({n \in Names : IsFaked(n) /\ Through(n) = e})

(* What guests see: the state between two calls.                           *)
Seen == IF Quiet THEN View ELSE snap

(* Whatever fails and whenever PRoot is killed, a file that keeps a name   *)
(* is still somewhere in the directory: decrement_link_count and           *)
(* move_and_symlink_path never drop the only way to it.                    *)
Removed == {call[g].path : g \in {h \in Guests : call[h].nr \in {"unlink", "rename"}}}
FileIsKept ==
  \A i \in Inodes : (\E n \in Names \ Removed : Seen.link[n] = i)
                      => \E e \in DOMAIN dir : dir[e] = File(i)

(* Guests see hard links: between two calls, the names, the files and the  *)
(* counts change as HardLinks allows.                                      *)
Abstract == INSTANCE HardLinks WITH link <- Seen.link, nlink <- Seen.nlink
ImplementsHardLinks == Abstract!Spec
=============================================================================
