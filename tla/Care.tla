--------------------------------- MODULE Care ---------------------------------
(***************************************************************************)
(* extension/care: what the tracees use of the file system is archived     *)
(* when it is seen first, so that the run can be reproduced.  A path is    *)
(* seen when a call that names it is translated, each of its directories   *)
(* with it, before the kernel runs the call; what a getdents returned is   *)
(* seen when it has returned, as a name without content.                   *)
(*                                                                         *)
(* Two names may be hard links of one file.  The content of a file is who  *)
(* wrote it and its size.  Quirks: "links" a file with two names is listed *)
(* before it is used, is volatile under one of them, or loses the one it   *)
(* was archived by; "unreadable" a file cannot be read until the guest has *)
(* changed its mode.  Limits beyond an int are a quirk of their own.       *)
(***************************************************************************)
EXTENDS Naturals, Integers, Sequences, SequencesExt, FiniteSets

CONSTANTS Tracees,
          Dirs, Files, Fifos, Names,  \* what there is at first, and the names that may be used
          Sizes,                      \* of each file
          Limits,                     \* the option -m, in MB
          MB, INT_RANGE,              \* the bytes of a MB, the number of values of an int
          Volatile,                   \* the sets of volatile paths that may be asked for
          MaxCalls, Quirks

VARIABLES inodes,       \* what each inode is
          names,        \* which inode each name is, 0 if none
          care,         \* the configuration of the extension, all the tracees share it
          limit,        \* options->max_size
          call,         \* the call of each tracee
          orig,         \* the names and the inodes before the run
          touched,      \* the names that calls have used, and those that were listed
          calls
vars == <<inodes, names, care, limit, call, orig, touched, calls>>

(* A name is a sequence of components.                                     *)
Ancestors(p) == {SubSeq(p, 1, n) : n \in 1 .. Len(p)}
Above(p, q) == p # q /\ p \in Ancestors(q)
Components(p) == [n \in 1 .. Len(p) |-> SubSeq(p, 1, n)]
Children(d) == {p \in Names : Len(p) = Len(d) + 1 /\ (d = <<>> \/ d \in Ancestors(p))}

NoCall == [op |-> "none", paths |-> <<>>]

Links(n, i) == {p \in DOMAIN n : n[p] = i}

(* generate_care: the limit is computed with ints.                         *)
Wrapped(n) == ((n + INT_RANGE \div 2) % INT_RANGE) - INT_RANGE \div 2
max_size == Wrapped(limit * MB)

Init ==
  /\ \E shared \in {TRUE, FALSE} :
       LET all == SetToSeq(Dirs \cup Files \cup Fifos)
           ino(p) == IF shared /\ p \in Files THEN CHOOSE i \in DOMAIN all : all[i] \in Files ELSE CHOOSE i \in DOMAIN all : all[i] = p
       IN  /\ names = [p \in Names |-> IF p \in Dirs \cup Files \cup Fifos THEN ino(p) ELSE 0]
           /\ \E size \in [DOMAIN all -> Sizes] : \E readable \in {TRUE} \cup (IF "unreadable" \in Quirks THEN {FALSE} ELSE {}) :
                inodes = [i \in DOMAIN all |->
                            [kind |-> CASE all[i] \in Dirs -> "dir" [] all[i] \in Files -> "file" [] OTHER -> "fifo",
                             by |-> "host", size |-> IF all[i] \in Files THEN size[i] ELSE 1, readable |-> all[i] \notin Files \/ readable]]
           /\ \A i \in DOMAIN all : all[i] \notin Files => inodes[i].size = 1
  /\ limit \in Limits
  /\ \E volatile \in Volatile :
       /\ "links" \notin Quirks => \A v \in volatile, p \in Files : v \in Ancestors(p) => Cardinality(Links(names, names[p])) = 1
       /\ care = [entries |-> {}, dentries |-> {}, volatile |-> volatile, archive |-> <<>>, linked |-> <<>>, ipc_are_volatile |-> TRUE]
  /\ call = [t \in Tracees |-> NoCall]
  /\ orig = [names |-> names, inodes |-> inodes]
  /\ touched = [used |-> {}, listed |-> {}] /\ calls = 0

-----------------------------------------------------------------------------
(* archive: an inode with several names is archived once, then as a link   *)
(* to the name it was archived by.  The last entry for a name is the one   *)
(* that is there once the archive is extracted.                            *)
Put(f, p, v) == [q \in DOMAIN f \cup {p} |-> IF q = p THEN v ELSE f[q]]
Archived(c, p, null) ==
  LET i == names[p]
      n == inodes[i]
      many == n.kind = "file" /\ Cardinality(Links(names, i)) > 1
      content == IF null \/ n.kind # "file" THEN "null" ELSE IF ~n.readable THEN "zeros" ELSE n.by
  IN  IF many /\ i \in DOMAIN c.linked
      THEN [c EXCEPT !.archive = Put(@, p, [kind |-> "link", content |-> "null", to |-> c.linked[i]])]
      ELSE [c EXCEPT !.archive = Put(@, p, [kind |-> n.kind, content |-> content, to |-> p]),
                     !.linked = IF many THEN Put(@, i, p) ELSE @]

(* handle_host_path                                                        *)
TooBig(p) == max_size >= 0 /\ inodes[names[p]].size > max_size
SeesAll(c, p, as_dentry) == p \in c.entries \cup c.dentries             \* Fault
Seen(c, p, as_dentry) == p \in c.entries \/ (as_dentry /\ p \in c.dentries)

handle_host_path(c, p, as_dentry) ==
  LET remembered == IF as_dentry THEN [c EXCEPT !.dentries = @ \cup {p}] ELSE [c EXCEPT !.entries = @ \cup {p}]
      null       == as_dentry \/ p \in c.volatile \/ TooBig(p)
  IN  CASE Seen(c, p, as_dentry)       -> c
        [] names[p] = 0                -> remembered       \* register_concealed_access
        [] inodes[names[p]].kind = "fifo" /\ c.ipc_are_volatile -> [remembered EXCEPT !.volatile = @ \cup {p}]
        [] \E v \in c.volatile : Above(v, p) -> remembered
        [] OTHER                       -> Archived(remembered, p, null)

(* canonicalize notifies HOST_PATH for each component.                     *)
Walk(c, p, as_dentry) == FoldLeft(LAMBDA d, q : handle_host_path(d, q, as_dentry), c, Components(p))

-----------------------------------------------------------------------------
(* A call that names paths is entered.                                     *)
Exists(p) == names[p] # 0
Enter(t, op, paths) ==
  /\ call[t] = NoCall /\ calls < MaxCalls /\ calls' = calls + 1
  /\ care' = FoldLeft(LAMBDA c, p : Walk(c, p, FALSE), care, paths)
  /\ call' = [call EXCEPT ![t] = [op |-> op, paths |-> paths]]
  /\ touched' = [touched EXCEPT !.used = @ \cup UNION {Ancestors(paths[i]) : i \in DOMAIN paths}]
  /\ UNCHANGED <<inodes, names, limit, orig>>

IsFile(p) == Exists(p) /\ inodes[names[p]].kind = "file"
Parent(p) == Front(p)
CanHold(p) == Parent(p) # <<>> => Exists(Parent(p))
(* Quirk "links": the name a shared file was archived by is not removed.   *)
Removable(p) == "links" \in Quirks \/ Cardinality(Links(names, names[p])) = 1

(* External: the kernel runs it.                                           *)
Kernel(t) ==
  LET p == call[t].paths[1]
      q == call[t].paths[Len(call[t].paths)]
  IN  /\ call[t] # NoCall
      /\ \/ /\ call[t].op = "write" /\ IsFile(p)
            /\ inodes' = [inodes EXCEPT ![names[p]].by = "guest"] /\ UNCHANGED names
         \/ /\ call[t].op = "write" /\ ~Exists(p) /\ CanHold(p)
            /\ inodes' = Append(inodes, [kind |-> "file", by |-> "guest", size |-> 1, readable |-> TRUE])
            /\ names' = [names EXCEPT ![p] = Len(inodes) + 1]
         \/ /\ call[t].op = "chmod" /\ IsFile(p)
            /\ inodes' = [inodes EXCEPT ![names[p]].readable = TRUE] /\ UNCHANGED names
         \/ /\ call[t].op = "unlink" /\ IsFile(p) /\ Removable(p)
            /\ names' = [names EXCEPT ![p] = 0] /\ UNCHANGED inodes
         \/ /\ call[t].op = "rename" /\ IsFile(p) /\ CanHold(q) /\ (Exists(q) => IsFile(q) /\ names[p] # names[q] /\ Removable(q)) /\ Removable(p)
            /\ names' = [names EXCEPT ![q] = names[p], ![p] = 0] /\ UNCHANGED inodes
         \/ UNCHANGED <<inodes, names>>         \* it failed, or only read
      /\ call' = [call EXCEPT ![t] = NoCall]
      /\ UNCHANGED <<care, limit, orig, touched, calls>>

(* A getdents has returned: handle_getdents.                               *)
Listable(p) == "links" \in Quirks \/ p \in care.entries \/ Cardinality(Links(names, names[p])) = 1
Getdents(t, d) ==
  /\ call[t] = NoCall /\ calls < MaxCalls /\ calls' = calls + 1
  /\ d # <<>> => (Exists(d) /\ d \in care.entries)         \* it was opened
  /\ LET listed == {p \in Children(d) : Exists(p)}
     IN  /\ \A p \in listed : Listable(p)
         /\ care' = FoldLeft(LAMBDA c, p : Walk(c, p, TRUE), care, SetToSeq(listed))
         /\ touched' = [touched EXCEPT !.listed = @ \cup listed]
  /\ UNCHANGED <<inodes, names, limit, call, orig>>

Ops == {"read", "write", "unlink"} \cup (IF "unreadable" \in Quirks THEN {"chmod"} ELSE {})
Next ==
  \E t \in Tracees :
    \/ \E op \in Ops, p \in Names : Enter(t, op, <<p>>)
    \/ \E p, q \in Names \ (Dirs \cup Fifos) : p # q /\ Enter(t, "rename", <<p, q>>)
    \/ Kernel(t)
    \/ \E d \in Dirs \cup {<<>>} : Getdents(t, d)

Spec == Init /\ [][Next]_vars

-----------------------------------------------------------------------------
OrigKind(p) == IF orig.names[p] = 0 THEN "none" ELSE orig.inodes[orig.names[p]].kind
IsVolatile(p) == \E v \in care.volatile : v = p \/ Above(v, p)
Within(p) == limit < 0 \/ orig.inodes[orig.names[p]].size <= limit * MB
Extracted(p) == care.archive[care.archive[p].to]

(* The root file system of the archive is the one before the run: a name a *)
(* call has used is archived as what it was then, a regular file with the  *)
(* content it had before anything was written to it, unless it is volatile *)
(* or larger than the limit; a name the guest made is not in it; a name it *)
(* has listed is.                                                          *)
ReproducesTheOriginal ==
  /\ \A p \in touched.used :
       /\ OrigKind(p) = "none" => p \notin DOMAIN care.archive
       /\ OrigKind(p) # "none" /\ ~IsVolatile(p) => /\ p \in DOMAIN care.archive
                                                    /\ Extracted(p).kind = OrigKind(p)
       /\ OrigKind(p) = "file" /\ ~IsVolatile(p) /\ Within(p) => Extracted(p).content = "host"
  /\ \A p \in touched.listed : OrigKind(p) # "none" /\ ~IsVolatile(p) => p \in DOMAIN care.archive
=============================================================================
