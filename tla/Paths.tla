-------------------------------- MODULE Paths --------------------------------
(***************************************************************************)
(* path/path.c translate_path, path/canon.c canonicalize, path/proc.c: how *)
(* the path of a system call is resolved from the guest's point of view,   *)
(* component by component, symbolic links followed by recursion.  Between  *)
(* two components other processes may change the file system.              *)
(*                                                                         *)
(* tree maps a host path to its node; a path the guest writes, or a link   *)
(* holds, is [abs, names, slash].  gp is guest_path; frames is the stack   *)
(* of canonicalize's activations, innermost first.                         *)
(***************************************************************************)
EXTENDS BindingTable

CONSTANTS Tables,       \* the bindings a tracee may have
          Pid, Cwd,     \* its name under /proc and its working directory
          Trees,        \* the file systems the guest may see
          Requests,     \* the calls: [base, path, deref]
          MAXSYMLINKS,
          Swapped(_), MaxChanges  \* what other processes make of a file system

VARIABLES lists, tree, request, frames, gp, outcome, changes
vars == <<lists, tree, request, frames, gp, outcome, changes>>

Absent == [kind |-> "none"]
Node(host) == IF host \in DOMAIN tree THEN tree[host] ELSE Absent
At(guest) == Node(translate(lists, guest))

Path(abs, names, slash) == [abs |-> abs, names |-> names, slash |-> slash]
Proc == <<"proc">>
Numbers == {"1", "3"}

-----------------------------------------------------------------------------
(* readlink_proc: links of /proc that PRoot answers itself.                *)
readlink_proc(base, name) ==
  LET own == IF IsPrefix(<<"proc", "self">>, base)
             THEN <<"proc", Pid>> \o SubSeq(base, 3, Len(base)) ELSE base
  IN  CASE base = Proc /\ name = "self" -> [do |-> "canon", to |-> <<"proc", Pid>>]
        [] own = <<"proc", Pid>> /\ name = "cwd" -> [do |-> "canon", to |-> Cwd]
        [] own = <<"proc", Pid>> /\ name = "root" -> [do |-> "canon", to |-> get_root(lists)]
        [] own = <<"proc", Pid, "fd">> -> [do |-> "keep", to |-> Append(own, name)]
        [] OTHER -> [do |-> "default"]

(* detranslate_path with the link's own place: what an absolute target     *)
(* means to the guest.                                                     *)
TargetOf(to, referrer) ==
  LET seen == get_host_binding(lists, to.names)
      own == get_host_binding(lists, referrer)
      magic == readlink_proc(Front(referrer), Last(referrer))
      bound == \/ IsStrictPrefix(Proc, referrer)
               \/ /\ ~belongs_to_guestfs(lists, referrer)
                  /\ seen # <<>>
                  /\ own[1].host = seen[1].host
  IN  CASE ~to.abs -> to
        [] to.abs /\ IsStrictPrefix(Proc, referrer) /\ magic.do = "canon" ->
             [to EXCEPT !.names = magic.to]
        [] to.abs /\ bound /\ seen # <<>> ->
             [to EXCEPT !.names = Substitute(@, seen[1].host, seen[1].guest)]
        [] to.abs /\ belongs_to_guestfs(lists, to.names) ->
             [to EXCEPT !.names = Substitute(@, get_root(lists), <<>>)]
        [] OTHER -> to

-----------------------------------------------------------------------------
(* canonicalize: a new activation, with the base of a relative path in gp. *)
Frame(path, deref, level) ==
  [rest |-> path.names, slash |-> path.slash, deref |-> deref, level |-> level,
   followed |-> 0, fin |-> IF path.names = <<>> THEN "normal" ELSE "no"]

top == Head(frames)
name == Head(top.rest)
last == Len(top.rest) = 1
finality == IF ~last THEN "no" ELSE IF top.slash THEN "slash" ELSE "normal"
Advance(fin) ==
  frames' = <<[top EXCEPT !.rest = Tail(@), !.fin = fin]>> \o Tail(frames)
Fail(e) == outcome' = e /\ UNCHANGED <<frames, gp>>

Running == outcome = "run" /\ frames # <<>> /\ top.fin = "no" /\ UNCHANGED <<lists, tree, request, changes>>

(* Fault: "." is skipped before the cursor is advanced.                    *)
DotStuck == Running /\ name = "." /\ UNCHANGED <<frames, gp, outcome>>

Dot ==
  /\ Running /\ name = "."
  /\ Advance(IF last THEN "dot" ELSE "no")
  /\ UNCHANGED <<gp, outcome>>

DotDot ==
  /\ Running /\ name = ".."
  /\ gp' = IF gp = <<>> THEN gp ELSE Front(gp)
  /\ Advance(IF last THEN "slash" ELSE "no")
  /\ UNCHANGED outcome

Real == Running /\ name \notin {".", ".."}
here == Append(gp, name)

(* substitute_binding_stat: only a directory or a link may have a suffix.  *)
NotThrough(guest, fin) == fin = "no" /\ At(guest).kind \notin {"dir", "link"}
Errno(guest) == IF At(guest).kind = "none" THEN "ENOENT" ELSE "ENOTDIR"

CannotCross == Real /\ NotThrough(here, finality) /\ Fail(Errno(here))

(* Fault: the last link is followed whatever the call asked for.           *)
AlwaysFollowed == At(here).kind = "link"
Followed == At(here).kind = "link" /\ (finality = "normal" => top.deref)

Plain ==
  /\ Real /\ ~NotThrough(here, finality) /\ ~Followed
  /\ gp' = here
  /\ Advance(finality)
  /\ UNCHANGED outcome

(* /proc seen through a binding (proc_base).                               *)
ProcBase == IF IsPrefix(Proc, gp) THEN gp ELSE translate(lists, gp)
Magic ==
  IF IsPrefix(Proc, ProcBase) THEN readlink_proc(ProcBase, name) ELSE [do |-> "default"]

NamedFd ==
  /\ Real /\ Followed /\ Magic.do = "keep" /\ finality = "normal"
  /\ gp' = Magic.to
  /\ Advance("normal")
  /\ UNCHANGED outcome

FollowLink ==
  /\ Real /\ Followed /\ ~(Magic.do = "keep" /\ finality = "normal")
  /\ \E magic \in {Magic}, place \in {translate(lists, here)} :
     \E to \in {IF magic.do = "canon" THEN Path(TRUE, magic.to, FALSE)
                ELSE TargetOf(tree[place].to, place)} :
     LET level == top.level + top.followed + 1 IN
     IF level > MAXSYMLINKS THEN Fail("ELOOP")
     ELSE /\ gp' = IF to.abs THEN <<>> ELSE gp
          /\ frames' = <<Frame(to, TRUE, level),
                         [top EXCEPT !.rest = Tail(@), !.fin = finality,
                                     !.followed = @ + 1]>> \o Tail(frames)
          /\ UNCHANGED outcome

(* A nested activation ends: the caller checks what it led to, and asserts *)
(* that it is not a link, but for a named file descriptor.                 *)
IsNamedFd(guest) == Len(guest) = 4 /\ guest[1] = "proc" /\ guest[3] = "fd"
Return ==
  /\ outcome = "run" /\ Len(frames) > 1 /\ top.fin # "no"
  /\ LET caller == frames[2].fin IN
     CASE NotThrough(gp, caller) -> Fail(Errno(gp))
       [] At(gp).kind = "link" /\ ~IsNamedFd(gp) -> Fail("abort")
       [] OTHER -> frames' = Tail(frames) /\ UNCHANGED <<gp, outcome>>
  /\ UNCHANGED <<lists, tree, request, changes>>

(* The end of translate_path; the ending of the path is kept.              *)
Resolved ==
  /\ outcome = "run" /\ Len(frames) = 1 /\ top.fin # "no"
  /\ outcome' = top.fin /\ UNCHANGED <<lists, tree, request, frames, gp, changes>>

(* translate_path: the base is "/", the working directory, or what the     *)
(* kernel says of a descriptor.                                            *)
BaseOf(r) ==
  CASE r.path.abs -> <<>>
    [] ~r.path.abs /\ r.base = NoPath -> Cwd
    [] OTHER -> detranslate_path(lists, r.base)
translate_path ==
  /\ outcome = "start"
  /\ IF BaseOf(request) = NoPath THEN outcome' = "EPERM" /\ UNCHANGED frames
     ELSE /\ outcome' = "run"
          /\ frames' = <<Frame([request.path EXCEPT !.names = BaseOf(request) \o @],
                               request.deref, 0)>>
  /\ gp' = <<>> /\ UNCHANGED <<lists, tree, request, changes>>

(* Between two components another process puts a link in place of          *)
(* something, or something in place of a link.                             *)
Change ==
  /\ outcome = "run" /\ changes < MaxChanges
  /\ tree' \in Swapped(tree) /\ changes' = changes + 1
  /\ UNCHANGED <<lists, request, frames, gp, outcome>>

Init ==
  /\ lists \in Tables /\ tree \in Trees /\ request \in Requests
  /\ frames = <<>> /\ gp = <<>> /\ outcome = "start" /\ changes = 0

Step == \/ translate_path \/ Dot \/ DotDot \/ CannotCross \/ Plain
        \/ NamedFd \/ FollowLink \/ Return \/ Resolved
Next == Step \/ Change
Spec == Init /\ [][Next]_vars /\ WF_vars(Step)

-----------------------------------------------------------------------------
(* The kernel's walk, links replaced in place by what they hold.           *)
KernelStep(w, i) ==
  LET n == Head(w.rest)
      node == At(Append(w.at, n))
      final == Len(w.rest) = 1
      fd == Len(w.at) = 3 /\ IsNamedFd(Append(w.at, n))
      follow == /\ node.kind = "link"
                /\ ~final \/ w.slash \/ (w.deref /\ ~fd)
      to == TargetOf(node.to, translate(lists, Append(w.at, n)))
      short == [w EXCEPT !.rest = Tail(@)]
  IN  CASE w.rest = <<>> \/ w.err # "none" -> w
        [] w.rest # <<>> /\ n = "." -> [short EXCEPT !.slash = @ \/ final]
        [] w.rest # <<>> /\ n = ".." ->
             [short EXCEPT !.at = IF @ = <<>> THEN @ ELSE Front(@)]
        [] OTHER ->
             CASE follow /\ w.links = MAXSYMLINKS -> [w EXCEPT !.err = "ELOOP"]
               [] follow /\ w.links < MAXSYMLINKS ->
                    [w EXCEPT !.rest = to.names \o Tail(@), !.links = @ + 1,
                              !.slash = @ \/ (final /\ to.slash),
                              !.at = IF to.abs THEN <<>> ELSE @]
               [] ~follow /\ ~final /\ node.kind # "dir" ->
                    [w EXCEPT !.err = IF node.kind = "none" THEN "ENOENT" ELSE "ENOTDIR"]
               [] OTHER -> [short EXCEPT !.at = Append(@, n)]

Kernel ==
  FoldLeft(KernelStep,
           [at |-> <<>>, rest |-> BaseOf(request) \o request.path.names,
            slash |-> request.path.slash, deref |-> request.deref,
            links |-> 0, err |-> "none"],
           [i \in 1..(6 * (MAXSYMLINKS + 2)) |-> i])

(* While the files stay as they are, the guest gets the error of the       *)
(* kernel (unless that gives up on the number of links), or the path the   *)
(* kernel's own walk reaches where the bindings are mounts, with a last    *)
(* link followed only if the call follows it and a directory asked for     *)
(* where the path asks for one: canonicalize with its recursion, its two   *)
(* checks of what a component is and its treatment of bindings and of      *)
(* /proc resolves as the kernel does, and its assertion that what a link   *)
(* leads to is no link holds.                                              *)
ResolvesLikeKernel ==
  changes = 0 /\ outcome \notin {"start", "run", "EPERM"} =>
    LET k == Kernel IN
    IF outcome \in {"normal", "slash", "dot"}
    THEN \/ k.err = "ELOOP"
         \/ /\ k.err = "none" /\ k.rest = <<>> /\ k.at = gp
            /\ k.slash => outcome # "normal" \/ At(gp).kind = "dir"
    ELSE k.err \in {outcome, "ELOOP"}

(* Whatever the links, circular ones included, and however other processes *)
(* change them meanwhile, the resolution ends: each step consumes a        *)
(* component and each link raises the recursion level.                     *)
Ended == outcome \notin {"start", "run"}
Terminates == <>Ended
=============================================================================
