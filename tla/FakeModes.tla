------------------------------ MODULE FakeModes ------------------------------
(***************************************************************************)
(* extension/fake_id0/fake_id0.c, override_permissions: the power of root  *)
(* over permissions.  While a path is translated, each of its components   *)
(* that its real owner could not use is made usable; a node of the         *)
(* tracee's memory collector remembers the mode to put back, and           *)
(* get_tracee frees the collector at the tracee's next stop.               *)
(*                                                                         *)
(* A mode is the set of the owner's permissions.  want is history: the     *)
(* modes the guest gave.  Quirks: "concurrent" a tracee may enter a call   *)
(* while the modes another one changed are not put back yet; "rename".     *)
(***************************************************************************)
EXTENDS Naturals, Sequences

CONSTANTS Tracees,
          Files,    \* the files of the one directory
          Modes, MaxCalls, Quirks

VARIABLES mode, want,
          nodes,    \* ModifiedNode: what is to be put back, per tracee
          call,     \* the call a tracee is in
          seen, calls
vars == <<mode, want, nodes, call, seen, calls>>

Dir == "dir"
Gone == {"gone"}
AllPaths == Files \cup {Dir}
Idle == [do |-> "none", path |-> Dir, to |-> Dir, mode |-> {}]

Init ==
  /\ mode \in [AllPaths -> Modes \cup {{"r", "w", "x"}}] /\ want = mode
  /\ nodes = [t \in Tracees |-> <<>>] /\ call = [t \in Tracees |-> Idle]
  /\ seen = {} /\ calls = 0

-----------------------------------------------------------------------------
(* restore_mode: a destructor.  The last node is freed first, so that the  *)
(* first one of a path decides.                                            *)
restore_mode(old, node) == IF old = Gone THEN old ELSE node.mode
NodesOf(ns, p) == {i \in DOMAIN ns : ns[i].path = p}
Flushed(m, ns) ==
  [p \in AllPaths |-> IF NodesOf(ns, p) = {} THEN m[p]
                      ELSE restore_mode(m[p], ns[CHOOSE i \in NodesOf(ns, p) : \A j \in NodesOf(ns, p) : i <= j])]

Needed(p) == {"r", "w"} \cup (IF p = Dir THEN {"x"} ELSE {})

(* Fault: the mode found is always the one put back.                    *)
PutsBackFound(f, c, p, is_final) ==
  IF f.mode[p] = Gone \/ Needed(p) \subseteq f.mode[p] THEN f
  ELSE [mode |-> [f.mode EXCEPT ![p] = @ \cup Needed(p)], nodes |-> Append(f.nodes, [path |-> p, mode |-> f.mode[p]])]

(* f has the modes and the nodes so far, c is the call.                    *)
override_permissions(f, c, p, is_final) ==
  LET perms == f.mode[p]
  IN  IF perms = Gone \/ Needed(p) \subseteq perms \/ (is_final /\ c.do = "stat") THEN f
      ELSE [mode  |-> [f.mode EXCEPT ![p] = perms \cup Needed(p)],
            nodes |-> Append(f.nodes, [path |-> p, mode |-> IF is_final /\ c.do = "chmod" THEN c.mode ELSE perms])]

Translated(f, c, p) == override_permissions(override_permissions(f, c, Dir, FALSE), c, p, TRUE)

(* A tracee stops to enter a call: get_tracee frees what its last call     *)
(* left, then the paths of the call are translated.                        *)
Enter(t, c) ==
  /\ call[t] = Idle /\ calls < MaxCalls /\ calls' = calls + 1
  /\ "concurrent" \in Quirks \/ \A u \in Tracees \ {t} : call[u] = Idle /\ nodes[u] = <<>>
  /\ c.do = "rename" => "rename" \in Quirks
  /\ LET one == Translated([mode |-> Flushed(mode, nodes[t]), nodes |-> <<>>], c, c.path)
         all == IF c.do = "rename" THEN Translated(one, c, c.to) ELSE one
     IN  mode' = all.mode /\ nodes' = [nodes EXCEPT ![t] = all.nodes]
  /\ call' = [call EXCEPT ![t] = c]
  /\ UNCHANGED <<want, seen>>

(* The kernel performs the call, if the directory lets it in.              *)
Does(m, c) ==
  IF (m[c.path] = Gone) # (c.do = "creat") THEN m
  ELSE IF c.do \in {"chmod", "creat"} THEN [m EXCEPT ![c.path] = c.mode]
  ELSE IF c.do = "rename" /\ c.to # c.path THEN [m EXCEPT ![c.to] = m[c.path], ![c.path] = Gone]
  ELSE IF c.do = "unlink" THEN [m EXCEPT ![c.path] = Gone]
  ELSE m
Kernel(t) ==
  /\ call[t] # Idle
  /\ mode' = IF "x" \in mode[Dir] THEN Does(mode, call[t]) ELSE mode
  /\ want' = Does(want, call[t])
  /\ seen' = IF call[t].do = "stat" /\ mode[call[t].path] # want[call[t].path] THEN seen \cup {call[t].path} ELSE seen
  /\ call' = [call EXCEPT ![t] = Idle]
  /\ UNCHANGED <<nodes, calls>>

(* A stop that ends a call, when one was asked for, or any other stop.     *)
Stop(t) ==
  /\ call[t] = Idle /\ nodes[t] # <<>>
  /\ mode' = Flushed(mode, nodes[t]) /\ nodes' = [nodes EXCEPT ![t] = <<>>]
  /\ UNCHANGED <<want, call, seen, calls>>

Calls == {[do |-> d, path |-> f, to |-> f, mode |-> {}] : d \in {"open", "stat", "unlink"}, f \in Files}
         \cup {[do |-> "chmod", path |-> f, to |-> f, mode |-> m] : f \in Files, m \in Modes}
         \cup {[do |-> "rename", path |-> f, to |-> g, mode |-> {}] : f, g \in Files}
Created(f) == [do |-> "creat", path |-> f, to |-> f, mode |-> {"r", "w"}]

Next ==
  \E t \in Tracees :
    \/ \E c \in Calls : Enter(t, c)
    \/ \E f \in Files : mode[f] = Gone /\ Enter(t, Created(f))
    \/ Kernel(t) \/ Stop(t)

Spec == Init /\ [][Next]_vars

-----------------------------------------------------------------------------
(* When every tracee is stopped or idle, the modes are those the guest     *)
(* gave, whatever calls on unusable paths came before, and no call to stat *)
(* told it otherwise.                                                      *)
ModesAreTheGuests ==
  /\ (\A t \in Tracees : nodes[t] = <<>> /\ call[t] = Idle) => mode = want
  /\ seen = {}
=============================================================================
