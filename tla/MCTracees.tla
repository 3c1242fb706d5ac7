----------------------------- MODULE MCTracees -----------------------------
(* Small instances of Tracees: a debugger (1), its child (2) that may ask   *)
(* to be traced, and a process (3) that either of them may fork.            *)
EXTENDS Tracees

Wait(pid, nohang, bad) == [nr |-> "wait4", pid |-> pid, nohang |-> nohang, bad |-> bad]
Ptrace(request, pid) == [nr |-> "ptrace", request |-> request, pid |-> pid]
Fork_ == [nr |-> "fork"]
Plain == [nr |-> "plain"]

MCCalls == [p \in Procs |->
  CASE p = 1 -> {Fork_, Wait(-1, FALSE, FALSE), Wait(2, FALSE, TRUE)}
         \cup {Ptrace(r, 2) : r \in {"CONT", "SYSCALL", "SETOPTIONS", "DETACH", "ATTACH"}}
    [] p = 2 -> {Fork_, Ptrace("TRACEME", 1)}
    [] OTHER -> {}]
=============================================================================
