-------------------------- MODULE MCSyscallStops --------------------------
(* The hosts SyscallStops is checked on: both seccomp orders, with and      *)
(* without PRoot's filter, x86 and ARM64 (the avoider is cancelled) and ARM *)
(* (it is not), with outer policies that trap the avoider or not.           *)
EXTENDS SyscallStops

(* A kernel that evaluates seccomp first reports no stop at all for a       *)
(* trapped call; a newer one always looks at a changed call again.          *)
Plausible(e) == /\ e.trapexit => e.order = "new"
                /\ e.order = "new" => e.recheck

Hosts == {e \in EnvType : Plausible(e)}

(* PTRACE_TRACEME under a policy that traps the avoider, and restarts of a  *)
(* trapped call that are trapped again before an enter stop, are apart.     *)
MCHosts == {e \in Hosts : /\ e.traceme => ~e.trapvoid
                          /\ e.trapagain => e.order = "new"}
TracemeHosts == {e \in Hosts : e.traceme /\ e.order = "new" /\ ~e.trapagain}
=============================================================================
