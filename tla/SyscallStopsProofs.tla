------------------------- MODULE SyscallStopsProofs -------------------------
(***************************************************************************)
(* PRoot's count of the stops of a tracee is right on every host that      *)
(* Covered describes, for any set of them and any length of a chain.       *)
(*                                                                         *)
(* The three properties are not inductive: whether the next stop is the    *)
(* one PRoot expects depends on what it asked for when it last restarted   *)
(* the tracee, on the kernel's order of seccomp and ptrace stops, and on   *)
(* what is chained or restarted after the call.  The invariant says, for   *)
(* each place a tracee can be stopped at, what PRoot remembers there.      *)
(***************************************************************************)
EXTENDS SyscallStops, TLAPS

(* The hosts of the theorems.  A kernel that evaluates seccomp first       *)
(* reports no stop for a trapped call; PTRACE_TRACEME under a policy that  *)
(* traps the avoider is the host of the run that fails, and a call that is *)
(* trapped again before its enter stop is not covered.                     *)
Covered ==
  \A e \in Environments : /\ e.trapexit => e.order = "new"
                          /\ e.traceme => ~e.trapvoid
                          /\ e.trapagain => e.order = "new"

-----------------------------------------------------------------------------
Requests == {"0", "CONT", "SYSCALL"}
TraceeType ==
  [status : {-1, 0, 1}, restart_how : Requests, last_restart_how : Requests,
   seccomp : {"DISABLED", "ENABLED", "DISABLING"}, sysexit_pending : BOOLEAN,
   already_handled_enter : BOOLEAN, skip_next_seccomp_signal : BOOLEAN,
   voided_cancelled : BOOLEAN, chain : {NULL, 0, 1}, rewrite : BOOLEAN,
   suppressed_signal : BOOLEAN, detected : BOOLEAN, after : BOOLEAN,
   failed : {"none", "event.c:630", "event.c:631", "event.c:680", "event.c:684"}]
CallType ==
  [src : {"guest", "chained", "restarted"},
   class : {"plain", "enter", "exit", "traceme", "trapped"}, nr : {"own", "void"},
   res : {"kernel", "rolled_back", "faked", "emulated"},
   enters : {0, 1}, exits : {0, 1}, fake : BOOLEAN, need : BOOLEAN]
KernelType ==
  [at : {"user", "stop_signal", "stop_enter", "stop_seccomp", "running",
         "stop_event", "stop_exit", "stop_sigsys"},
   next : {"guest", "chained", "restarted"}, sigsys : BOOLEAN, call : CallType]

TypesPart ==
  /\ env \in Environments /\ tr \in TraceeType /\ k \in KernelType
  /\ tr.failed = "none" /\ tr.seccomp # "DISABLING" /\ tr.chain \in {NULL, 0}
  /\ tr.last_restart_how # "0" /\ tr.restart_how = "0"

Between == k.at \in {"user", "stop_signal"}

(* What PRoot has found out of its host.  Until the first SECCOMP stop     *)
(* under a filter, only execves that PRoot refused or answered ran.        *)
HostPart ==
  /\ tr.detected => env.filter /\ (tr.after <=> env.order = "new")
  /\ tr.seccomp = "ENABLED" => tr.detected
  /\ env.filter /\ ~tr.detected =>
       /\ ~tr.rewrite
       /\ env.order = "old" =>
            /\ k.at \in {"user", "stop_signal", "stop_seccomp"}
            /\ tr.chain = NULL /\ IsInSysenter(tr) /\ ~tr.sysexit_pending
       /\ ~Between => k.call.class = "exit"
       /\ k.at \in {"running", "stop_event", "stop_exit", "stop_sigsys"} => k.call.nr = "void"

(* A tracee that runs under PTRACE_CONT owes PRoot nothing; the one whose  *)
(* signal is held back will not be restarted that way.                     *)
RequestPart ==
  /\ tr.last_restart_how = "CONT" =>
       /\ tr.seccomp = "ENABLED" /\ IsInSysenter(tr) /\ tr.chain = NULL
       /\ ~tr.rewrite /\ ~tr.suppressed_signal /\ ~tr.sysexit_pending
  /\ tr.suppressed_signal /\ (tr.seccomp = "ENABLED" \/ (env.filter /\ ~tr.detected)) =>
       tr.sysexit_pending \/ tr.rewrite \/ tr.chain # NULL

(* Between two calls: what follows is chained or restarted exactly if      *)
(* PRoot remembers that.                                                   *)
BetweenPart ==
  Between =>
    /\ IsInSysenter(tr) /\ ~tr.already_handled_enter
    /\ ~tr.skip_next_seccomp_signal /\ ~k.sigsys
    /\ k.next = "chained" <=> tr.chain # NULL
    /\ tr.rewrite => k.next # "guest"
    /\ k.next = "restarted" => tr.rewrite

(* In a call: the same of the call itself, until its exit stage.           *)
NotExited == ~Between /\ k.at # "stop_sigsys" => k.call.exits = 0
Follows ==
  ~Between /\ k.call.exits = 0 =>
    /\ k.next = "guest"
    /\ k.call.src = "chained" <=> tr.chain # NULL
    /\ tr.rewrite => k.call.src # "guest"
    /\ k.call.src = "restarted" => tr.rewrite
NotEntered ==
  ~Between /\ k.call.enters = 0 => k.call.nr = "own" /\ ~k.call.need /\ IsInSysenter(tr)
Voided ==
  /\ k.call.fake <=> k.call.nr = "void"
  /\ k.call.nr = "void" =>
       k.call.class # "plain" /\ k.call.src # "chained" /\ k.call.enters = 1
Origin ==
  /\ k.call.class = "traceme" => env.traceme /\ k.call.src = "guest"
  /\ k.call.class = "trapped" =>
       /\ k.call.src # "chained"
       /\ k.call.src = "restarted" => env.order = "new"
CallPart == NotExited /\ Follows /\ NotEntered /\ Voided /\ Origin

(* Which stage PRoot believes the tracee to be in, stop by stop.           *)
AtEnter ==
  k.at = "stop_enter" =>
    /\ IsInSysenter(tr) <=> ~tr.already_handled_enter
    /\ IsInSysenter(tr) <=> k.call.enters = 0
    /\ tr.last_restart_how = "SYSCALL" /\ ~k.sigsys
AtExit == k.at = "stop_exit" => ~IsInSysenter(tr) /\ ~tr.already_handled_enter
Running ==
  k.at \in {"running", "stop_event"} =>
    /\ IsInSysenter(tr) <=> tr.last_restart_how = "CONT"
    /\ ~tr.already_handled_enter /\ ~k.sigsys
    /\ k.call.class \in {"enter", "exit"} => k.call.enters = 1
AtSeccomp ==
  k.at = "stop_seccomp" =>
    /\ env.filter /\ k.call.class \in {"enter", "exit", "traceme"} /\ k.call.nr = "own"
    /\ IsInSysenter(tr) <=> k.call.enters = 0
    /\ IsInSysenter(tr) <=> (env.order = "old" \/ tr.last_restart_how = "CONT")
    /\ ~tr.already_handled_enter /\ ~k.sigsys
AtEvent ==
  k.at = "stop_event" =>
    /\ k.call.class \in {"enter", "exit"} /\ k.call.src = "guest" /\ k.call.nr = "own"
    /\ k.call.class = "enter" => ~k.call.need
HandledEnter ==
  tr.already_handled_enter =>
    /\ env.order = "old" /\ tr.seccomp = "ENABLED" /\ k.call.class = "enter"
    /\ k.at \in {"stop_enter", "stop_sigsys"}
    /\ k.call.need \/ k.call.nr = "void"
    /\ ~tr.suppressed_signal /\ ~tr.rewrite /\ tr.chain = NULL
StagePart == AtEnter /\ AtExit /\ Running /\ AtSeccomp /\ AtEvent /\ HandledEnter

(* A call that is trapped with SIGSYS: the avoider, or a call of the class *)
(* the outer policy refuses; its exit stage was seen, is to come, or was   *)
(* never asked for.                                                        *)
SkipNext ==
  tr.skip_next_seccomp_signal =>
    /\ k.at \in {"running", "stop_exit", "stop_sigsys"}
    /\ k.call.nr = "void" /\ tr.last_restart_how = "SYSCALL"
TrappedCall ==
  /\ k.sigsys => k.at = "stop_exit" /\ env.trapexit
  /\ k.sigsys \/ k.at = "stop_sigsys" =>
       /\ k.call.class \in {"enter", "exit", "trapped"} /\ k.call.src # "chained"
       /\ k.call.nr = "void" \/ (k.call.class = "trapped" /\ k.call.res = "rolled_back")
       /\ tr.suppressed_signal /\ tr.seccomp = "ENABLED" /\ ~IsInSysenter(tr) =>
            tr.sysexit_pending
AtSigsys ==
  k.at = "stop_sigsys" =>
    /\ k.next # "restarted" /\ ~k.sigsys
    /\ k.next = "guest" <=> tr.chain = NULL
    /\ k.call.exits = 1 => IsInSysenter(tr)
    /\ k.call.nr = "own" => k.next = "guest"
    /\ tr.rewrite /\ IsInSysenter(tr) => k.next # "guest" /\ k.call.exits = 1
TrapPart == SkipNext /\ TrappedCall /\ AtSigsys

(* What PRoot owes the guest at the exit of the call.                      *)
ExitAsked ==
  /\ ~Between /\ tr.seccomp = "ENABLED" /\ ~IsInSysenter(tr) /\ k.call.class = "enter"
       /\ ~k.call.need /\ k.call.nr = "own" /\ k.call.src = "guest" => tr.sysexit_pending
  /\ k.call.need /\ IsInSysenter(tr) => k.call.exits = 1
FakeKept ==
  /\ k.at = "running" /\ k.call.nr = "void" /\ tr.last_restart_how = "CONT" => env.cancels
  /\ k.call.fake /\ k.call.res # "faked" =>
       ~Between /\ ~IsInSysenter(tr) /\ tr.chain = NULL
ResultPart == ExitAsked /\ FakeKept

Inv == /\ TypesPart /\ HostPart /\ RequestPart /\ BetweenPart
       /\ CallPart /\ StagePart /\ TrapPart /\ ResultPart

(* The parts other than the types.                                         *)
Coherent == /\ HostPart /\ RequestPart /\ BetweenPart
            /\ CallPart /\ StagePart /\ TrapPart /\ ResultPart

-----------------------------------------------------------------------------
(* The fields of the records, one by one.                                  *)
TraceeFields(t) ==
  /\ t.status \in {-1, 0, 1} /\ t.restart_how \in Requests /\ t.last_restart_how \in Requests
  /\ t.seccomp \in {"DISABLED", "ENABLED", "DISABLING"}
  /\ t.sysexit_pending \in BOOLEAN /\ t.already_handled_enter \in BOOLEAN
  /\ t.skip_next_seccomp_signal \in BOOLEAN /\ t.voided_cancelled \in BOOLEAN
  /\ t.chain \in {NULL, 0, 1} /\ t.rewrite \in BOOLEAN /\ t.suppressed_signal \in BOOLEAN
  /\ t.detected \in BOOLEAN /\ t.after \in BOOLEAN
CallFields(c) ==
  /\ c.src \in {"guest", "chained", "restarted"}
  /\ c.class \in {"plain", "enter", "exit", "traceme", "trapped"} /\ c.nr \in {"own", "void"}
  /\ c.res \in {"kernel", "rolled_back", "faked", "emulated"}
  /\ c.enters \in {0, 1} /\ c.exits \in {0, 1} /\ c.fake \in BOOLEAN /\ c.need \in BOOLEAN
Places == {"user", "stop_signal", "stop_enter", "stop_seccomp", "running",
           "stop_event", "stop_exit", "stop_sigsys"}
HostFields(e) ==
  /\ e.order \in {"new", "old"} /\ e.filter \in BOOLEAN /\ e.cancels \in BOOLEAN
  /\ e.recheck \in BOOLEAN /\ e.trapvoid \in BOOLEAN /\ e.trapexit \in BOOLEAN
  /\ e.trapagain \in BOOLEAN /\ e.traceme \in BOOLEAN
  /\ e.trapexit => e.order = "new"
  /\ e.traceme => ~e.trapvoid
  /\ e.trapagain => e.order = "new"
Known == /\ TraceeFields(tr) /\ CallFields(k.call) /\ HostFields(env)
         /\ k.at \in Places /\ k.next \in {"guest", "chained", "restarted"}
         /\ k.sigsys \in BOOLEAN
         /\ tr.failed = "none" /\ tr.seccomp # "DISABLING" /\ tr.chain \in {NULL, 0}
         /\ tr.last_restart_how # "0" /\ tr.restart_how = "0"
(* The invariant tells every field of the two records.                     *)
LEMMA FieldsKnown ==
  ASSUME Covered, Inv
  PROVE  Known /\ Coherent /\ tr \in TraceeType /\ k \in KernelType /\ k.call \in CallType
<1>1. tr \in TraceeType /\ k \in KernelType /\ env \in EnvType /\ env \in Environments
  BY EnvAssumption DEF Inv, TypesPart
<1>2. k.call \in CallType /\ k.at \in Places /\ k.next \in {"guest", "chained", "restarted"}
      /\ k.sigsys \in BOOLEAN
  BY <1>1 DEF KernelType, Places
<1>3. TraceeFields(tr)
  BY <1>1 DEF TraceeType, TraceeFields
<1>4. CallFields(k.call)
  BY <1>2 DEF CallType, CallFields
<1>5. HostFields(env)
  BY <1>1 DEF EnvType, HostFields, Covered
<1> QED BY <1>1, <1>2, <1>3, <1>4, <1>5 DEF Inv, TypesPart, Known, Coherent

-----------------------------------------------------------------------------
(* The kernel's half of a step, field by field: from kk to kn.             *)
SameCall(kk, kn) ==
  /\ kn \in KernelType /\ kn.next = kk.next
  /\ kn.call.src = kk.call.src /\ kn.call.class = kk.call.class /\ kn.call.nr = kk.call.nr
  /\ kn.call.enters = kk.call.enters /\ kn.call.exits = kk.call.exits
  /\ kn.call.fake = kk.call.fake /\ kn.call.need = kk.call.need
GoesTo(kk, kn, at) == kn.at = at /\ kn.sigsys = kk.sigsys /\ kn.call.res = kk.call.res
Trapped(kk, kn, how) ==
  /\ kn.call.res = "rolled_back"
  /\ IF env.trapexit /\ how = "SYSCALL" THEN kn.at = "stop_exit" /\ kn.sigsys = TRUE
     ELSE kn.at = "stop_sigsys" /\ kn.sigsys = kk.sigsys
Filtered(kk, kn, how) ==
  LET v == Verdict(kk.call) IN
  IF v = "TRAP" THEN Trapped(kk, kn, how)
  ELSE IF v = "TRACE" THEN GoesTo(kk, kn, "stop_seccomp")
  ELSE GoesTo(kk, kn, IF env.order = "old" /\ how = "SYSCALL" THEN "stop_enter" ELSE "running")
Left(kk, kn, how) == GoesTo(kk, kn, IF how = "SYSCALL" THEN "stop_exit" ELSE "user")
Resumed(kk, kn, how) ==
  /\ SameCall(kk, kn)
  /\ kk.at = "stop_enter" =>
       IF env.order = "new" THEN Filtered(kk, kn, how) ELSE GoesTo(kk, kn, "running")
  /\ kk.at = "stop_seccomp" =>
       IF Cancelled(kk.call) THEN Left(kk, kn, how)
       ELSE IF env.recheck /\ Verdict(kk.call) = "TRAP" THEN Trapped(kk, kn, how)
       ELSE GoesTo(kk, kn, IF env.order = "old" /\ how = "SYSCALL" THEN "stop_enter" ELSE "running")
  /\ kk.at = "stop_exit" =>
       IF kk.sigsys THEN /\ kn.at = "stop_sigsys" /\ kn.sigsys = FALSE
                         /\ kn.call.res = kk.call.res
       ELSE GoesTo(kk, kn, "user")
  /\ kk.at = "stop_event" => GoesTo(kk, kn, "running")
  /\ kk.at \in {"stop_sigsys", "stop_signal"} => GoesTo(kk, kn, "user")

(* Go changes the place and nothing else.                                  *)
LEMMA Moved ==
  ASSUME NEW kk \in KernelType, NEW at \in Places
  PROVE  SameCall(kk, Go(kk, at)) /\ GoesTo(kk, Go(kk, at), at)
  BY DEF KernelType, CallType, SameCall, GoesTo, Go, Places

(* SECCOMP_RET_TRAP: the result is rolled back and SIGSYS is next, or the  *)
(* exit stop before it.                                                    *)
LEMMA TrapMoves ==
  ASSUME NEW kk \in KernelType, NEW how
  PROVE  SameCall(kk, Trap(kk, how)) /\ Trapped(kk, Trap(kk, how), how)
<1> DEFINE rolled == [kk EXCEPT !.call.res = "rolled_back"]
<1>1. rolled \in KernelType /\ rolled.next = kk.next /\ rolled.sigsys = kk.sigsys
      /\ rolled.call = [kk.call EXCEPT !.res = "rolled_back"]
  BY DEF KernelType, CallType
<1>2. SameCall(kk, rolled) /\ rolled.call.res = "rolled_back"
  BY <1>1 DEF SameCall, KernelType, CallType
<1> HIDE DEF rolled
<1> DEFINE out == [Go(rolled, "stop_exit") EXCEPT !.sigsys = TRUE]
           sig == Go(rolled, "stop_sigsys")
<1>3. /\ out \in KernelType /\ out.at = "stop_exit" /\ out.sigsys = TRUE
      /\ out.next = rolled.next /\ out.call = rolled.call
  BY <1>1 DEF KernelType, Go
<1>4. SameCall(rolled, sig) /\ GoesTo(rolled, sig, "stop_sigsys")
  BY <1>1, Moved DEF Places
<1>5. Trap(kk, how) = IF env.trapexit /\ how = "SYSCALL" THEN out ELSE sig
  BY DEF Trap, rolled
<1> HIDE DEF out, sig
<1>6. SameCall(kk, out) /\ SameCall(kk, sig)
  BY <1>1, <1>2, <1>3, <1>4 DEF SameCall
<1>7. CASE env.trapexit /\ how = "SYSCALL"
  BY <1>2, <1>3, <1>5, <1>6, <1>7 DEF Trapped
<1>8. CASE ~(env.trapexit /\ how = "SYSCALL")
  BY <1>1, <1>2, <1>4, <1>5, <1>6, <1>8 DEF Trapped, GoesTo, SameCall
<1> QED BY <1>7, <1>8

(* The filters' verdict on the call, TRACE, TRAP or ALLOW, decides the     *)
(* next stop.                                                              *)
LEMMA SeccompMoves ==
  ASSUME NEW kk \in KernelType, NEW how
  PROVE  SameCall(kk, Seccomp(kk, how)) /\ Filtered(kk, Seccomp(kk, how), how)
<1>1. \A at \in Places : SameCall(kk, Go(kk, at)) /\ GoesTo(kk, Go(kk, at), at)
  BY Moved
<1>2. SameCall(kk, Trap(kk, how)) /\ Trapped(kk, Trap(kk, how), how)
  BY TrapMoves
<1>3. {"stop_seccomp", "stop_enter", "running"} \subseteq Places
  BY DEF Places
<1> QED BY <1>1, <1>2, <1>3 DEF Seccomp, Filtered

(* The next stop after a restart, from each place a tracee can be stopped  *)
(* at.                                                                     *)
LEMMA ResumeMoves ==
  ASSUME NEW kk \in KernelType, NEW how
  PROVE  Resumed(kk, Resume(kk, how), how)
<1>1. \A at \in Places : SameCall(kk, Go(kk, at)) /\ GoesTo(kk, Go(kk, at), at)
  BY Moved
<1>2. SameCall(kk, Trap(kk, how)) /\ Trapped(kk, Trap(kk, how), how)
  BY TrapMoves
<1>3. SameCall(kk, Seccomp(kk, how)) /\ Filtered(kk, Seccomp(kk, how), how)
  BY SeccompMoves
<1>4. \A p \in {"user", "stop_seccomp", "stop_enter", "running", "stop_exit", "stop_sigsys"} : p \in Places
  BY DEF Places
<1>5. CASE kk.at = "stop_exit" /\ kk.sigsys
  <2> DEFINE g == Go(kk, "stop_sigsys")
             n == [g EXCEPT !.sigsys = FALSE]
  <2>1. g \in KernelType /\ SameCall(kk, g) /\ GoesTo(kk, g, "stop_sigsys")
    BY <1>1, <1>4 DEF SameCall
  <2> HIDE DEF g
  <2>2. n \in KernelType /\ n.at = g.at /\ n.next = g.next /\ n.sigsys = FALSE /\ n.call = g.call
    BY <2>1 DEF KernelType
  <2>3. Resume(kk, how) = n
    BY <1>5 DEF Resume, g
  <2> QED BY <1>5, <2>1, <2>2, <2>3 DEF Resumed, SameCall, GoesTo
<1>6. CASE kk.at = "stop_enter"
  BY <1>1, <1>3, <1>4, <1>6 DEF Resume, Resumed
<1>7. CASE kk.at = "stop_seccomp"
  BY <1>1, <1>2, <1>4, <1>7 DEF Resume, Resumed, Leave, Left
<1>8. CASE kk.at = "stop_exit" /\ ~kk.sigsys
  BY <1>1, <1>4, <1>8 DEF Resume, Resumed
<1>9. CASE kk.at \notin {"stop_enter", "stop_seccomp", "stop_exit"}
  BY <1>1, <1>4, <1>9 DEF Resume, Resumed
<1> QED BY <1>5, <1>6, <1>7, <1>8, <1>9

-----------------------------------------------------------------------------
(* PRoot's half, field by field: st is the pair a handler works on.        *)
IsPair(st) == st.tr \in TraceeType /\ st.k \in KernelType /\ DOMAIN st = {"tr", "k"}

SameStops(t, tn) ==
  /\ tn \in TraceeType
  /\ tn.seccomp = t.seccomp /\ tn.already_handled_enter = t.already_handled_enter
  /\ tn.suppressed_signal = t.suppressed_signal
  /\ tn.detected = t.detected /\ tn.after = t.after /\ tn.failed = t.failed
SameTracee(t, tn) ==
  /\ SameStops(t, tn)
  /\ tn.status = t.status /\ tn.sysexit_pending = t.sysexit_pending
  /\ tn.skip_next_seccomp_signal = t.skip_next_seccomp_signal
  /\ tn.voided_cancelled = t.voided_cancelled /\ tn.chain = t.chain /\ tn.rewrite = t.rewrite

(* restart_tracee, from the pair of records at the end of the handler.     *)
LEMMA RestartMoves ==
  ASSUME NEW st, IsPair(st), Restart(st)
  PROVE  /\ SameTracee(st.tr, tr') /\ tr'.last_restart_how = st.tr.restart_how
         /\ tr'.restart_how = "0" /\ env' = env
         /\ Resumed(st.k, k', st.tr.restart_how)
<1> DEFINE t == st.tr
<1>1. t \in TraceeType /\ st.k \in KernelType
  BY DEF IsPair
<1>2. /\ tr' = [t EXCEPT !.last_restart_how = t.restart_how, !.restart_how = "0"]
      /\ k' = Resume(st.k, t.restart_how) /\ env' = env
  BY DEF Restart
<1> HIDE DEF t
<1>3. SameTracee(t, tr') /\ tr'.last_restart_how = t.restart_how /\ tr'.restart_how = "0"
  BY <1>1, <1>2 DEF TraceeType, SameTracee, SameStops, Requests
<1> QED BY <1>1, <1>2, <1>3, ResumeMoves DEF t

(* The enter stage of a call of the guest.                                 *)
Refuses(o) == o \in {"error", "pend_error"}
Voids(o) == Refuses(o) \/ o = "void"
Pends(o) == o \in {"pend", "pend_error"}
SeesExit(o) == Pends(o) \/ o = "hold" \/ (Voids(o) /\ ~env.cancels)
Entered(t, kk, o, tn, kn) ==
  /\ SameStops(t, tn) /\ tn.chain = t.chain /\ tn.rewrite = t.rewrite
  /\ tn.last_restart_how = t.last_restart_how
  /\ tn.skip_next_seccomp_signal = t.skip_next_seccomp_signal
  /\ tn.restart_how = IF SeesExit(o) THEN "SYSCALL" ELSE t.restart_how
  /\ tn.status = IF tn.restart_how = "CONT" THEN 0 ELSE IF Refuses(o) THEN -1 ELSE 1
  /\ tn.sysexit_pending <=> t.sysexit_pending \/ Pends(o) \/ (o = "void" /\ ~env.cancels)
  /\ tn.voided_cancelled <=> Voids(o) /\ env.cancels
  /\ kn \in KernelType /\ kn.at = kk.at /\ kn.next = kk.next /\ kn.sigsys = kk.sigsys
  /\ kn.call.src = kk.call.src /\ kn.call.class = kk.call.class
  /\ kn.call.exits = kk.call.exits /\ kn.call.enters = 1
  /\ kn.call.nr = IF Voids(o) THEN "void" ELSE kk.call.nr
  /\ kn.call.res = IF Voids(o) THEN "faked" ELSE kk.call.res
  /\ kn.call.fake <=> Voids(o)
  /\ kn.call.need <=> kk.call.class \in {"exit", "traceme"} \/ Pends(o) \/ o = "hold"
(* EnterGuest does to the fields what Entered says.                        *)
LEMMA EnterMoves ==
  ASSUME NEW st, IsPair(st), st.k.call.enters = 0, NEW o
  PROVE  LET n == EnterGuest(st, o)
         IN  IsPair(n) /\ Entered(st.tr, st.k, o, n.tr, n.k)
<1> DEFINE t == st.tr
           kk == st.k
           c == kk.call
           en == c.enters + 1
           status == IF Refuses(o) THEN -1 ELSE 1
           pend == t.sysexit_pending \/ Pends(o) \/ (o = "void" /\ ~env.cancels)
           how == IF SeesExit(o) THEN "SYSCALL" ELSE t.restart_how
           cancel == Voids(o) /\ env.cancels
           nr == IF Voids(o) THEN "void" ELSE c.nr
           res == IF Voids(o) THEN "faked" ELSE c.res
           fake == Voids(o)
           need == c.class \in {"exit", "traceme"} \/ Pends(o) \/ o = "hold"
           t1 == [t EXCEPT !.status = status, !.sysexit_pending = pend,
                               !.restart_how = how, !.voided_cancelled = cancel]
           tn == [t1 EXCEPT !.status = IF t1.restart_how = "CONT" THEN 0 ELSE @]
           cn == [c EXCEPT !.enters = en, !.nr = nr, !.res = res, !.fake = fake, !.need = need]
           kn == [kk EXCEPT !.call = cn]
           n == EnterGuest(st, o)
<1>1. t \in TraceeType /\ kk \in KernelType /\ c \in CallType
  BY DEF IsPair, KernelType
<1>0. c.enters = 0
  OBVIOUS
<1>2. n = [tr |-> tn, k |-> kn]
  BY DEF EnterGuest, ForgetExit, Refuses, Voids, Pends, SeesExit
<1>3. pend \in BOOLEAN /\ cancel \in BOOLEAN /\ fake \in BOOLEAN /\ need \in BOOLEAN
  <2>1. Pends(o) \in BOOLEAN /\ Voids(o) \in BOOLEAN
    BY DEF Pends, Voids, Refuses
  <2> QED BY <2>1, Zenon
<1> HIDE DEF t, kk, c
<1>4. status \in {-1, 1} /\ how \in Requests /\ nr \in {"own", "void"}
      /\ res \in {"kernel", "rolled_back", "faked", "emulated"} /\ en = 1
  <2>0. en = 1
    BY <1>0
  <2>1. t.restart_how \in Requests /\ c.nr \in {"own", "void"}
        /\ c.res \in {"kernel", "rolled_back", "faked", "emulated"}
    BY <1>1 DEF TraceeType, CallType
  <2> QED BY <2>0, <2>1 DEF Requests
<1> HIDE DEF en, status, pend, how, cancel, nr, res, fake, need
<1>5. /\ cn \in CallType /\ cn.src = c.src /\ cn.class = c.class /\ cn.enters = 1
      /\ cn.exits = c.exits /\ cn.nr = nr /\ cn.res = res /\ cn.fake = fake /\ cn.need = need
  <2>1. c \in CallType /\ en \in {0, 1} /\ nr \in {"own", "void"}
        /\ res \in {"kernel", "rolled_back", "faked", "emulated"}
        /\ fake \in BOOLEAN /\ need \in BOOLEAN
    BY <1>1, <1>3, <1>4
  <2>2. cn \in CallType
    BY <2>1 DEF CallType
  <2>3. /\ cn.src = c.src /\ cn.class = c.class /\ cn.enters = en /\ cn.exits = c.exits
        /\ cn.nr = nr /\ cn.res = res /\ cn.fake = fake /\ cn.need = need
    BY <2>1 DEF CallType
  <2> QED BY <2>2, <2>3, <1>4
<1> HIDE DEF cn
<1>6. kn \in KernelType /\ kn.at = kk.at /\ kn.next = kk.next /\ kn.sigsys = kk.sigsys
      /\ kn.call = cn
  BY <1>1, <1>5 DEF KernelType
<1>7. /\ t1 \in TraceeType /\ t1.restart_how = how /\ t1.status = status /\ SameStops(t, t1)
      /\ t1.chain = t.chain /\ t1.rewrite = t.rewrite
      /\ t1.last_restart_how = t.last_restart_how
      /\ t1.skip_next_seccomp_signal = t.skip_next_seccomp_signal
      /\ t1.sysexit_pending = pend /\ t1.voided_cancelled = cancel
  <2>1. t \in TraceeType /\ status \in {-1, 0, 1} /\ how \in Requests
    BY <1>1, <1>4
  <2>2. t1 \in TraceeType
    BY <2>1, <1>3 DEF TraceeType
  <2>3. /\ t1.restart_how = how /\ t1.status = status
        /\ t1.chain = t.chain /\ t1.rewrite = t.rewrite
        /\ t1.last_restart_how = t.last_restart_how
        /\ t1.skip_next_seccomp_signal = t.skip_next_seccomp_signal
        /\ t1.sysexit_pending = pend /\ t1.voided_cancelled = cancel
    BY <2>1 DEF TraceeType
  <2>4. SameStops(t, t1)
    BY <2>1, <2>2 DEF TraceeType, SameStops
  <2> QED BY <2>2, <2>3, <2>4
<1> HIDE DEF t1
<1>8. /\ tn \in TraceeType /\ tn.status = (IF t1.restart_how = "CONT" THEN 0 ELSE t1.status)
      /\ SameStops(t1, tn) /\ tn.restart_how = t1.restart_how
      /\ tn.chain = t1.chain /\ tn.rewrite = t1.rewrite /\ tn.last_restart_how = t1.last_restart_how
      /\ tn.skip_next_seccomp_signal = t1.skip_next_seccomp_signal
      /\ tn.sysexit_pending = t1.sysexit_pending /\ tn.voided_cancelled = t1.voided_cancelled
  BY <1>7 DEF TraceeType, SameStops, Requests
<1> HIDE DEF tn, kn, n
<1>9. Entered(t, kk, o, tn, kn)
  BY <1>5, <1>6, <1>7, <1>8 DEF Entered, SameStops, pend, cancel, fake, need, nr, res, status, how, c
<1>10. n.tr = tn /\ n.k = kn
  BY <1>2
<1> QED
  BY <1>2, <1>6, <1>8, <1>9, <1>10 DEF n, IsPair, t, kk

(* The enter stage of a chained call.                                      *)
ChainEntered(t, kk, tn, kn) ==
  /\ SameStops(t, tn) /\ tn.chain = t.chain /\ tn.rewrite = t.rewrite
  /\ tn.last_restart_how = t.last_restart_how /\ tn.sysexit_pending = t.sysexit_pending
  /\ tn.skip_next_seccomp_signal = t.skip_next_seccomp_signal
  /\ tn.restart_how = "SYSCALL" /\ tn.status = 1
  /\ kn \in KernelType /\ kn.at = kk.at /\ kn.next = kk.next /\ kn.sigsys = kk.sigsys
  /\ kn.call.src = kk.call.src /\ kn.call.class = kk.call.class
  /\ kn.call.exits = kk.call.exits /\ kn.call.enters = 1 /\ kn.call.nr = kk.call.nr
  /\ kn.call.res = kk.call.res /\ kn.call.fake = kk.call.fake /\ kn.call.need = kk.call.need
(* EnterChained does to the fields what ChainEntered says.                 *)
LEMMA ChainedEnterMoves ==
  ASSUME NEW st, IsPair(st), st.k.call.enters = 0
  PROVE  LET n == EnterChained(st)
         IN  IsPair(n) /\ ChainEntered(st.tr, st.k, n.tr, n.k)
<1> DEFINE t == st.tr
           kk == st.k
           c == kk.call
           en == c.enters + 1
           tn == [t EXCEPT !.status = 1, !.restart_how = "SYSCALL", !.voided_cancelled = FALSE]
           cn == [c EXCEPT !.enters = en]
           kn == [kk EXCEPT !.call = cn]
           n == EnterChained(st)
<1>1. t \in TraceeType /\ kk \in KernelType /\ c \in CallType
  BY DEF IsPair, KernelType
<1>2. c.enters = 0
  OBVIOUS
<1>3. n.tr = tn /\ n.k = kn /\ DOMAIN n = {"tr", "k"}
  <2> DEFINE a1 == [st EXCEPT !.tr.status = 1]
             a2 == [a1 EXCEPT !.tr.restart_how = "SYSCALL"]
             a3 == [a2 EXCEPT !.tr.voided_cancelled = FALSE]
             a4 == [a3 EXCEPT !.k.call.enters = @ + 1]
  <2>1. a1.tr = [t EXCEPT !.status = 1] /\ a1.k = kk /\ DOMAIN a1 = {"tr", "k"}
    BY DEF IsPair
  <2>2. n = a4
    BY DEF EnterChained
  <2> HIDE DEF a1
  <2>3. a2.tr = [a1.tr EXCEPT !.restart_how = "SYSCALL"] /\ a2.k = kk /\ DOMAIN a2 = {"tr", "k"}
    BY <2>1
  <2> HIDE DEF a2
  <2>4. a3.tr = [a2.tr EXCEPT !.voided_cancelled = FALSE] /\ a3.k = kk /\ DOMAIN a3 = {"tr", "k"}
    BY <2>3
  <2> HIDE DEF a3
  <2>5. a4.tr = a3.tr /\ a4.k = kn /\ DOMAIN a4 = {"tr", "k"}
    BY <2>4
  <2> QED BY <2>1, <2>2, <2>3, <2>4, <2>5
<1> HIDE DEF t, kk, c
<1>4. en = 1
  BY <1>2
<1> HIDE DEF en
<1>5. cn \in CallType /\ cn.src = c.src /\ cn.class = c.class /\ cn.enters = en
      /\ cn.exits = c.exits /\ cn.nr = c.nr /\ cn.res = c.res /\ cn.fake = c.fake
      /\ cn.need = c.need
  <2>1. c \in CallType /\ en \in {0, 1}
    BY <1>1, <1>4
  <2> QED BY <2>1 DEF CallType
<1> HIDE DEF cn
<1>6. kn \in KernelType /\ kn.at = kk.at /\ kn.next = kk.next /\ kn.sigsys = kk.sigsys
      /\ kn.call = cn
  BY <1>1, <1>5 DEF KernelType
<1>7. /\ tn \in TraceeType /\ tn.restart_how = "SYSCALL" /\ tn.status = 1
      /\ tn.chain = t.chain /\ tn.rewrite = t.rewrite
      /\ tn.last_restart_how = t.last_restart_how /\ tn.sysexit_pending = t.sysexit_pending
      /\ tn.skip_next_seccomp_signal = t.skip_next_seccomp_signal
  BY <1>1 DEF TraceeType, Requests
<1>8. SameStops(t, tn)
  BY <1>1, <1>7 DEF TraceeType, SameStops
<1> HIDE DEF tn, kn, n
<1>9. ChainEntered(t, kk, tn, kn)
  BY <1>4, <1>5, <1>6, <1>7, <1>8 DEF ChainEntered, c
<1>10. n.tr = tn /\ n.k = kn
  BY <1>3
<1> QED
  BY <1>3, <1>6, <1>7, <1>9, <1>10 DEF n, IsPair, t, kk

(* The exit stage, up to push_specific_regs.                               *)
Exited(t, kk, o, tn, kn) ==
  /\ tn \in TraceeType /\ tn.status = 0
  /\ tn.already_handled_enter = t.already_handled_enter
  /\ tn.suppressed_signal = t.suppressed_signal /\ tn.sysexit_pending = t.sysexit_pending
  /\ tn.skip_next_seccomp_signal = t.skip_next_seccomp_signal
  /\ tn.detected = t.detected /\ tn.after = t.after /\ tn.failed = t.failed
  /\ tn.last_restart_how = t.last_restart_how
  /\ tn.chain = IF o = "chain" THEN 0 ELSE NULL
  /\ tn.restart_how = IF o \in {"chain", "restart", "result"} THEN "SYSCALL" ELSE t.restart_how
  /\ tn.seccomp = IF o = "disable" /\ t.seccomp = "ENABLED" THEN "DISABLING" ELSE t.seccomp
  /\ tn.rewrite <=> (t.rewrite \/ o = "restart") /\ kn.next # "guest"
  /\ kn \in KernelType /\ kn.at = kk.at /\ kn.sigsys = kk.sigsys
  /\ kn.next = IF o = "chain" THEN "chained" ELSE IF o = "restart" THEN "restarted" ELSE kk.next
  /\ kn.call.src = kk.call.src /\ kn.call.class = kk.call.class /\ kn.call.nr = kk.call.nr
  /\ kn.call.enters = kk.call.enters /\ kn.call.exits = 1
  /\ kn.call.fake = kk.call.fake /\ kn.call.need = kk.call.need
  /\ kn.call.res = IF t.chain = NULL /\ kk.call.fake THEN "faked" ELSE kk.call.res
(* ExitStage does to the fields what Exited says, chain_next_syscall and   *)
(* push_specific_regs included.                                            *)
LEMMA ExitMoves ==
  ASSUME NEW st, IsPair(st), st.tr.chain \in {NULL, 0}, st.k.call.exits = 0, NEW o
  PROVE  LET n == ExitStage(st, o)
         IN  IsPair(n) /\ Exited(st.tr, st.k, o, n.tr, n.k)
<1> DEFINE t == st.tr
           kk == st.k
           c == kk.call
           ex == c.exits + 1
           ch == IF o = "chain" THEN (IF t.chain = NULL THEN 1 ELSE t.chain + 1) ELSE t.chain
           rw == t.rewrite \/ o = "restart"
           how == IF o \in {"restart", "result"} THEN "SYSCALL" ELSE t.restart_how
           sc == IF o = "disable" /\ t.seccomp = "ENABLED" THEN "DISABLING" ELSE t.seccomp
           res == IF t.chain = NULL /\ c.fake THEN "faked" ELSE c.res
           next == IF o = "restart" THEN "restarted" ELSE kk.next
           t1 == [t EXCEPT !.status = 0, !.chain = ch, !.rewrite = rw, !.restart_how = how,
                           !.seccomp = sc]
           k1 == [kk EXCEPT !.next = next, !.call.exits = ex, !.call.res = res]
           s1 == [tr |-> t1, k |-> k1]
           s2 == IF s1.tr.chain = NULL THEN s1 ELSE chain_next_syscall(s1)
           n == ExitStage(st, o)
<1>1. t \in TraceeType /\ kk \in KernelType /\ c \in CallType
  BY DEF IsPair, KernelType
<1>2. c.exits = 0 /\ t.chain \in {NULL, 0}
  OBVIOUS
<1>3. n = push_specific_regs(s2)
  BY DEF ExitStage
<1> HIDE DEF t, kk, n
<1>4. /\ ex = 1 /\ ch = (IF o = "chain" THEN 1 ELSE t.chain) /\ ch \in {NULL, 0, 1}
  BY <1>2 DEF NULL
<1>5. rw \in BOOLEAN
  OBVIOUS
<1>6. /\ how \in Requests /\ sc \in {"DISABLED", "ENABLED", "DISABLING"}
      /\ res \in {"kernel", "rolled_back", "faked", "emulated"}
      /\ next \in {"guest", "chained", "restarted"}
  <2>1. t.restart_how \in Requests /\ t.seccomp \in {"DISABLED", "ENABLED", "DISABLING"}
    BY <1>1 DEF TraceeType
  <2>2. c.res \in {"kernel", "rolled_back", "faked", "emulated"}
    BY <1>1 DEF CallType
  <2>3. kk.next \in {"guest", "chained", "restarted"}
    BY <1>1 DEF KernelType
  <2> QED BY <2>1, <2>2, <2>3 DEF Requests
<1> HIDE DEF ex, ch, rw, how, sc, res, next
<1>7. /\ t1 \in TraceeType /\ t1.status = 0 /\ t1.chain = ch /\ t1.rewrite = rw
      /\ t1.restart_how = how /\ t1.seccomp = sc
      /\ t1.already_handled_enter = t.already_handled_enter
      /\ t1.suppressed_signal = t.suppressed_signal /\ t1.sysexit_pending = t.sysexit_pending
      /\ t1.skip_next_seccomp_signal = t.skip_next_seccomp_signal
      /\ t1.detected = t.detected /\ t1.after = t.after /\ t1.failed = t.failed
      /\ t1.last_restart_how = t.last_restart_how
  <2>1. t \in TraceeType /\ ch \in {NULL, 0, 1} /\ how \in Requests
        /\ sc \in {"DISABLED", "ENABLED", "DISABLING"} /\ rw \in BOOLEAN
    BY <1>1, <1>4, <1>5, <1>6
  <2>2. t1 \in TraceeType
    BY <2>1 DEF TraceeType
  <2>3. /\ t1.status = 0 /\ t1.chain = ch /\ t1.rewrite = rw
        /\ t1.restart_how = how /\ t1.seccomp = sc
        /\ t1.already_handled_enter = t.already_handled_enter
        /\ t1.suppressed_signal = t.suppressed_signal /\ t1.sysexit_pending = t.sysexit_pending
        /\ t1.skip_next_seccomp_signal = t.skip_next_seccomp_signal
        /\ t1.detected = t.detected /\ t1.after = t.after /\ t1.failed = t.failed
        /\ t1.last_restart_how = t.last_restart_how
    BY <2>1 DEF TraceeType
  <2> QED BY <2>2, <2>3
<1>8. /\ k1 \in KernelType /\ k1.at = kk.at /\ k1.next = next /\ k1.sigsys = kk.sigsys
      /\ k1.call.src = c.src /\ k1.call.class = c.class /\ k1.call.nr = c.nr
      /\ k1.call.enters = c.enters /\ k1.call.exits = 1 /\ k1.call.fake = c.fake
      /\ k1.call.need = c.need /\ k1.call.res = res
  <2> DEFINE cn == [c EXCEPT !.exits = ex, !.res = res]
  <2>1. k1.call = cn /\ k1.at = kk.at /\ k1.next = next /\ k1.sigsys = kk.sigsys
    BY <1>1 DEF KernelType
  <2> HIDE DEF c
  <2>2. c \in CallType /\ ex \in {0, 1} /\ res \in {"kernel", "rolled_back", "faked", "emulated"}
    BY <1>1, <1>4, <1>6
  <2>3. cn \in CallType
    BY <2>2 DEF CallType
  <2>4. /\ cn.src = c.src /\ cn.class = c.class /\ cn.nr = c.nr
        /\ cn.enters = c.enters /\ cn.exits = ex /\ cn.fake = c.fake
        /\ cn.need = c.need /\ cn.res = res
    BY <2>2 DEF CallType
  <2>5. k1 = [[kk EXCEPT !.next = next] EXCEPT !.call = cn]
    BY <1>1 DEF KernelType, c
  <2> HIDE DEF cn, k1
  <2>6. k1 \in KernelType
    BY <1>1, <1>6, <2>3, <2>5 DEF KernelType
  <2> QED BY <1>4, <2>1, <2>4, <2>6
<1> HIDE DEF t1, k1
<1> DEFINE p2 == [s1 EXCEPT !.tr.chain = NULL]
           q1 == [s1 EXCEPT !.tr.chain = @ - 1]
           q2 == [q1 EXCEPT !.tr.restart_how = "SYSCALL"]
           q3 == [q2 EXCEPT !.k.next = "chained"]
           t2 == s2.tr
           k2 == s2.k
<1>9. s2 = IF ch = NULL THEN s1 ELSE IF ch = 0 THEN p2 ELSE q3
  BY <1>7 DEF chain_next_syscall
<1>10. p2.tr = [t1 EXCEPT !.chain = NULL] /\ p2.k = k1 /\ DOMAIN p2 = {"tr", "k"}
  OBVIOUS
<1>11. /\ q3.tr = [[t1 EXCEPT !.chain = t1.chain - 1] EXCEPT !.restart_how = "SYSCALL"]
       /\ q3.k = [k1 EXCEPT !.next = "chained"] /\ DOMAIN q3 = {"tr", "k"}
  <2>1. q1.tr = [t1 EXCEPT !.chain = t1.chain - 1] /\ q1.k = k1 /\ DOMAIN q1 = {"tr", "k"}
    BY <1>7 DEF TraceeType
  <2> HIDE DEF q1
  <2>2. q2.tr = [q1.tr EXCEPT !.restart_how = "SYSCALL"] /\ q2.k = k1 /\ DOMAIN q2 = {"tr", "k"}
    BY <2>1
  <2> HIDE DEF q2
  <2>3. q3.tr = q2.tr /\ q3.k = [k1 EXCEPT !.next = "chained"] /\ DOMAIN q3 = {"tr", "k"}
    BY <2>2
  <2> QED BY <2>1, <2>2, <2>3
<1>12. s1.tr = t1 /\ s1.k = k1 /\ DOMAIN s1 = {"tr", "k"}
  OBVIOUS
<1> HIDE DEF s1, p2, q3, s2
<1> DEFINE lh == IF o = "chain" THEN "SYSCALL" ELSE how
           nx == IF o = "chain" THEN "chained" ELSE next
           cc == IF o = "chain" THEN 0 ELSE NULL
<1>13. /\ t2 \in TraceeType /\ t2.status = 0 /\ t2.rewrite = rw /\ t2.seccomp = sc
       /\ t2.already_handled_enter = t.already_handled_enter
       /\ t2.suppressed_signal = t.suppressed_signal /\ t2.sysexit_pending = t.sysexit_pending
       /\ t2.skip_next_seccomp_signal = t.skip_next_seccomp_signal
       /\ t2.detected = t.detected /\ t2.after = t.after /\ t2.failed = t.failed
       /\ t2.last_restart_how = t.last_restart_how
       /\ t2.restart_how = lh /\ t2.chain = cc
       /\ DOMAIN s2 = {"tr", "k"}
  <2>1. CASE ch = NULL
    <3>1. o # "chain" /\ s2.tr = t1 /\ DOMAIN s2 = {"tr", "k"}
      BY <1>4, <1>9, <1>12, <2>1 DEF NULL
    <3> QED BY <1>7, <2>1, <3>1
  <2>2. CASE ch = 0
    <3>1. o # "chain" /\ s2.tr = [t1 EXCEPT !.chain = NULL] /\ DOMAIN s2 = {"tr", "k"}
      BY <1>4, <1>9, <1>10, <2>2 DEF NULL
    <3> HIDE DEF t2
    <3>2. t2 = [t1 EXCEPT !.chain = NULL]
      BY <3>1 DEF t2
    <3>3. t2 \in TraceeType
      BY <1>7, <3>2 DEF TraceeType
    <3>4. /\ t2.status = t1.status /\ t2.rewrite = t1.rewrite /\ t2.seccomp = t1.seccomp
          /\ t2.already_handled_enter = t1.already_handled_enter
          /\ t2.suppressed_signal = t1.suppressed_signal /\ t2.sysexit_pending = t1.sysexit_pending
          /\ t2.skip_next_seccomp_signal = t1.skip_next_seccomp_signal
          /\ t2.detected = t1.detected /\ t2.after = t1.after /\ t2.failed = t1.failed
          /\ t2.last_restart_how = t1.last_restart_how
          /\ t2.restart_how = t1.restart_how /\ t2.chain = NULL
      BY <1>7, <3>2 DEF TraceeType
    <3> QED BY <1>7, <3>1, <3>3, <3>4
  <2>3. CASE ch = 1
    <3>0. t1.chain - 1 = 0
      BY <1>7, <2>3
    <3>1. o = "chain" /\ DOMAIN s2 = {"tr", "k"}
          /\ s2.tr = [[t1 EXCEPT !.chain = t1.chain - 1] EXCEPT !.restart_how = "SYSCALL"]
      BY <1>2, <1>4, <1>9, <1>11, <2>3 DEF NULL
    <3>2. s2.tr = [[t1 EXCEPT !.chain = 0] EXCEPT !.restart_how = "SYSCALL"]
      BY <3>0, <3>1
    <3> HIDE DEF t2
    <3>3. t2 = [[t1 EXCEPT !.chain = 0] EXCEPT !.restart_how = "SYSCALL"]
      BY <3>2 DEF t2
    <3>4. t2 \in TraceeType
      BY <1>7, <3>3 DEF TraceeType, Requests
    <3>5. /\ t2.status = t1.status /\ t2.rewrite = t1.rewrite /\ t2.seccomp = t1.seccomp
          /\ t2.already_handled_enter = t1.already_handled_enter
          /\ t2.suppressed_signal = t1.suppressed_signal /\ t2.sysexit_pending = t1.sysexit_pending
          /\ t2.skip_next_seccomp_signal = t1.skip_next_seccomp_signal
          /\ t2.detected = t1.detected /\ t2.after = t1.after /\ t2.failed = t1.failed
          /\ t2.last_restart_how = t1.last_restart_how
          /\ t2.restart_how = "SYSCALL" /\ t2.chain = 0
      BY <1>7, <3>3 DEF TraceeType
    <3> QED BY <1>7, <3>1, <3>4, <3>5
  <2> QED BY <1>4, <2>1, <2>2, <2>3
<1>14. /\ k2 \in KernelType /\ k2.at = kk.at /\ k2.next = nx /\ k2.sigsys = kk.sigsys
       /\ k2.call = k1.call
  <2>1. CASE o # "chain"
    <3>1. k2 = k1
      BY <1>2, <1>4, <1>9, <1>10, <1>12, <2>1 DEF NULL
    <3> QED BY <1>8, <2>1, <3>1
  <2>2. CASE o = "chain"
    <3>1. k2 = [k1 EXCEPT !.next = "chained"]
      BY <1>4, <1>9, <1>11, <2>2 DEF NULL
    <3> HIDE DEF k2
    <3> QED BY <1>8, <2>2, <3>1 DEF KernelType
  <2> QED BY <2>1, <2>2
<1> DEFINE keep == rw /\ nx # "guest"
           tn == [t2 EXCEPT !.rewrite = keep]
<1>15. n.tr = tn /\ n.k = k2 /\ DOMAIN n = {"tr", "k"}
  BY <1>3, <1>13, <1>14 DEF push_specific_regs, TraceeType
<1> HIDE DEF t2, k2, n
<1>16. keep \in BOOLEAN
  OBVIOUS
<1> HIDE DEF keep
<1>17. tn \in TraceeType
  BY <1>13, <1>16 DEF TraceeType
<1>18. /\ tn.status = t2.status /\ tn.rewrite = keep /\ tn.seccomp = t2.seccomp
       /\ tn.already_handled_enter = t2.already_handled_enter
       /\ tn.suppressed_signal = t2.suppressed_signal /\ tn.sysexit_pending = t2.sysexit_pending
       /\ tn.skip_next_seccomp_signal = t2.skip_next_seccomp_signal
       /\ tn.detected = t2.detected /\ tn.after = t2.after /\ tn.failed = t2.failed
       /\ tn.last_restart_how = t2.last_restart_how
       /\ tn.restart_how = t2.restart_how /\ tn.chain = t2.chain
  BY <1>13 DEF TraceeType
<1> HIDE DEF tn
<1>19. Exited(t, kk, o, tn, k2)
  BY <1>8, <1>13, <1>14, <1>16, <1>17, <1>18
     DEF Exited, keep, lh, nx, cc, next, how, sc, res, rw, c
<1> QED
  BY <1>14, <1>15, <1>17, <1>19 DEF n, IsPair, t, kk

-----------------------------------------------------------------------------
(* The kernel's steps keep the invariant.                                  *)
LEMMA SignalInv == ASSUME Covered, Inv, Signal PROVE Inv'
<1>1. Known /\ Coherent /\ k \in KernelType
  BY FieldsKnown
<1>2. k' = Go(k, "stop_signal") /\ tr' = tr /\ env' = env /\ k.at = "user"
  BY DEF Signal
<1>3. SameCall(k, k') /\ GoesTo(k, k', "stop_signal")
  BY <1>1, <1>2, Moved DEF Places
<1>4. TypesPart'
  BY <1>2, <1>3 DEF TypesPart, Inv, SameCall
<1>5. Coherent'
  <2> USE <1>1, <1>2, <1>3 DEF Coherent, Known, TraceeFields, CallFields, HostFields, HostPart, RequestPart,
       BetweenPart, CallPart, NotExited, Follows, NotEntered, Voided, Origin, StagePart, AtEnter,
       AtExit, Running, AtSeccomp, AtEvent, HandledEnter, TrapPart, SkipNext, TrappedCall,
       AtSigsys, ResultPart, ExitAsked, FakeKept, Between, IsInSysenter, Cancelled,
       NULL, Requests, Places, SameCall, GoesTo
  <2> QED OBVIOUS
<1> QED
  BY <1>4, <1>5 DEF Inv, Coherent

(* An EXEC or CLONE event interrupts the call.                             *)
LEMMA MidCallInv == ASSUME Covered, Inv, MidCall PROVE Inv'
<1>1. Known /\ Coherent /\ k \in KernelType
  BY FieldsKnown
<1>2. /\ k' = Go(k, "stop_event") /\ tr' = tr /\ env' = env /\ k.at = "running"
      /\ k.call.nr = "own" /\ k.call.src = "guest" /\ k.call.class \in {"enter", "exit"}
      /\ k.call.class = "enter" => ~k.call.need
  BY DEF MidCall
<1>3. SameCall(k, k') /\ GoesTo(k, k', "stop_event")
  BY <1>1, <1>2, Moved DEF Places
<1>4. TypesPart'
  BY <1>2, <1>3 DEF TypesPart, Inv, SameCall
<1>5. Coherent'
  <2> USE <1>1, <1>2, <1>3 DEF Coherent, Known, TraceeFields, CallFields, HostFields, HostPart, RequestPart,
       BetweenPart, CallPart, NotExited, Follows, NotEntered, Voided, Origin, StagePart, AtEnter,
       AtExit, Running, AtSeccomp, AtEvent, HandledEnter, TrapPart, SkipNext, TrappedCall,
       AtSigsys, ResultPart, ExitAsked, FakeKept, Between, IsInSysenter, Cancelled,
       NULL, Requests, Places, SameCall, GoesTo
  <2> QED OBVIOUS
<1> QED
  BY <1>4, <1>5 DEF Inv, Coherent

(* The kernel executes the call and returns.                               *)
LEMMA ExecuteInv == ASSUME Covered, Inv, Execute PROVE Inv'
<1> DEFINE c == k.call
           r == IF Cancelled(c) THEN c.res ELSE "kernel"
           a == IF tr.last_restart_how = "SYSCALL" THEN "stop_exit" ELSE "user"
<1>1. Known /\ Coherent /\ k \in KernelType /\ c \in CallType
  BY FieldsKnown
<1>2. k' = [[k EXCEPT !.call.res = r] EXCEPT !.at = a]
  BY DEF Execute, Leave, Go, c, r, a
<1>r. r \in {"kernel", "rolled_back", "faked", "emulated"}
  BY <1>1 DEF Known, CallFields
<1>3. k'.at = a /\ k'.next = k.next /\ k'.sigsys = k.sigsys /\ k'.call = [c EXCEPT !.res = r]
      /\ k' \in KernelType
  BY <1>1, <1>r, <1>2 DEF KernelType, CallType
<1>4. /\ k'.call.src = c.src /\ k'.call.class = c.class /\ k'.call.nr = c.nr /\ k'.call.res = r
      /\ k'.call.enters = c.enters /\ k'.call.exits = c.exits /\ k'.call.fake = c.fake
      /\ k'.call.need = c.need
  BY <1>1, <1>3 DEF CallType
<1>5. tr' = tr /\ env' = env /\ k.at = "running"
  BY DEF Execute
<1>6. TypesPart'
  BY <1>3, <1>5 DEF TypesPart, Inv
<1>7. Coherent'
  <2> USE <1>1, <1>3, <1>4, <1>5 DEF Coherent, Known, TraceeFields, CallFields, HostFields, HostPart, RequestPart,
       BetweenPart, CallPart, NotExited, Follows, NotEntered, Voided, Origin, StagePart, AtEnter,
       AtExit, Running, AtSeccomp, AtEvent, HandledEnter, TrapPart, SkipNext, TrappedCall,
       AtSigsys, ResultPart, ExitAsked, FakeKept, Between, IsInSysenter, Cancelled,
       NULL, Requests, Places
  <2> QED OBVIOUS
<1> QED
  BY <1>6, <1>7 DEF Inv, Coherent

(* The guest, or PRoot's chained or restarted call, enters the kernel.     *)
LEMMA IssueInv == ASSUME Covered, Inv, Issue PROVE Inv'
<1>1. Known /\ Coherent /\ k \in KernelType
  BY FieldsKnown
<1>2. PICK class \in {"plain", "enter", "exit", "traceme", "trapped"} :
        /\ class = "traceme" => k.next = "guest" /\ env.traceme
        /\ class = "trapped" => k.next = "guest" \/ (k.next = "restarted" /\ env.trapagain)
        /\ FirstIsExecve(class)
        /\ LET kk == [k EXCEPT !.next = "guest",
                            !.call = [NoCall EXCEPT !.src = k.next, !.class = class]]
           IN k' = IF env.order = "new" /\ tr.last_restart_how = "SYSCALL"
                   THEN Go(kk, "stop_enter") ELSE Seccomp(kk, tr.last_restart_how)
  BY DEF Issue, Classes
<1> DEFINE c == [NoCall EXCEPT !.src = k.next, !.class = class]
           kk == [k EXCEPT !.next = "guest", !.call = c]
<1>3. /\ c \in CallType /\ c.src = k.next /\ c.class = class /\ c.nr = "own"
      /\ c.res = "kernel" /\ c.enters = 0 /\ c.exits = 0 /\ c.fake = FALSE /\ c.need = FALSE
  BY <1>1, <1>2 DEF NoCall, CallType, Known
<1> HIDE DEF c
<1>4. kk \in KernelType /\ kk.next = "guest" /\ kk.call = c /\ kk.sigsys = k.sigsys
  BY <1>1, <1>3 DEF KernelType
<1>5. k' = IF env.order = "new" /\ tr.last_restart_how = "SYSCALL"
             THEN Go(kk, "stop_enter") ELSE Seccomp(kk, tr.last_restart_how)
  BY <1>2 DEF c
<1> HIDE DEF kk
<1>6. /\ SameCall(kk, k')
      /\ IF env.order = "new" /\ tr.last_restart_how = "SYSCALL"
         THEN GoesTo(kk, k', "stop_enter") ELSE Filtered(kk, k', tr.last_restart_how)
  BY <1>4, <1>5, Moved, SeccompMoves DEF Places
<1>7. tr' = tr /\ env' = env /\ k.at = "user"
  BY DEF Issue
<1>8. TypesPart'
  BY <1>6, <1>7 DEF TypesPart, Inv, SameCall
<1>9. Coherent'
  BY <1>1, <1>2, <1>3, <1>4, <1>6, <1>7 DEF Coherent, Known, TraceeFields, CallFields, HostFields, HostPart, RequestPart,
       BetweenPart, CallPart, NotExited, Follows, NotEntered, Voided, Origin, StagePart, AtEnter,
       AtExit, Running, AtSeccomp, AtEvent, HandledEnter, TrapPart, SkipNext, TrappedCall,
       AtSigsys, ResultPart, ExitAsked, FakeKept, Between, IsInSysenter, Cancelled,
       NULL, Requests, Places, SameCall, GoesTo, Filtered, Trapped, Verdict, FirstIsExecve
<1> QED
  BY <1>8, <1>9 DEF Inv, Coherent

-----------------------------------------------------------------------------
(* The pairs PRoot's handlers begin with.                                  *)
LEMMA StartMoves ==
  ASSUME tr \in TraceeType, k \in KernelType
  PROVE  /\ IsPair(Start) /\ Start.k = k
         /\ Start.tr = [tr EXCEPT !.restart_how =
                         IF tr.seccomp = "ENABLED" /\ ~SysexitNecessary(tr) THEN "CONT" ELSE "SYSCALL"]
  BY DEF Start, IsPair, TraceeType, Requests

(* How changes the request and nothing else.                               *)
LEMMA HowMoves ==
  ASSUME NEW st, IsPair(st), NEW h \in Requests
  PROVE  /\ IsPair(How(st, h)) /\ How(st, h).k = st.k
         /\ How(st, h).tr = [st.tr EXCEPT !.restart_how = h]
  BY DEF How, IsPair, TraceeType

(* A signal is delivered or suppressed.                                    *)
LEMMA SignalStopInv == ASSUME Covered, Inv, SignalStop PROVE Inv'
<1> DEFINE s == tr.suppressed_signal \/ tr.chain # NULL \/ tr.rewrite
           h == IF tr.seccomp = "ENABLED" /\ ~SysexitNecessary(tr) THEN "CONT" ELSE "SYSCALL"
           m == [Start EXCEPT !.tr.suppressed_signal = @ \/ tr.chain # NULL \/ tr.rewrite]
<1>1. Known /\ Coherent /\ tr \in TraceeType /\ k \in KernelType /\ env \in Environments
  BY FieldsKnown DEF Inv, TypesPart
<1>2. k.at = "stop_signal" /\ Restart(m)
  BY DEF SignalStop
<1>3. m.tr = [tr EXCEPT !.restart_how = h, !.suppressed_signal = s] /\ m.k = k /\ DOMAIN m = {"tr", "k"}
  BY <1>1, StartMoves DEF IsPair, TraceeType
<1>4. s \in BOOLEAN /\ h \in Requests
  BY DEF Requests
<1> HIDE DEF m, s, h
<1>5. IsPair(m)
  BY <1>1, <1>3, <1>4 DEF TraceeType, IsPair
<1>6. /\ m.tr.status = tr.status /\ m.tr.restart_how = h
      /\ m.tr.last_restart_how = tr.last_restart_how /\ m.tr.seccomp = tr.seccomp
      /\ m.tr.sysexit_pending = tr.sysexit_pending
      /\ m.tr.already_handled_enter = tr.already_handled_enter
      /\ m.tr.skip_next_seccomp_signal = tr.skip_next_seccomp_signal
      /\ m.tr.voided_cancelled = tr.voided_cancelled /\ m.tr.chain = tr.chain
      /\ m.tr.rewrite = tr.rewrite /\ m.tr.suppressed_signal = s /\ m.tr.detected = tr.detected
      /\ m.tr.after = tr.after /\ m.tr.failed = tr.failed
  BY <1>1, <1>3, <1>4 DEF TraceeType
<1>7. /\ SameTracee(m.tr, tr') /\ tr'.last_restart_how = m.tr.restart_how
      /\ tr'.restart_how = "0" /\ env' = env /\ Resumed(k, k', m.tr.restart_how)
  BY <1>2, <1>3, <1>5, RestartMoves
<1> QED
  BY <1>1, <1>2, <1>6, <1>7
  DEF Coherent, Known, TraceeFields, CallFields, HostFields, HostPart, RequestPart,
       BetweenPart, CallPart, NotExited, Follows, NotEntered, Voided, Origin, StagePart, AtEnter,
       AtExit, Running, AtSeccomp, AtEvent, HandledEnter, TrapPart, SkipNext, TrappedCall,
       AtSigsys, ResultPart, ExitAsked, FakeKept, Between, IsInSysenter, Cancelled,
       NULL, Requests, Places,
       SameStops, SameTracee, Resumed, SameCall, GoesTo, Left, Filtered, Trapped, Verdict, h, s, SysexitNecessary, Inv, TypesPart

(* EXEC repeats the last request, CLONE does not.                          *)
LEMMA EventStopInv == ASSUME Covered, Inv, EventStop PROVE Inv'
<1> DEFINE d == IF tr.seccomp = "ENABLED" /\ ~SysexitNecessary(tr) THEN "CONT" ELSE "SYSCALL"
           h == IF k.call.class = "exit" THEN tr.last_restart_how ELSE d
           m == IF k.call.class = "exit" THEN How(Start, tr.last_restart_how) ELSE Start
<1>1. Known /\ Coherent /\ tr \in TraceeType /\ k \in KernelType /\ env \in Environments
  BY FieldsKnown DEF Inv, TypesPart
<1>2. k.at = "stop_event" /\ Restart(m)
  BY DEF EventStop
<1>3. d \in Requests /\ h \in Requests
  BY <1>1 DEF Requests, Known, TraceeFields
<1>4. IsPair(m) /\ m.k = k /\ m.tr = [tr EXCEPT !.restart_how = h]
  <2>1. IsPair(Start) /\ Start.k = k /\ Start.tr = [tr EXCEPT !.restart_how = d]
    BY <1>1, StartMoves
  <2>2. tr.last_restart_how \in Requests
    BY <1>1 DEF Known, TraceeFields
  <2>3. CASE k.call.class = "exit"
    <3>1. m = How(Start, tr.last_restart_how) /\ h = tr.last_restart_how
      BY <2>3
    <3>2. [[tr EXCEPT !.restart_how = d] EXCEPT !.restart_how = h] = [tr EXCEPT !.restart_how = h]
      BY <1>1 DEF TraceeType
    <3> QED BY <2>1, <2>2, <3>1, <3>2, HowMoves
  <2>4. CASE k.call.class # "exit"
    BY <2>1, <2>4
  <2> QED BY <2>3, <2>4
<1> HIDE DEF m, h
<1>5. /\ m.tr.status = tr.status /\ m.tr.restart_how = h
      /\ m.tr.last_restart_how = tr.last_restart_how /\ m.tr.seccomp = tr.seccomp
      /\ m.tr.sysexit_pending = tr.sysexit_pending
      /\ m.tr.already_handled_enter = tr.already_handled_enter
      /\ m.tr.skip_next_seccomp_signal = tr.skip_next_seccomp_signal
      /\ m.tr.voided_cancelled = tr.voided_cancelled /\ m.tr.chain = tr.chain
      /\ m.tr.rewrite = tr.rewrite /\ m.tr.suppressed_signal = tr.suppressed_signal
      /\ m.tr.detected = tr.detected /\ m.tr.after = tr.after /\ m.tr.failed = tr.failed
  BY <1>1, <1>3, <1>4 DEF TraceeType
<1>6. /\ SameTracee(m.tr, tr') /\ tr'.last_restart_how = m.tr.restart_how
      /\ tr'.restart_how = "0" /\ env' = env /\ Resumed(k, k', m.tr.restart_how)
  BY <1>2, <1>4, RestartMoves
<1> QED
  BY <1>1, <1>2, <1>5, <1>6
  DEF Coherent, Known, TraceeFields, CallFields, HostFields, HostPart, RequestPart,
       BetweenPart, CallPart, NotExited, Follows, NotEntered, Voided, Origin, StagePart, AtEnter,
       AtExit, Running, AtSeccomp, AtEvent, HandledEnter, TrapPart, SkipNext, TrappedCall,
       AtSigsys, ResultPart, ExitAsked, FakeKept, Between, IsInSysenter, Cancelled,
       NULL, Requests, Places,
       SameStops, SameTracee, Resumed, SameCall, GoesTo, Left, Filtered, Trapped, Verdict, h, SysexitNecessary, Inv, TypesPart

(* The tracee as tr but for its next request and its pending exit.         *)
Begun(t, how, pend) ==
  /\ t \in TraceeType
  /\ t.status = tr.status /\ t.restart_how = how /\ t.last_restart_how = tr.last_restart_how
  /\ t.seccomp = tr.seccomp /\ t.sysexit_pending = pend
  /\ t.already_handled_enter = tr.already_handled_enter
  /\ t.skip_next_seccomp_signal = tr.skip_next_seccomp_signal
  /\ t.voided_cancelled = tr.voided_cancelled /\ t.chain = tr.chain /\ t.rewrite = tr.rewrite
  /\ t.suppressed_signal = tr.suppressed_signal /\ t.detected = tr.detected
  /\ t.after = tr.after /\ t.failed = tr.failed
(* UnderSeccomp asks for the exit stop or forgets it.                      *)
LEMMA UnderSeccompMoves ==
  ASSUME tr \in TraceeType, k \in KernelType
  PROVE  LET u == UnderSeccomp(Start)
         IN  /\ IsPair(u) /\ u.k = k
             /\ Begun(u.tr, IF tr.seccomp = "ENABLED" /\ ~IsInSysenter(tr) THEN "CONT" ELSE "SYSCALL",
                            IF tr.seccomp = "ENABLED" THEN IsInSysenter(tr) ELSE tr.sysexit_pending)
<1> DEFINE d == IF tr.seccomp = "ENABLED" /\ ~SysexitNecessary(tr) THEN "CONT" ELSE "SYSCALL"
           t == [tr EXCEPT !.restart_how = d]
           u == UnderSeccomp(Start)
<1>1. IsPair(Start) /\ Start.k = k /\ Start.tr = t
  BY StartMoves
<1>2. Begun(t, d, tr.sysexit_pending)
  BY DEF Begun, TraceeType, Requests
<1>3. CASE tr.seccomp # "ENABLED"
  <2>1. u = Start /\ d = "SYSCALL"
    BY <1>1, <1>2, <1>3 DEF UnderSeccomp, Begun
  <2> HIDE DEF d, t, u
  <2> QED BY <1>1, <1>2, <1>3, <2>1 DEF u
<1>4. ASSUME NEW h \in {"CONT", "SYSCALL"}, NEW b \in BOOLEAN,
             u = [How(Start, h) EXCEPT !.tr.sysexit_pending = b]
      PROVE  IsPair(u) /\ u.k = k /\ Begun(u.tr, h, b)
  <2> DEFINE w == How(Start, h)
             wt == [t EXCEPT !.restart_how = h]
             ut == [wt EXCEPT !.sysexit_pending = b]
  <2>1. IsPair(w) /\ w.k = k /\ w.tr = wt
    BY <1>1, HowMoves DEF Requests
  <2> HIDE DEF t, u
  <2>2. Begun(wt, h, tr.sysexit_pending)
    BY <1>2 DEF Begun, TraceeType, Requests
  <2> HIDE DEF w, wt
  <2>3. Begun(ut, h, b)
    BY <2>2 DEF Begun, TraceeType
  <2>4. u.k = k /\ u.tr = ut /\ DOMAIN u = {"tr", "k"}
    BY <1>4, <2>1 DEF IsPair, w
  <2> QED BY <2>3, <2>4 DEF IsPair, Begun
<1>5. CASE tr.seccomp = "ENABLED" /\ IsInSysenter(tr)
  <2>1. u = [How(Start, "SYSCALL") EXCEPT !.tr.sysexit_pending = TRUE]
    BY <1>1, <1>2, <1>5 DEF UnderSeccomp, Begun, IsInSysenter
  <2> HIDE DEF u
  <2>2. IsPair(u) /\ u.k = k /\ Begun(u.tr, "SYSCALL", TRUE)
    BY <1>4, <2>1
  <2> QED BY <1>5, <2>2 DEF u
<1>6. CASE tr.seccomp = "ENABLED" /\ ~IsInSysenter(tr)
  <2>1. u = [How(Start, "CONT") EXCEPT !.tr.sysexit_pending = FALSE]
    BY <1>1, <1>2, <1>6 DEF UnderSeccomp, Begun, IsInSysenter
  <2> HIDE DEF u
  <2>2. IsPair(u) /\ u.k = k /\ Begun(u.tr, "CONT", FALSE)
    BY <1>4, <2>1
  <2>3. IsInSysenter(tr) = FALSE
    BY <1>6 DEF IsInSysenter
  <2> QED BY <1>6, <2>2, <2>3 DEF u
<1> QED BY <1>3, <1>5, <1>6

(* An assertion that holds changes nothing.                                *)
LEMMA AssertMoves ==
  ASSUME NEW st, IsPair(st), NEW cond, cond, NEW name
  PROVE  LET n == Assert(st, cond, name) IN IsPair(n) /\ n.k = st.k /\ n.tr = st.tr
<1> DEFINE t == st.tr
           n == Assert(st, cond, name)
<1>1. t \in TraceeType
  BY DEF IsPair
<1>2. n.k = st.k /\ n.tr = [t EXCEPT !.failed = t.failed] /\ DOMAIN n = {"tr", "k"}
  BY DEF Assert, IsPair
<1> HIDE DEF t, n
<1>3. [t EXCEPT !.failed = t.failed] = t
  BY <1>1 DEF TraceeType
<1> QED BY <1>1, <1>2, <1>3 DEF IsPair, t, n

(* The enter stop of a call whose enter stage the SECCOMP stop handled.    *)
LEMMA AlreadyHandledInv ==
  ASSUME Covered, Inv, k.at \in {"stop_enter", "stop_exit"}, tr.already_handled_enter,
         Restart(AlreadyHandled(UnderSeccomp(Start)))
  PROVE  Inv'
<1> DEFINE u == UnderSeccomp(Start)
           a1 == Assert(u, ~IsInSysenter(u.tr), "event.c:630")
           a2 == Assert(a1, ~u.tr.after, "event.c:631")
           w == How(a2, "SYSCALL")
           m == [w EXCEPT !.tr.already_handled_enter = FALSE]
           t == u.tr
           pend == IF tr.seccomp = "ENABLED" THEN IsInSysenter(tr) ELSE tr.sysexit_pending
           how == IF tr.seccomp = "ENABLED" /\ ~IsInSysenter(tr) THEN "CONT" ELSE "SYSCALL"
<1>1. Known /\ Coherent /\ tr \in TraceeType /\ k \in KernelType /\ env \in Environments
  BY FieldsKnown DEF Inv, TypesPart
<1>2. IsPair(u) /\ u.k = k /\ Begun(t, how, pend)
  BY <1>1, UnderSeccompMoves
<1>3. ~IsInSysenter(t) /\ ~t.after /\ k.at = "stop_enter"
  BY <1>1, <1>2 DEF Known, HostFields, TraceeFields, Coherent, HostPart, StagePart, AtEnter, AtExit,
     HandledEnter, Begun, IsInSysenter
<1>4. Restart(m)
  BY DEF AlreadyHandled
<1> HIDE DEF u, t
<1>5. IsPair(a1) /\ a1.k = k /\ a1.tr = t
  BY <1>2, <1>3, AssertMoves DEF t
<1> HIDE DEF a1
<1>6. IsPair(a2) /\ a2.k = k /\ a2.tr = t
  BY <1>3, <1>5, AssertMoves DEF t
<1> HIDE DEF a2
<1>7. IsPair(w) /\ w.k = k /\ w.tr = [t EXCEPT !.restart_how = "SYSCALL"]
  BY <1>6, HowMoves DEF Requests
<1> HIDE DEF w
<1>8. /\ m.k = k /\ DOMAIN m = {"tr", "k"}
      /\ m.tr = [[t EXCEPT !.restart_how = "SYSCALL"] EXCEPT !.already_handled_enter = FALSE]
  BY <1>7 DEF IsPair
<1> HIDE DEF m
<1>9. IsPair(m)
  <2>1. t \in TraceeType
    BY <1>2 DEF Begun
  <2>2. m.tr \in TraceeType
    BY <1>8, <2>1 DEF TraceeType, Requests
  <2> QED BY <1>1, <1>8, <2>2 DEF IsPair
<1>10. /\ m.tr.status = t.status /\ m.tr.restart_how = "SYSCALL"
      /\ m.tr.last_restart_how = t.last_restart_how /\ m.tr.seccomp = t.seccomp
      /\ m.tr.sysexit_pending = t.sysexit_pending /\ m.tr.already_handled_enter = FALSE
      /\ m.tr.skip_next_seccomp_signal = t.skip_next_seccomp_signal
      /\ m.tr.voided_cancelled = t.voided_cancelled /\ m.tr.chain = t.chain
      /\ m.tr.rewrite = t.rewrite /\ m.tr.suppressed_signal = t.suppressed_signal
      /\ m.tr.detected = t.detected /\ m.tr.after = t.after /\ m.tr.failed = t.failed
  BY <1>2, <1>8 DEF Begun, TraceeType
<1>11. /\ SameTracee(m.tr, tr') /\ tr'.last_restart_how = m.tr.restart_how
      /\ tr'.restart_how = "0" /\ env' = env /\ Resumed(k, k', m.tr.restart_how)
  BY <1>4, <1>8, <1>9, RestartMoves
<1> HIDE DEF how
<1> QED
  BY <1>1, <1>2, <1>3, <1>10, <1>11
  DEF Coherent, Known, TraceeFields, CallFields, HostFields, HostPart, RequestPart,
       BetweenPart, CallPart, NotExited, Follows, NotEntered, Voided, Origin, StagePart, AtEnter,
       AtExit, Running, AtSeccomp, AtEvent, HandledEnter, TrapPart, SkipNext, TrappedCall,
       AtSigsys, ResultPart, ExitAsked, FakeKept, Between, IsInSysenter, Cancelled,
       NULL, Requests, Places,
       SameStops, SameTracee, Resumed, SameCall, GoesTo, Left, Filtered, Trapped, Verdict, Begun, Inv, TypesPart

(* The end of a SIGTRAP|0x80 stop, after the stage was translated.         *)
Finished(t, skip, tn) ==
  /\ tn \in TraceeType
  /\ tn.status = t.status
  /\ tn.restart_how = (IF t.seccomp = "DISABLING" THEN "SYSCALL" ELSE t.restart_how)
  /\ tn.last_restart_how = t.last_restart_how
  /\ tn.seccomp = (IF t.seccomp = "DISABLING" THEN "DISABLED" ELSE t.seccomp)
  /\ tn.sysexit_pending = t.sysexit_pending
  /\ tn.already_handled_enter = t.already_handled_enter /\ tn.skip_next_seccomp_signal = skip
  /\ tn.voided_cancelled = t.voided_cancelled /\ tn.chain = t.chain /\ tn.rewrite = t.rewrite
  /\ tn.suppressed_signal = (t.suppressed_signal /\ (t.chain # NULL \/ t.rewrite))
  /\ tn.detected = t.detected /\ tn.after = t.after /\ tn.failed = t.failed
(* skip_next_seccomp_signal, the suppressed signal and the disabling of    *)
(* seccomp at the end of a stop.                                           *)
LEMMA FinishMoves ==
  ASSUME NEW n, IsPair(n), NEW skip \in BOOLEAN
  PROVE  LET m == FinishDisabling(Redeliver([n EXCEPT !.tr.skip_next_seccomp_signal = skip]))
         IN  IsPair(m) /\ m.k = n.k /\ Finished(n.tr, skip, m.tr)
<1> DEFINE t == n.tr
           n1 == [n EXCEPT !.tr.skip_next_seccomp_signal = skip]
           t1 == [t EXCEPT !.skip_next_seccomp_signal = skip]
           n2 == Redeliver(n1)
           sup == t.suppressed_signal /\ (t.chain # NULL \/ t.rewrite)
           t2 == [t1 EXCEPT !.suppressed_signal = sup]
           n3 == [How(n2, "SYSCALL") EXCEPT !.tr.seccomp = "DISABLED"]
           t3 == [[t2 EXCEPT !.restart_how = "SYSCALL"] EXCEPT !.seccomp = "DISABLED"]
           m == FinishDisabling(n2)
<1>1. t \in TraceeType /\ n.k \in KernelType
  BY DEF IsPair
<1>2. n1.tr = t1 /\ n1.k = n.k /\ DOMAIN n1 = {"tr", "k"}
  BY DEF IsPair
<1> HIDE DEF t, n1
<1>3. t1 \in TraceeType
  BY <1>1 DEF TraceeType
<1>4. /\ t1.status = t.status /\ t1.restart_how = t.restart_how
      /\ t1.last_restart_how = t.last_restart_how /\ t1.seccomp = t.seccomp
      /\ t1.sysexit_pending = t.sysexit_pending
      /\ t1.already_handled_enter = t.already_handled_enter
      /\ t1.skip_next_seccomp_signal = skip /\ t1.voided_cancelled = t.voided_cancelled
      /\ t1.chain = t.chain /\ t1.rewrite = t.rewrite
      /\ t1.suppressed_signal = t.suppressed_signal /\ t1.detected = t.detected
      /\ t1.after = t.after /\ t1.failed = t.failed
  BY <1>1 DEF TraceeType
<1> HIDE DEF t1
<1>5. n2.tr = t2 /\ n2.k = n.k /\ DOMAIN n2 = {"tr", "k"}
  BY <1>2, <1>3, <1>4 DEF Redeliver, TraceeType
<1>6. sup \in BOOLEAN
  OBVIOUS
<1> HIDE DEF sup, n2
<1>7. t2 \in TraceeType
  BY <1>3, <1>6 DEF TraceeType
<1>8. /\ t2.status = t1.status /\ t2.restart_how = t1.restart_how
      /\ t2.last_restart_how = t1.last_restart_how /\ t2.seccomp = t1.seccomp
      /\ t2.sysexit_pending = t1.sysexit_pending
      /\ t2.already_handled_enter = t1.already_handled_enter
      /\ t2.skip_next_seccomp_signal = t1.skip_next_seccomp_signal
      /\ t2.voided_cancelled = t1.voided_cancelled /\ t2.chain = t1.chain
      /\ t2.rewrite = t1.rewrite /\ t2.suppressed_signal = sup /\ t2.detected = t1.detected
      /\ t2.after = t1.after /\ t2.failed = t1.failed
  BY <1>3 DEF TraceeType
<1> HIDE DEF t2
<1>9. CASE t.seccomp # "DISABLING"
  <2>1. m = n2
    BY <1>4, <1>5, <1>8, <1>9 DEF FinishDisabling
  <2>2. Finished(t, skip, t2)
    BY <1>4, <1>7, <1>8, <1>9 DEF Finished, sup
  <2> QED BY <1>1, <1>5, <1>7, <2>1, <2>2 DEF IsPair, t, n1, n2
<1>10. CASE t.seccomp = "DISABLING"
  <2>1. m = n3
    BY <1>4, <1>5, <1>8, <1>10 DEF FinishDisabling
  <2>2. n3.tr = t3 /\ n3.k = n.k /\ DOMAIN n3 = {"tr", "k"}
    BY <1>5 DEF How
  <2>3. t3 \in TraceeType
    BY <1>7 DEF TraceeType, Requests
  <2>4. /\ t3.status = t2.status /\ t3.restart_how = "SYSCALL"
      /\ t3.last_restart_how = t2.last_restart_how /\ t3.seccomp = "DISABLED"
      /\ t3.sysexit_pending = t2.sysexit_pending
      /\ t3.already_handled_enter = t2.already_handled_enter
      /\ t3.skip_next_seccomp_signal = t2.skip_next_seccomp_signal
      /\ t3.voided_cancelled = t2.voided_cancelled /\ t3.chain = t2.chain
      /\ t3.rewrite = t2.rewrite /\ t3.suppressed_signal = t2.suppressed_signal
      /\ t3.detected = t2.detected /\ t3.after = t2.after /\ t3.failed = t2.failed
    BY <1>7 DEF TraceeType
  <2> HIDE DEF t3, n3
  <2>5. Finished(t, skip, t3)
    BY <1>4, <1>8, <1>10, <2>3, <2>4 DEF Finished, sup
  <2> QED BY <1>1, <2>1, <2>2, <2>3, <2>5 DEF IsPair, t, n1, n2
<1> QED BY <1>9, <1>10

(* The enter stage of a call of the guest at its enter stop.               *)
LEMMA EnterStopInv ==
  ASSUME Covered, Inv, k.at \in {"stop_enter", "stop_exit"}, ~tr.already_handled_enter,
         IsInSysenter(tr), tr.chain = NULL, NEW o \in EnterOutcomes(k.call.class),
         NEW skip \in BOOLEAN,
         LET n == EnterGuest(UnderSeccomp(Start), o)
         IN  /\ skip <=> n.k.call.nr = "void"
             /\ Restart(FinishDisabling(Redeliver([n EXCEPT !.tr.skip_next_seccomp_signal = skip])))
  PROVE  Inv'
<1> DEFINE u == UnderSeccomp(Start)
           n == EnterGuest(u, o)
           m == FinishDisabling(Redeliver([n EXCEPT !.tr.skip_next_seccomp_signal = skip]))
           pend == IF tr.seccomp = "ENABLED" THEN IsInSysenter(tr) ELSE tr.sysexit_pending
           how == IF tr.seccomp = "ENABLED" /\ ~IsInSysenter(tr) THEN "CONT" ELSE "SYSCALL"
<1>1. Known /\ Coherent /\ tr \in TraceeType /\ k \in KernelType /\ env \in Environments
  BY FieldsKnown DEF Inv, TypesPart
<1>2. IsPair(u) /\ u.k = k /\ Begun(u.tr, how, pend)
  BY <1>1, UnderSeccompMoves
<1>3. k.at = "stop_enter" /\ k.call.enters = 0
  BY <1>1 DEF Known, CallFields, TraceeFields, Coherent, StagePart, AtEnter, AtExit
<1>4. Restart(m) /\ (skip <=> n.k.call.nr = "void")
  OBVIOUS
<1> HIDE DEF u
<1>5. IsPair(n) /\ Entered(u.tr, k, o, n.tr, n.k)
  BY <1>2, <1>3, EnterMoves
<1> HIDE DEF n
<1>6. IsPair(m) /\ m.k = n.k /\ Finished(n.tr, skip, m.tr)
  BY <1>5, FinishMoves
<1> HIDE DEF m
<1>7. /\ SameTracee(m.tr, tr') /\ tr'.last_restart_how = m.tr.restart_how
      /\ tr'.restart_how = "0" /\ env' = env /\ Resumed(n.k, k', m.tr.restart_how)
  BY <1>4, <1>6, RestartMoves
<1>8. o \in EnterOutcomes(k.call.class)
  OBVIOUS
<1> QED
  BY <1>1, <1>2, <1>3, <1>4, <1>5, <1>6, <1>7, <1>8
  DEF Coherent, Known, TraceeFields, CallFields, HostFields, HostPart, RequestPart,
       BetweenPart, CallPart, NotExited, Follows, NotEntered, Voided, Origin, StagePart, AtEnter,
       AtExit, Running, AtSeccomp, AtEvent, HandledEnter, TrapPart, SkipNext, TrappedCall,
       AtSigsys, ResultPart, ExitAsked, FakeKept, Between, IsInSysenter, Cancelled,
       NULL, Requests, Places,
       SameStops, SameTracee, Resumed, SameCall, GoesTo, Left, Filtered, Trapped, Verdict, Begun, Entered, Finished,
       Refuses, Voids, Pends, SeesExit, EnterOutcomes, Inv, TypesPart

(* The enter stage of a chained call.                                      *)
LEMMA EnterChainedStopInv ==
  ASSUME Covered, Inv, k.at \in {"stop_enter", "stop_exit"}, ~tr.already_handled_enter,
         IsInSysenter(tr), tr.chain # NULL,
         NEW skip \in BOOLEAN,
         LET n == EnterChained(UnderSeccomp(Start))
         IN  /\ skip <=> IsInSysenter(tr) /\ n.k.call.nr = "void"
             /\ Restart(FinishDisabling(Redeliver([n EXCEPT !.tr.skip_next_seccomp_signal = skip])))
  PROVE  Inv'
<1> DEFINE u == UnderSeccomp(Start)
           n == EnterChained(u)
           m == FinishDisabling(Redeliver([n EXCEPT !.tr.skip_next_seccomp_signal = skip]))
           pend == IF tr.seccomp = "ENABLED" THEN IsInSysenter(tr) ELSE tr.sysexit_pending
           how == IF tr.seccomp = "ENABLED" /\ ~IsInSysenter(tr) THEN "CONT" ELSE "SYSCALL"
<1>1. Known /\ Coherent /\ tr \in TraceeType /\ k \in KernelType /\ env \in Environments
  BY FieldsKnown DEF Inv, TypesPart
<1>2. IsPair(u) /\ u.k = k /\ Begun(u.tr, how, pend)
  BY <1>1, UnderSeccompMoves
<1>3. k.at = "stop_enter" /\ k.call.enters = 0
  BY <1>1 DEF Known, CallFields, TraceeFields, Coherent, StagePart, AtEnter, AtExit
<1>4. Restart(m) /\ (skip <=> IsInSysenter(tr) /\ n.k.call.nr = "void")
  OBVIOUS
<1> HIDE DEF u
<1>5. IsPair(n) /\ ChainEntered(u.tr, k, n.tr, n.k)
  BY <1>2, <1>3, ChainedEnterMoves
<1> HIDE DEF n
<1>6. IsPair(m) /\ m.k = n.k /\ Finished(n.tr, skip, m.tr)
  BY <1>5, FinishMoves
<1> HIDE DEF m
<1>7. /\ SameTracee(m.tr, tr') /\ tr'.last_restart_how = m.tr.restart_how
      /\ tr'.restart_how = "0" /\ env' = env /\ Resumed(n.k, k', m.tr.restart_how)
  BY <1>4, <1>6, RestartMoves
<1> QED
  BY <1>1, <1>2, <1>3, <1>4, <1>5, <1>6, <1>7
  DEF Coherent, Known, TraceeFields, CallFields, HostFields, HostPart, RequestPart,
       BetweenPart, CallPart, NotExited, Follows, NotEntered, Voided, Origin, StagePart, AtEnter,
       AtExit, Running, AtSeccomp, AtEvent, HandledEnter, TrapPart, SkipNext, TrappedCall,
       AtSigsys, ResultPart, ExitAsked, FakeKept, Between, IsInSysenter, Cancelled,
       NULL, Requests, Places,
       SameStops, SameTracee, Resumed, SameCall, GoesTo, Left, Filtered, Trapped, Verdict, Begun, Finished,
       ChainEntered, Inv, TypesPart

(* The exit stage of a call at its exit stop.                              *)
LEMMA ExitStopInv ==
  ASSUME Covered, Inv, k.at \in {"stop_enter", "stop_exit"}, ~tr.already_handled_enter,
         ~IsInSysenter(tr), NEW o \in ExitOutcomes(UnderSeccomp(Start)),
         NEW skip \in BOOLEAN,
         LET n == ExitStage(UnderSeccomp(Start), o)
         IN  /\ skip <=> IsInSysenter(tr) /\ n.k.call.nr = "void"
             /\ Restart(FinishDisabling(Redeliver([n EXCEPT !.tr.skip_next_seccomp_signal = skip])))
  PROVE  Inv'
<1> DEFINE u == UnderSeccomp(Start)
           n == ExitStage(u, o)
           m == FinishDisabling(Redeliver([n EXCEPT !.tr.skip_next_seccomp_signal = skip]))
           pend == IF tr.seccomp = "ENABLED" THEN IsInSysenter(tr) ELSE tr.sysexit_pending
           how == IF tr.seccomp = "ENABLED" /\ ~IsInSysenter(tr) THEN "CONT" ELSE "SYSCALL"
<1>1. Known /\ Coherent /\ tr \in TraceeType /\ k \in KernelType /\ env \in Environments
  BY FieldsKnown DEF Inv, TypesPart
<1>2. IsPair(u) /\ u.k = k /\ Begun(u.tr, how, pend)
  BY <1>1, UnderSeccompMoves
<1>3. k.at = "stop_exit" /\ k.call.exits = 0
  BY <1>1 DEF Known, CallFields, TraceeFields, Coherent, StagePart, AtEnter, AtExit, CallPart, NotExited,
     Between, IsInSysenter
<1>4. Restart(m) /\ (skip <=> IsInSysenter(tr) /\ n.k.call.nr = "void")
  OBVIOUS
<1>8. o \in ExitOutcomes(u)
  OBVIOUS
<1> HIDE DEF u
<1>5. IsPair(n) /\ Exited(u.tr, k, o, n.tr, n.k)
  BY <1>1, <1>2, <1>3, ExitMoves DEF Begun, Known
<1> HIDE DEF n
<1>6. IsPair(m) /\ m.k = n.k /\ Finished(n.tr, skip, m.tr)
  BY <1>5, FinishMoves
<1> HIDE DEF m
<1>7. /\ SameTracee(m.tr, tr') /\ tr'.last_restart_how = m.tr.restart_how
      /\ tr'.restart_how = "0" /\ env' = env /\ Resumed(n.k, k', m.tr.restart_how)
  BY <1>4, <1>6, RestartMoves
<1> QED
  BY <1>1, <1>2, <1>3, <1>4, <1>5, <1>6, <1>7, <1>8
  DEF Coherent, Known, TraceeFields, CallFields, HostFields, HostPart, RequestPart,
       BetweenPart, CallPart, NotExited, Follows, NotEntered, Voided, Origin, StagePart, AtEnter,
       AtExit, Running, AtSeccomp, AtEvent, HandledEnter, TrapPart, SkipNext, TrappedCall,
       AtSigsys, ResultPart, ExitAsked, FakeKept, Between, IsInSysenter, Cancelled,
       NULL, Requests, Places,
       SameStops, SameTracee, Resumed, SameCall, GoesTo, Left, Filtered, Trapped, Verdict, Begun, Finished,
       Exited, ExitOutcomes, Inv, TypesPart

(* A SIGTRAP|0x80 stop keeps the invariant.                                *)
LEMMA SyscallStopInv == ASSUME Covered, Inv, SyscallStop PROVE Inv'
<1> DEFINE u == UnderSeccomp(Start)
<1>1. Known /\ tr \in TraceeType /\ k \in KernelType
  BY FieldsKnown
<1>2. IsPair(u) /\ u.tr.status = tr.status /\ u.tr.chain = tr.chain /\ u.k = k
  BY <1>1, UnderSeccompMoves DEF Begun
<1>3. k.at \in {"stop_enter", "stop_exit"} /\ tr.seccomp # "DISABLING"
  BY <1>1 DEF SyscallStop, Known
<1>4. CASE tr.already_handled_enter
  BY <1>3, <1>4, AlreadyHandledInv DEF SyscallStop
<1>5. CASE ~tr.already_handled_enter
  <2>1. PICK n \in translate_syscall(u) :
          Restart(FinishDisabling(Redeliver(
            [n EXCEPT !.tr.skip_next_seccomp_signal = IsInSysenter(u.tr) /\ n.k.call.nr = "void"])))
    BY <1>3, <1>5 DEF SyscallStop, TranslateAtStop
  <2> DEFINE skip == IsInSysenter(u.tr) /\ n.k.call.nr = "void"
  <2>2. skip \in BOOLEAN /\ (skip <=> IsInSysenter(tr) /\ n.k.call.nr = "void")
        /\ Restart(FinishDisabling(Redeliver([n EXCEPT !.tr.skip_next_seccomp_signal = skip])))
    BY <1>2, <2>1 DEF IsInSysenter
  <2> HIDE DEF skip
  <2>3. CASE ~IsInSysenter(tr)
    <3>1. PICK o \in ExitOutcomes(u) : n = ExitStage(u, o)
      BY <1>2, <2>1, <2>3 DEF translate_syscall, IsInSysenter
    <3> QED BY <1>3, <1>5, <2>2, <2>3, <3>1, ExitStopInv
  <2>4. CASE IsInSysenter(tr) /\ tr.chain # NULL
    <3>1. n = EnterChained(u)
      BY <1>2, <2>1, <2>4 DEF translate_syscall, IsInSysenter
    <3> QED BY <1>3, <1>5, <2>2, <2>4, <3>1, EnterChainedStopInv
  <2>5. CASE IsInSysenter(tr) /\ tr.chain = NULL
    <3>1. PICK o \in EnterOutcomes(k.call.class) : n = EnterGuest(u, o)
      BY <1>2, <2>1, <2>5 DEF translate_syscall, IsInSysenter
    <3>2. skip <=> n.k.call.nr = "void"
      BY <2>2, <2>5
    <3> QED BY <1>3, <1>5, <2>2, <2>5, <3>1, <3>2, EnterStopInv
  <2> QED BY <2>3, <2>4, <2>5
<1> QED BY <1>4, <1>5

-----------------------------------------------------------------------------
(* At a SECCOMP stop the kernel's order is known, and nothing is skipped.  *)
Detected(t, how) ==
  /\ t \in TraceeType
  /\ t.status = tr.status /\ t.restart_how = how /\ t.last_restart_how = tr.last_restart_how
  /\ t.seccomp = (IF tr.detected THEN tr.seccomp ELSE "ENABLED")
  /\ t.sysexit_pending = tr.sysexit_pending
  /\ t.already_handled_enter = tr.already_handled_enter /\ t.skip_next_seccomp_signal = FALSE
  /\ t.voided_cancelled = tr.voided_cancelled /\ t.chain = tr.chain /\ t.rewrite = tr.rewrite
  /\ t.suppressed_signal = tr.suppressed_signal /\ t.detected = TRUE
  /\ t.after = (IF tr.detected THEN tr.after ELSE ~IsInSysenter(tr)) /\ t.failed = tr.failed
(* The first SECCOMP stop tells the order, the later ones change nothing   *)
(* of it.                                                                  *)
LEMMA DetectMoves ==
  ASSUME tr \in TraceeType, k \in KernelType
  PROVE  LET st == [Detect(Start) EXCEPT !.tr.skip_next_seccomp_signal = FALSE]
         IN  /\ IsPair(st) /\ st.k = k
             /\ Detected(st.tr, IF tr.seccomp = "ENABLED" /\ ~SysexitNecessary(tr) THEN "CONT" ELSE "SYSCALL")
<1> DEFINE d == IF tr.seccomp = "ENABLED" /\ ~SysexitNecessary(tr) THEN "CONT" ELSE "SYSCALL"
           t == [tr EXCEPT !.restart_how = d]
           af == ~IsInSysenter(tr)
           td == [[[t EXCEPT !.seccomp = "ENABLED"] EXCEPT !.detected = TRUE] EXCEPT !.after = af]
           t1 == IF tr.detected THEN t ELSE td
           sd == Detect(Start)
           st == [sd EXCEPT !.tr.skip_next_seccomp_signal = FALSE]
           tn == [t1 EXCEPT !.skip_next_seccomp_signal = FALSE]
<1>1. IsPair(Start) /\ Start.k = k /\ Start.tr = t
  BY StartMoves
<1>2. t \in TraceeType
  BY DEF TraceeType, Requests
<1>3. /\ t.status = tr.status /\ t.restart_how = d /\ t.last_restart_how = tr.last_restart_how
      /\ t.seccomp = tr.seccomp /\ t.sysexit_pending = tr.sysexit_pending
      /\ t.already_handled_enter = tr.already_handled_enter
      /\ t.skip_next_seccomp_signal = tr.skip_next_seccomp_signal
      /\ t.voided_cancelled = tr.voided_cancelled /\ t.chain = tr.chain
      /\ t.rewrite = tr.rewrite /\ t.suppressed_signal = tr.suppressed_signal
      /\ t.detected = tr.detected /\ t.after = tr.after /\ t.failed = tr.failed
  BY DEF TraceeType
<1>4. af \in BOOLEAN
  BY DEF IsInSysenter
<1> HIDE DEF d, t
<1>5. sd.tr = t1 /\ sd.k = k /\ DOMAIN sd = {"tr", "k"}
  <2>1. CASE tr.detected
    BY <1>1, <1>3, <2>1 DEF Detect, IsPair
  <2>2. CASE ~tr.detected
    <3> DEFINE a1 == [Start EXCEPT !.tr.seccomp = "ENABLED"]
               a2 == [a1 EXCEPT !.tr.detected = TRUE]
               a3 == [a2 EXCEPT !.tr.after = af]
    <3>1. sd = a3
      BY <1>1, <1>3, <2>2 DEF Detect, IsInSysenter
    <3>2. a1.tr = [t EXCEPT !.seccomp = "ENABLED"] /\ a1.k = k /\ DOMAIN a1 = {"tr", "k"}
      BY <1>1 DEF IsPair
    <3> HIDE DEF a1, af
    <3>3. a2.tr = [a1.tr EXCEPT !.detected = TRUE] /\ a2.k = k /\ DOMAIN a2 = {"tr", "k"}
      BY <3>2
    <3> HIDE DEF a2
    <3>4. a3.tr = [a2.tr EXCEPT !.after = af] /\ a3.k = k /\ DOMAIN a3 = {"tr", "k"}
      BY <3>3
    <3> QED BY <2>2, <3>1, <3>2, <3>3, <3>4
  <2> QED BY <2>1, <2>2
<1>6. st.tr = tn /\ st.k = k /\ DOMAIN st = {"tr", "k"}
  BY <1>5
<1> HIDE DEF sd, af
<1>7. td \in TraceeType
  BY <1>2, <1>4 DEF TraceeType
<1>8. /\ td.status = t.status /\ td.restart_how = t.restart_how
      /\ td.last_restart_how = t.last_restart_how /\ td.seccomp = "ENABLED"
      /\ td.sysexit_pending = t.sysexit_pending
      /\ td.already_handled_enter = t.already_handled_enter
      /\ td.skip_next_seccomp_signal = t.skip_next_seccomp_signal
      /\ td.voided_cancelled = t.voided_cancelled /\ td.chain = t.chain
      /\ td.rewrite = t.rewrite /\ td.suppressed_signal = t.suppressed_signal
      /\ td.detected = TRUE /\ td.after = af /\ td.failed = t.failed
  BY <1>2 DEF TraceeType
<1> HIDE DEF td
<1>9. t1 \in TraceeType
  BY <1>2, <1>7
<1>10. /\ t1.status = tr.status /\ t1.restart_how = d
      /\ t1.last_restart_how = tr.last_restart_how
      /\ t1.seccomp = (IF tr.detected THEN tr.seccomp ELSE "ENABLED")
      /\ t1.sysexit_pending = tr.sysexit_pending
      /\ t1.already_handled_enter = tr.already_handled_enter
      /\ t1.skip_next_seccomp_signal = tr.skip_next_seccomp_signal
      /\ t1.voided_cancelled = tr.voided_cancelled /\ t1.chain = tr.chain
      /\ t1.rewrite = tr.rewrite /\ t1.suppressed_signal = tr.suppressed_signal
      /\ t1.detected = TRUE /\ t1.after = (IF tr.detected THEN tr.after ELSE af)
      /\ t1.failed = tr.failed
  <2>1. CASE tr.detected
    <3>1. tr.detected = TRUE
      BY <2>1 DEF TraceeType
    <3> QED BY <1>3, <2>1, <3>1
  <2>2. CASE ~tr.detected
    BY <1>3, <1>8, <2>2
  <2> QED BY <2>1, <2>2
<1> HIDE DEF t1
<1>11. tn \in TraceeType
  BY <1>9 DEF TraceeType
<1>12. /\ tn.status = t1.status /\ tn.restart_how = t1.restart_how
      /\ tn.last_restart_how = t1.last_restart_how /\ tn.seccomp = t1.seccomp
      /\ tn.sysexit_pending = t1.sysexit_pending
      /\ tn.already_handled_enter = t1.already_handled_enter
      /\ tn.skip_next_seccomp_signal = FALSE /\ tn.voided_cancelled = t1.voided_cancelled
      /\ tn.chain = t1.chain /\ tn.rewrite = t1.rewrite
      /\ tn.suppressed_signal = t1.suppressed_signal /\ tn.detected = t1.detected
      /\ tn.after = t1.after /\ tn.failed = t1.failed
  BY <1>9 DEF TraceeType
<1> HIDE DEF tn, st
<1>13. Detected(tn, d)
  BY <1>10, <1>11, <1>12 DEF Detected, af
<1> QED BY <1>6, <1>11, <1>13 DEF IsPair, st, sd, d

(* The end of the enter stage at a SECCOMP stop.                           *)
Handled(t, tn) ==
  /\ tn \in TraceeType
  /\ tn.status = t.status
  /\ tn.restart_how = (IF t.sysexit_pending \/ t.seccomp = "DISABLING" THEN "SYSCALL" ELSE t.restart_how)
  /\ tn.last_restart_how = t.last_restart_how /\ tn.seccomp = t.seccomp
  /\ tn.sysexit_pending = t.sysexit_pending
  /\ tn.already_handled_enter = (t.already_handled_enter \/ (~t.after /\ tn.restart_how = "SYSCALL" /\ ~t.voided_cancelled))
  /\ tn.skip_next_seccomp_signal = t.skip_next_seccomp_signal
  /\ tn.voided_cancelled = t.voided_cancelled /\ tn.chain = t.chain /\ tn.rewrite = t.rewrite
  /\ tn.suppressed_signal = t.suppressed_signal /\ tn.detected = t.detected
  /\ tn.after = t.after /\ tn.failed = t.failed
(* HandledAtSeccomp asks for the exit stop where it is needed and expects  *)
(* an enter stop before it.                                                *)
LEMMA HandledMoves ==
  ASSUME NEW n, IsPair(n)
  PROVE  LET m == HandledAtSeccomp(n) IN IsPair(m) /\ m.k = n.k /\ Handled(n.tr, m.tr)
<1> DEFINE s1 == IF n.tr.sysexit_pending \/ n.tr.seccomp = "DISABLING" THEN How(n, "SYSCALL") ELSE n
           h == IF n.tr.sysexit_pending \/ n.tr.seccomp = "DISABLING" THEN "SYSCALL" ELSE n.tr.restart_how
           t == n.tr
           t1 == s1.tr
           b == t1.already_handled_enter \/ (~t1.after /\ t1.restart_how = "SYSCALL" /\ ~t1.voided_cancelled)
           tn == [t1 EXCEPT !.already_handled_enter = b]
           m == HandledAtSeccomp(n)
<1>1. IsPair(s1) /\ s1.k = n.k /\ t \in TraceeType
  BY HowMoves DEF IsPair, Requests
<1>2. /\ t1.status = t.status /\ t1.restart_how = h /\ t1.last_restart_how = t.last_restart_how
      /\ t1.seccomp = t.seccomp /\ t1.sysexit_pending = t.sysexit_pending
      /\ t1.already_handled_enter = t.already_handled_enter
      /\ t1.skip_next_seccomp_signal = t.skip_next_seccomp_signal
      /\ t1.voided_cancelled = t.voided_cancelled /\ t1.chain = t.chain
      /\ t1.rewrite = t.rewrite /\ t1.suppressed_signal = t.suppressed_signal
      /\ t1.detected = t.detected /\ t1.after = t.after /\ t1.failed = t.failed
  <2>1. CASE t.sysexit_pending \/ t.seccomp = "DISABLING"
    <3>1. t1 = [t EXCEPT !.restart_how = "SYSCALL"] /\ h = "SYSCALL"
      BY <2>1, HowMoves DEF Requests
    <3> HIDE DEF t1, t, h
    <3> QED BY <1>1, <3>1 DEF TraceeType
  <2>2. CASE ~(t.sysexit_pending \/ t.seccomp = "DISABLING")
    BY <2>2
  <2> QED BY <2>1, <2>2
<1>3. m = [s1 EXCEPT !.tr.already_handled_enter = b]
  BY DEF HandledAtSeccomp
<1> HIDE DEF s1, m
<1>4. m.tr = tn /\ m.k = n.k /\ DOMAIN m = {"tr", "k"}
  BY <1>1, <1>3 DEF IsPair
<1>5. t1 \in TraceeType /\ b \in BOOLEAN
  <2>1. t1 \in TraceeType
    BY <1>1 DEF IsPair
  <2>2. b \in BOOLEAN
    OBVIOUS
  <2> QED BY <2>1, <2>2
<1> HIDE DEF t1, b, t, h
<1>6. tn \in TraceeType
  BY <1>5 DEF TraceeType
<1>7. /\ tn.status = t1.status /\ tn.restart_how = t1.restart_how
      /\ tn.last_restart_how = t1.last_restart_how /\ tn.seccomp = t1.seccomp
      /\ tn.sysexit_pending = t1.sysexit_pending /\ tn.already_handled_enter = b
      /\ tn.skip_next_seccomp_signal = t1.skip_next_seccomp_signal
      /\ tn.voided_cancelled = t1.voided_cancelled /\ tn.chain = t1.chain
      /\ tn.rewrite = t1.rewrite /\ tn.suppressed_signal = t1.suppressed_signal
      /\ tn.detected = t1.detected /\ tn.after = t1.after /\ tn.failed = t1.failed
  BY <1>5 DEF TraceeType
<1> HIDE DEF tn
<1>8. Handled(t, tn)
  BY <1>2, <1>6, <1>7 DEF Handled, b, h, t
<1> QED BY <1>1, <1>4, <1>6, <1>8 DEF IsPair, t, m

(* The pair a SECCOMP stop leaves to restart_tracee when no stage of the   *)
(* call is translated there.                                               *)
LEMMA UntouchedInv ==
  ASSUME Covered, Inv, k.at = "stop_seccomp", NEW how, NEW m, IsPair(m), m.k = k,
         Detected(m.tr, how), Restart(m),
         \/ /\ (IF tr.detected THEN tr.after ELSE ~IsInSysenter(tr)) /\ ~IsInSysenter(tr)
            /\ how = tr.last_restart_how
         \/ /\ IsInSysenter(tr) /\ tr.detected /\ tr.seccomp # "ENABLED"
            /\ how = "SYSCALL"
         \/ /\ IsInSysenter(tr) /\ ~(IF tr.detected THEN tr.after ELSE ~IsInSysenter(tr))
            /\ k.call.class \in {"exit", "traceme"} \/ SysexitNecessary(tr)
            /\ (IF tr.detected THEN tr.seccomp ELSE "ENABLED") = "ENABLED" /\ how = "SYSCALL"
  PROVE  Inv'
<1>1. Known /\ Coherent /\ tr \in TraceeType /\ k \in KernelType /\ env \in Environments
  BY FieldsKnown DEF Inv, TypesPart
<1>2. /\ SameTracee(m.tr, tr') /\ tr'.last_restart_how = m.tr.restart_how
      /\ tr'.restart_how = "0" /\ env' = env /\ Resumed(k, k', m.tr.restart_how)
  BY RestartMoves
<1> QED
  BY <1>1, <1>2
  DEF Coherent, Known, TraceeFields, CallFields, HostFields, HostPart, RequestPart,
       BetweenPart, CallPart, NotExited, Follows, NotEntered, Voided, Origin, StagePart, AtEnter,
       AtExit, Running, AtSeccomp, AtEvent, HandledEnter, TrapPart, SkipNext, TrappedCall,
       AtSigsys, ResultPart, ExitAsked, FakeKept, Between, IsInSysenter, Cancelled,
       NULL, Requests, Places,
       SameStops, SameTracee, Resumed, SameCall, GoesTo, Left, Filtered, Trapped, Verdict, Detected, SysexitNecessary, Inv, TypesPart

(* The enter stage at the SECCOMP stop of a call that PRoot filters        *)
(* without its exit.                                                       *)
LEMMA UnflaggedInv ==
  ASSUME Covered, Inv, k.at = "stop_seccomp", IsInSysenter(tr), ~(k.call.class \in {"exit", "traceme"} \/ SysexitNecessary(tr)),
         NEW w, IsPair(w), w.k = k, Detected(w.tr, "CONT"),
         (IF tr.detected THEN tr.seccomp ELSE "ENABLED") = "ENABLED",
         tr.chain = NULL, NEW o \in EnterOutcomes(k.call.class),
         Restart(HandledAtSeccomp(EnterGuest(w, o)))
  PROVE  Inv'
<1> DEFINE n == EnterGuest(w, o)
           m == HandledAtSeccomp(n)
<1>1. Known /\ Coherent /\ tr \in TraceeType /\ k \in KernelType /\ env \in Environments
  BY FieldsKnown DEF Inv, TypesPart
<1>2. k.call.enters = 0
  BY <1>1 DEF Known, CallFields, TraceeFields, Coherent, StagePart, AtSeccomp
<1>3. IsPair(n) /\ Entered(w.tr, k, o, n.tr, n.k)
  BY <1>2, EnterMoves
<1>4. Restart(m)
  OBVIOUS
<1> HIDE DEF n
<1>5. IsPair(m) /\ m.k = n.k /\ Handled(n.tr, m.tr)
  BY <1>3, HandledMoves
<1> HIDE DEF m
<1>6. /\ SameTracee(m.tr, tr') /\ tr'.last_restart_how = m.tr.restart_how
      /\ tr'.restart_how = "0" /\ env' = env /\ Resumed(n.k, k', m.tr.restart_how)
  BY <1>4, <1>5, RestartMoves
<1> QED
  BY <1>1, <1>2, <1>3, <1>5, <1>6
  DEF Coherent, Known, TraceeFields, CallFields, HostFields, HostPart, RequestPart,
       BetweenPart, CallPart, NotExited, Follows, NotEntered, Voided, Origin, StagePart, AtEnter,
       AtExit, Running, AtSeccomp, AtEvent, HandledEnter, TrapPart, SkipNext, TrappedCall,
       AtSigsys, ResultPart, ExitAsked, FakeKept, Between, IsInSysenter, Cancelled,
       NULL, Requests, Places,
       SameStops, SameTracee, Resumed, SameCall, GoesTo, Left, Filtered, Trapped, Verdict,
       Detected, Entered, Refuses, Voids, Pends, SeesExit, EnterOutcomes, Handled, SysexitNecessary, Inv, TypesPart

(* How as fields.                                                          *)
SetHow(t, tn, h) ==
  /\ tn \in TraceeType
  /\ tn.status = t.status /\ tn.restart_how = h /\ tn.last_restart_how = t.last_restart_how
  /\ tn.seccomp = t.seccomp /\ tn.sysexit_pending = t.sysexit_pending
  /\ tn.already_handled_enter = t.already_handled_enter
  /\ tn.skip_next_seccomp_signal = t.skip_next_seccomp_signal
  /\ tn.voided_cancelled = t.voided_cancelled /\ tn.chain = t.chain /\ tn.rewrite = t.rewrite
  /\ tn.suppressed_signal = t.suppressed_signal /\ tn.detected = t.detected
  /\ tn.after = t.after /\ tn.failed = t.failed
(* How, read field by field.                                               *)
LEMMA SetHowMoves ==
  ASSUME NEW st, IsPair(st), NEW h \in Requests
  PROVE  IsPair(How(st, h)) /\ How(st, h).k = st.k /\ SetHow(st.tr, How(st, h).tr, h)
<1> DEFINE t == st.tr
           tn == [t EXCEPT !.restart_how = h]
<1>1. t \in TraceeType
  BY DEF IsPair
<1>2. IsPair(How(st, h)) /\ How(st, h).k = st.k /\ How(st, h).tr = tn
  BY HowMoves
<1> HIDE DEF t
<1>3. SetHow(t, tn, h)
  BY <1>1 DEF TraceeType, SetHow
<1> QED BY <1>2, <1>3 DEF t

(* The enter stage at the SECCOMP stop of a call that PRoot filters with   *)
(* its exit, on a kernel that reports no enter stop after it.              *)
LEMMA FlaggedInv ==
  ASSUME Covered, Inv, k.at = "stop_seccomp", IsInSysenter(tr), IF tr.detected THEN tr.after ELSE ~IsInSysenter(tr),
         k.call.class \in {"exit", "traceme"} \/ SysexitNecessary(tr),
         NEW w, IsPair(w), w.k = k, Detected(w.tr, "SYSCALL"),
         (IF tr.detected THEN tr.seccomp ELSE "ENABLED") = "ENABLED",
         tr.chain = NULL, NEW o \in EnterOutcomes(k.call.class),
         Restart(How(EnterGuest(w, o), "SYSCALL"))
  PROVE  Inv'
<1> DEFINE n == EnterGuest(w, o)
           m == How(n, "SYSCALL")
<1>1. Known /\ Coherent /\ tr \in TraceeType /\ k \in KernelType /\ env \in Environments
  BY FieldsKnown DEF Inv, TypesPart
<1>2. k.call.enters = 0
  BY <1>1 DEF Known, CallFields, TraceeFields, Coherent, StagePart, AtSeccomp
<1>3. IsPair(n) /\ Entered(w.tr, k, o, n.tr, n.k)
  BY <1>2, EnterMoves
<1>4. Restart(m)
  OBVIOUS
<1> HIDE DEF n
<1>5. IsPair(m) /\ m.k = n.k /\ SetHow(n.tr, m.tr, "SYSCALL")
  BY <1>3, SetHowMoves DEF Requests
<1> HIDE DEF m
<1>6. /\ SameTracee(m.tr, tr') /\ tr'.last_restart_how = m.tr.restart_how
      /\ tr'.restart_how = "0" /\ env' = env /\ Resumed(n.k, k', m.tr.restart_how)
  BY <1>4, <1>5, RestartMoves
<1> QED
  BY <1>1, <1>2, <1>3, <1>5, <1>6
  DEF Coherent, Known, TraceeFields, CallFields, HostFields, HostPart, RequestPart,
       BetweenPart, CallPart, NotExited, Follows, NotEntered, Voided, Origin, StagePart, AtEnter,
       AtExit, Running, AtSeccomp, AtEvent, HandledEnter, TrapPart, SkipNext, TrappedCall,
       AtSigsys, ResultPart, ExitAsked, FakeKept, Between, IsInSysenter, Cancelled,
       NULL, Requests, Places,
       SameStops, SameTracee, Resumed, SameCall, GoesTo, Left, Filtered, Trapped, Verdict,
       Detected, Entered, Refuses, Voids, Pends, SeesExit, EnterOutcomes, SetHow, SysexitNecessary, Inv, TypesPart

(* The same for a chained call.                                            *)
LEMMA FlaggedChainedInv ==
  ASSUME Covered, Inv, k.at = "stop_seccomp", IsInSysenter(tr), IF tr.detected THEN tr.after ELSE ~IsInSysenter(tr),
         k.call.class \in {"exit", "traceme"} \/ SysexitNecessary(tr),
         NEW w, IsPair(w), w.k = k, Detected(w.tr, "SYSCALL"),
         (IF tr.detected THEN tr.seccomp ELSE "ENABLED") = "ENABLED",
         tr.chain # NULL,
         Restart(How(EnterChained(w), "SYSCALL"))
  PROVE  Inv'
<1> DEFINE n == EnterChained(w)
           m == How(n, "SYSCALL")
<1>1. Known /\ Coherent /\ tr \in TraceeType /\ k \in KernelType /\ env \in Environments
  BY FieldsKnown DEF Inv, TypesPart
<1>2. k.call.enters = 0
  BY <1>1 DEF Known, CallFields, TraceeFields, Coherent, StagePart, AtSeccomp
<1>3. IsPair(n) /\ ChainEntered(w.tr, k, n.tr, n.k)
  BY <1>2, ChainedEnterMoves
<1>4. Restart(m)
  OBVIOUS
<1> HIDE DEF n
<1>5. IsPair(m) /\ m.k = n.k /\ SetHow(n.tr, m.tr, "SYSCALL")
  BY <1>3, SetHowMoves DEF Requests
<1> HIDE DEF m
<1>6. /\ SameTracee(m.tr, tr') /\ tr'.last_restart_how = m.tr.restart_how
      /\ tr'.restart_how = "0" /\ env' = env /\ Resumed(n.k, k', m.tr.restart_how)
  BY <1>4, <1>5, RestartMoves
<1> QED
  BY <1>1, <1>2, <1>3, <1>5, <1>6
  DEF Coherent, Known, TraceeFields, CallFields, HostFields, HostPart, RequestPart,
       BetweenPart, CallPart, NotExited, Follows, NotEntered, Voided, Origin, StagePart, AtEnter,
       AtExit, Running, AtSeccomp, AtEvent, HandledEnter, TrapPart, SkipNext, TrappedCall,
       AtSigsys, ResultPart, ExitAsked, FakeKept, Between, IsInSysenter, Cancelled,
       NULL, Requests, Places,
       SameStops, SameTracee, Resumed, SameCall, GoesTo, Left, Filtered, Trapped, Verdict,
       Detected, ChainEntered, SetHow, SysexitNecessary, Inv, TypesPart

(* A PTRACE_EVENT_SECCOMP stop keeps the invariant.                        *)
LEMMA SeccompStopInv == ASSUME Covered, Inv, SeccompStop PROVE Inv'
<1> DEFINE st == [Detect(Start) EXCEPT !.tr.skip_next_seccomp_signal = FALSE]
           d == IF tr.seccomp = "ENABLED" /\ ~SysexitNecessary(tr) THEN "CONT" ELSE "SYSCALL"
           af == IF tr.detected THEN tr.after ELSE ~IsInSysenter(tr)
           sec == IF tr.detected THEN tr.seccomp ELSE "ENABLED"
           flagged == k.call.class \in {"exit", "traceme"} \/ SysexitNecessary(tr)
           sa == Assert(st, IsInSysenter(st.tr), "event.c:684")
<1>1. Known /\ Coherent /\ tr \in TraceeType /\ k \in KernelType
  BY FieldsKnown
<1>2. IsPair(st) /\ st.k = k /\ Detected(st.tr, d)
  BY <1>1, DetectMoves
<1>3. k.at = "stop_seccomp"
  BY DEF SeccompStop
<1>4. IF st.tr.after /\ ~IsInSysenter(st.tr)
      THEN Restart(Assert(How(st, tr.last_restart_how), tr.last_restart_how # "CONT", "event.c:680"))
      ELSE IF st.tr.seccomp # "ENABLED" THEN Restart(sa)
      ELSE IF flagged /\ ~st.tr.after THEN Restart(How(sa, "SYSCALL"))
      ELSE IF flagged
      THEN \E n \in translate_syscall(How(sa, "SYSCALL")) : Restart(How(n, "SYSCALL"))
      ELSE \E n \in translate_syscall(How(sa, "CONT")) : Restart(HandledAtSeccomp(n))
  BY DEF SeccompStop
<1>5. st.tr.after = af /\ st.tr.status = tr.status /\ st.tr.seccomp = sec
  BY <1>2 DEF Detected
<1>6. \/ IsInSysenter(tr)
      \/ af /\ tr.last_restart_how = "SYSCALL"
  BY <1>1, <1>3 DEF Known, TraceeFields, HostFields, Coherent, HostPart, StagePart, AtSeccomp, Requests,
     IsInSysenter
<1> HIDE DEF st, sec, af
<1>7. ASSUME NEW w, IsPair(w), w.k = k, Detected(w.tr, d), NEW h \in Requests
      PROVE  IsPair(How(w, h)) /\ How(w, h).k = k /\ Detected(How(w, h).tr, h)
  BY <1>7, SetHowMoves DEF SetHow, Detected
<1>8. CASE af /\ ~IsInSysenter(tr)
  <2> DEFINE w == How(st, tr.last_restart_how)
             m == Assert(w, tr.last_restart_how # "CONT", "event.c:680")
  <2>1. Restart(m)
    BY <1>4, <1>5, <1>8 DEF IsInSysenter
  <2>2. IsPair(w) /\ w.k = k /\ Detected(w.tr, tr.last_restart_how)
    BY <1>1, <1>2, <1>7 DEF Known, TraceeFields
  <2>3. tr.last_restart_how # "CONT"
    BY <1>6, <1>8
  <2> HIDE DEF w
  <2>4. IsPair(m) /\ m.k = k /\ m.tr = w.tr
    BY <2>2, <2>3, AssertMoves
  <2> HIDE DEF m
  <2> QED BY <1>3, <1>8, <2>1, <2>2, <2>4, UntouchedInv DEF af
<1>9. CASE ~(af /\ ~IsInSysenter(tr))
  <2>1. IsInSysenter(tr)
    BY <1>6, <1>9
  <2>2. IsPair(sa) /\ sa.k = k /\ sa.tr = st.tr
    <3>1. IsInSysenter(st.tr)
      BY <1>5, <2>1 DEF IsInSysenter
    <3> QED BY <1>2, <3>1, AssertMoves
  <2>3. IF sec # "ENABLED" THEN Restart(sa)
        ELSE IF flagged /\ ~af THEN Restart(How(sa, "SYSCALL"))
        ELSE IF flagged
        THEN \E n \in translate_syscall(How(sa, "SYSCALL")) : Restart(How(n, "SYSCALL"))
        ELSE \E n \in translate_syscall(How(sa, "CONT")) : Restart(HandledAtSeccomp(n))
    BY <1>4, <1>5, <1>9 DEF IsInSysenter
  <2> HIDE DEF sa
  <2>4. \A h \in {"CONT", "SYSCALL"} :
          IsPair(How(sa, h)) /\ How(sa, h).k = k /\ Detected(How(sa, h).tr, h)
    BY <1>2, <1>7, <2>2 DEF Requests
  <2>5. CASE sec # "ENABLED"
    <3>1. tr.detected /\ tr.seccomp # "ENABLED" /\ d = "SYSCALL"
      BY <2>5 DEF sec
    <3>2. Detected(sa.tr, "SYSCALL") /\ Restart(sa)
      BY <1>2, <2>2, <2>3, <2>5, <3>1
    <3> QED BY <1>3, <2>1, <2>2, <3>1, <3>2, UntouchedInv
  <2>6. CASE sec = "ENABLED" /\ flagged /\ ~af
    <3> DEFINE w == How(sa, "SYSCALL")
    <3>1. IsPair(w) /\ w.k = k /\ Detected(w.tr, "SYSCALL") /\ Restart(w)
      BY <2>3, <2>4, <2>6
    <3> HIDE DEF w
    <3> QED BY <1>3, <2>1, <2>6, <3>1, UntouchedInv DEF sec, af
  <2>7. CASE sec = "ENABLED" /\ flagged /\ af
    <3> DEFINE w == How(sa, "SYSCALL")
    <3>1. IsPair(w) /\ w.k = k /\ Detected(w.tr, "SYSCALL")
      BY <2>4
    <3>2. PICK n \in translate_syscall(w) : Restart(How(n, "SYSCALL"))
      BY <2>3, <2>7
    <3> HIDE DEF w
    <3>3. w.tr.status = tr.status /\ w.tr.chain = tr.chain
      BY <3>1 DEF Detected
    <3>4. CASE tr.chain # NULL
      <4>1. n = EnterChained(w)
        BY <2>1, <3>2, <3>3, <3>4 DEF translate_syscall, IsInSysenter
      <4> QED BY <1>3, <2>1, <2>7, <3>1, <3>2, <3>4, <4>1, FlaggedChainedInv DEF sec, af
    <3>5. CASE tr.chain = NULL
      <4>1. PICK o \in EnterOutcomes(k.call.class) : n = EnterGuest(w, o)
        BY <2>1, <3>1, <3>2, <3>3, <3>5 DEF translate_syscall, IsInSysenter
      <4> QED BY <1>3, <2>1, <2>7, <3>1, <3>2, <3>5, <4>1, FlaggedInv DEF sec, af
    <3> QED BY <3>4, <3>5
  <2>8. CASE sec = "ENABLED" /\ ~flagged
    <3> DEFINE w == How(sa, "CONT")
    <3>1. IsPair(w) /\ w.k = k /\ Detected(w.tr, "CONT")
      BY <2>4
    <3>2. PICK n \in translate_syscall(w) : Restart(HandledAtSeccomp(n))
      BY <2>3, <2>8
    <3> HIDE DEF w
    <3>3. w.tr.status = tr.status /\ w.tr.chain = tr.chain
      BY <3>1 DEF Detected
    <3>4. tr.chain = NULL
      BY <2>8 DEF SysexitNecessary
    <3>5. PICK o \in EnterOutcomes(k.call.class) : n = EnterGuest(w, o)
      BY <2>1, <3>1, <3>2, <3>3, <3>4 DEF translate_syscall, IsInSysenter
    <3> QED BY <1>3, <2>1, <2>8, <3>1, <3>2, <3>4, <3>5, UnflaggedInv DEF sec
  <2> QED BY <2>5, <2>6, <2>7, <2>8
<1> QED BY <1>8, <1>9

-----------------------------------------------------------------------------
(* At a SIGSYS stop, before the exit stage the trap skipped.               *)
Trapping(t) ==
  /\ t \in TraceeType
  /\ t.status = tr.status
  /\ t.restart_how = (IF tr.seccomp = "ENABLED" /\ ~SysexitNecessary(tr) THEN "CONT" ELSE "SYSCALL")
  /\ t.last_restart_how = tr.last_restart_how /\ t.seccomp = tr.seccomp
  /\ t.sysexit_pending = tr.sysexit_pending /\ t.already_handled_enter = FALSE
  /\ t.skip_next_seccomp_signal = tr.skip_next_seccomp_signal
  /\ t.voided_cancelled = tr.voided_cancelled /\ t.chain = tr.chain /\ t.rewrite = tr.rewrite
  /\ t.suppressed_signal = tr.suppressed_signal /\ t.detected = tr.detected
  /\ t.after = tr.after /\ t.failed = tr.failed
(* The pair a SIGSYS stop begins with.                                     *)
LEMMA TrappingMoves ==
  ASSUME tr \in TraceeType, k \in KernelType
  PROVE  LET st == [Start EXCEPT !.tr.already_handled_enter = FALSE]
         IN  IsPair(st) /\ st.k = k /\ Trapping(st.tr)
<1> DEFINE d == IF tr.seccomp = "ENABLED" /\ ~SysexitNecessary(tr) THEN "CONT" ELSE "SYSCALL"
           t == [tr EXCEPT !.restart_how = d]
           st == [Start EXCEPT !.tr.already_handled_enter = FALSE]
           tn == [t EXCEPT !.already_handled_enter = FALSE]
<1>1. IsPair(Start) /\ Start.k = k /\ Start.tr = t
  BY StartMoves
<1>2. st.tr = tn /\ st.k = k /\ DOMAIN st = {"tr", "k"}
  BY <1>1 DEF IsPair
<1>3. d \in Requests
  BY DEF Requests
<1> HIDE DEF st, d
<1>4. tn \in TraceeType
  BY <1>3 DEF TraceeType
<1>5. /\ tn.status = tr.status /\ tn.restart_how = d
      /\ tn.last_restart_how = tr.last_restart_how /\ tn.seccomp = tr.seccomp
      /\ tn.sysexit_pending = tr.sysexit_pending /\ tn.already_handled_enter = FALSE
      /\ tn.skip_next_seccomp_signal = tr.skip_next_seccomp_signal
      /\ tn.voided_cancelled = tr.voided_cancelled /\ tn.chain = tr.chain
      /\ tn.rewrite = tr.rewrite /\ tn.suppressed_signal = tr.suppressed_signal
      /\ tn.detected = tr.detected /\ tn.after = tr.after /\ tn.failed = tr.failed
  BY <1>3 DEF TraceeType
<1> HIDE DEF tn
<1>6. Trapping(tn)
  BY <1>4, <1>5 DEF Trapping, d
<1> QED BY <1>2, <1>4, <1>6 DEF IsPair, st

(* What handle_seccomp_event does, field by field.                         *)
Emulated(t, kk, tn, kn) ==
  /\ tn \in TraceeType /\ kn \in KernelType
  /\ tn.status = 0 /\ tn.restart_how = "SYSCALL" /\ tn.last_restart_how = t.last_restart_how
  /\ tn.seccomp = t.seccomp /\ tn.sysexit_pending = t.sysexit_pending
  /\ tn.already_handled_enter = t.already_handled_enter
  /\ tn.skip_next_seccomp_signal = t.skip_next_seccomp_signal
  /\ tn.voided_cancelled = t.voided_cancelled /\ tn.chain = t.chain
  /\ tn.suppressed_signal = t.suppressed_signal /\ tn.detected = t.detected
  /\ tn.after = t.after /\ tn.failed = t.failed
  /\ kn.at = kk.at /\ kn.sigsys = kk.sigsys
  /\ kn.call.src = kk.call.src /\ kn.call.class = kk.call.class /\ kn.call.nr = kk.call.nr
  /\ kn.call.enters = kk.call.enters /\ kn.call.exits = kk.call.exits
  /\ kn.call.fake = kk.call.fake /\ kn.call.need = kk.call.need
  /\ \/ tn.rewrite = t.rewrite /\ kn.next = kk.next /\ kn.call.res = "emulated"
     \/ tn.rewrite = TRUE /\ kn.next = "restarted" /\ kn.call.res = kk.call.res
(* handle_seccomp_event gives the call a result or restarts another one.   *)
LEMMA EmulateMoves ==
  ASSUME NEW st, IsPair(st), NEW m \in handle_seccomp_event(st)
  PROVE  IsPair(m) /\ Emulated(st.tr, st.k, m.tr, m.k)
<1> DEFINE t == st.tr
           kk == st.k
           c == kk.call
           w == How(st, "SYSCALL")
           wt == [t EXCEPT !.restart_how = "SYSCALL"]
           w1 == [w EXCEPT !.tr.status = 0]
           t1 == [wt EXCEPT !.status = 0]
<1>1. t \in TraceeType /\ kk \in KernelType /\ c \in CallType
  BY DEF IsPair, KernelType
<1>2. IsPair(w) /\ w.k = kk /\ w.tr = wt
  BY HowMoves DEF Requests
<1>3. m = SetResult(st) \/ m = restart_syscall_after_seccomp(st)
  BY DEF handle_seccomp_event
<1> HIDE DEF w
<1>4. w1.tr = t1 /\ w1.k = kk /\ DOMAIN w1 = {"tr", "k"}
  BY <1>2 DEF IsPair
<1> HIDE DEF t, kk
<1>5. t1 \in TraceeType
  BY <1>1 DEF TraceeType, Requests
<1>6. /\ t1.status = 0 /\ t1.restart_how = "SYSCALL"
      /\ t1.last_restart_how = t.last_restart_how /\ t1.seccomp = t.seccomp
      /\ t1.sysexit_pending = t.sysexit_pending
      /\ t1.already_handled_enter = t.already_handled_enter
      /\ t1.skip_next_seccomp_signal = t.skip_next_seccomp_signal
      /\ t1.voided_cancelled = t.voided_cancelled /\ t1.chain = t.chain
      /\ t1.rewrite = t.rewrite /\ t1.suppressed_signal = t.suppressed_signal
      /\ t1.detected = t.detected /\ t1.after = t.after /\ t1.failed = t.failed
  BY <1>1 DEF TraceeType
<1>7. CASE m = SetResult(st)
  <2> DEFINE cn == [c EXCEPT !.res = "emulated"]
             kn == [kk EXCEPT !.call = cn]
  <2>1. m = [w1 EXCEPT !.k.call.res = "emulated"]
    BY <1>7 DEF SetResult, w
  <2> HIDE DEF w1, t1
  <2>2. m.tr = t1 /\ m.k = kn /\ DOMAIN m = {"tr", "k"}
    BY <1>4, <2>1
  <2> HIDE DEF c
  <2>3. cn \in CallType /\ cn.res = "emulated" /\ cn.src = c.src /\ cn.class = c.class /\ cn.nr = c.nr
        /\ cn.enters = c.enters /\ cn.exits = c.exits /\ cn.fake = c.fake /\ cn.need = c.need
    BY <1>1 DEF CallType
  <2> HIDE DEF cn
  <2>4. kn \in KernelType /\ kn.at = kk.at /\ kn.next = kk.next /\ kn.sigsys = kk.sigsys
        /\ kn.call = cn
    BY <1>1, <2>3 DEF KernelType
  <2> HIDE DEF kn
  <2>5. Emulated(t, kk, t1, kn)
    BY <1>5, <1>6, <2>3, <2>4 DEF Emulated, c
  <2> QED BY <1>5, <2>2, <2>4, <2>5 DEF IsPair, t, kk
<1>8. CASE m = restart_syscall_after_seccomp(st)
  <2> DEFINE w2 == [w1 EXCEPT !.tr.rewrite = TRUE]
             t2 == [t1 EXCEPT !.rewrite = TRUE]
             kn == [kk EXCEPT !.next = "restarted"]
  <2>1. m = [w2 EXCEPT !.k.next = "restarted"]
    BY <1>8 DEF restart_syscall_after_seccomp, w
  <2> HIDE DEF w1, t1
  <2>2. w2.tr = t2 /\ w2.k = kk /\ DOMAIN w2 = {"tr", "k"}
    BY <1>4
  <2> HIDE DEF w2
  <2>3. m.tr = t2 /\ m.k = kn /\ DOMAIN m = {"tr", "k"}
    BY <2>1, <2>2
  <2>4. t2 \in TraceeType
    BY <1>5 DEF TraceeType
  <2>5. /\ t2.status = t1.status /\ t2.restart_how = t1.restart_how
        /\ t2.last_restart_how = t1.last_restart_how /\ t2.seccomp = t1.seccomp
        /\ t2.sysexit_pending = t1.sysexit_pending
        /\ t2.already_handled_enter = t1.already_handled_enter
        /\ t2.skip_next_seccomp_signal = t1.skip_next_seccomp_signal
        /\ t2.voided_cancelled = t1.voided_cancelled /\ t2.chain = t1.chain
        /\ t2.rewrite = TRUE /\ t2.suppressed_signal = t1.suppressed_signal
        /\ t2.detected = t1.detected /\ t2.after = t1.after /\ t2.failed = t1.failed
    BY <1>5 DEF TraceeType
  <2>6. kn \in KernelType /\ kn.at = kk.at /\ kn.next = "restarted" /\ kn.sigsys = kk.sigsys
        /\ kn.call = kk.call
    BY <1>1 DEF KernelType
  <2> HIDE DEF kn, t2
  <2>7. Emulated(t, kk, t2, kn)
    BY <1>6, <2>4, <2>5, <2>6 DEF Emulated
  <2> QED BY <2>3, <2>4, <2>6, <2>7 DEF IsPair, t, kk
<1> QED BY <1>3, <1>7, <1>8

(* A SIGSYS stop keeps the invariant, whether the trap came before or      *)
(* after the exit stage.                                                   *)
LEMMA SigsysStopInv == ASSUME Covered, Inv, SigsysStop PROVE Inv'
<1> DEFINE st == [Start EXCEPT !.tr.already_handled_enter = FALSE]
<1>1. Known /\ Coherent /\ tr \in TraceeType /\ k \in KernelType /\ env \in Environments
  BY FieldsKnown DEF Inv, TypesPart
<1>2. IsPair(st) /\ st.k = k /\ Trapping(st.tr)
  BY <1>1, TrappingMoves
<1>3. k.at = "stop_sigsys"
  BY DEF SigsysStop
<1>4. PICK n \in ExitFromSigsys(st) :
        IF tr.skip_next_seccomp_signal \/ k.call.nr = "void"
        THEN Restart([n EXCEPT !.tr.skip_next_seccomp_signal = FALSE])
        ELSE \E m \in handle_seccomp_event(n) : Restart(m)
  BY DEF SigsysStop
<1> HIDE DEF st
<1>5. \/ IsInSysenter(tr) /\ n = st
      \/ /\ ~IsInSysenter(tr) /\ IsPair(n)
         /\ \E o \in ExitOutcomes(st) : Exited(st.tr, k, o, n.tr, n.k)
  <2>1. st.tr.status = tr.status /\ st.tr.chain = tr.chain
    BY <1>2 DEF Trapping
  <2>2. CASE IsInSysenter(tr)
    BY <1>4, <2>1, <2>2 DEF ExitFromSigsys, IsInSysenter
  <2>3. CASE ~IsInSysenter(tr)
    <3>1. PICK o \in ExitOutcomes(st) : n = ExitStage(st, o)
      BY <1>4, <2>1, <2>3 DEF ExitFromSigsys, translate_syscall, IsInSysenter
    <3>2. st.tr.chain \in {NULL, 0} /\ k.call.exits = 0
      BY <1>1, <1>3, <2>1, <2>3 DEF Known, CallFields, Coherent, TrapPart, AtSigsys
    <3> QED BY <1>2, <2>3, <3>1, <3>2, ExitMoves
  <2> QED BY <2>2, <2>3
<1>6. IsPair(n)
  BY <1>2, <1>5
<1>7. CASE tr.skip_next_seccomp_signal \/ k.call.nr = "void"
  <2> DEFINE m == [n EXCEPT !.tr.skip_next_seccomp_signal = FALSE]
             t == n.tr
             tn == [t EXCEPT !.skip_next_seccomp_signal = FALSE]
  <2>1. Restart(m)
    BY <1>4, <1>7
  <2>2. m.tr = tn /\ m.k = n.k /\ DOMAIN m = {"tr", "k"} /\ t \in TraceeType /\ n.k \in KernelType
    BY <1>6 DEF IsPair
  <2> HIDE DEF m, t
  <2>3. tn \in TraceeType
    BY <2>2 DEF TraceeType
  <2>4. /\ tn.status = t.status /\ tn.restart_how = t.restart_how
        /\ tn.last_restart_how = t.last_restart_how /\ tn.seccomp = t.seccomp
        /\ tn.sysexit_pending = t.sysexit_pending
        /\ tn.already_handled_enter = t.already_handled_enter
        /\ tn.skip_next_seccomp_signal = FALSE /\ tn.voided_cancelled = t.voided_cancelled
        /\ tn.chain = t.chain /\ tn.rewrite = t.rewrite
        /\ tn.suppressed_signal = t.suppressed_signal /\ tn.detected = t.detected
        /\ tn.after = t.after /\ tn.failed = t.failed
    BY <2>2 DEF TraceeType
  <2> HIDE DEF tn
  <2>5. /\ SameTracee(tn, tr') /\ tr'.last_restart_how = tn.restart_how
        /\ tr'.restart_how = "0" /\ env' = env /\ Resumed(n.k, k', tn.restart_how)
    BY <2>1, <2>2, <2>3, RestartMoves DEF IsPair
  <2>6. CASE IsInSysenter(tr) /\ n = st
    BY <1>1, <1>2, <1>3, <1>7, <2>2, <2>4, <2>5, <2>6
    DEF Coherent, Known, TraceeFields, CallFields, HostFields, HostPart, RequestPart,
       BetweenPart, CallPart, NotExited, Follows, NotEntered, Voided, Origin, StagePart, AtEnter,
       AtExit, Running, AtSeccomp, AtEvent, HandledEnter, TrapPart, SkipNext, TrappedCall,
       AtSigsys, ResultPart, ExitAsked, FakeKept, Between, IsInSysenter, Cancelled,
       NULL, Requests, Places,
       SameStops, SameTracee, Resumed, SameCall, GoesTo, Left, Filtered, Trapped, Verdict, Trapping, t, SysexitNecessary, Inv, TypesPart
  <2>7. CASE ~(IsInSysenter(tr) /\ n = st)
    <3>1. PICK o \in ExitOutcomes(st) : Exited(st.tr, k, o, n.tr, n.k)
      BY <1>5, <2>7
    <3>2. ~IsInSysenter(tr)
      BY <1>5, <2>7
    <3> QED
      BY <1>1, <1>2, <1>3, <1>7, <2>2, <2>4, <2>5, <3>1, <3>2
      DEF Coherent, Known, TraceeFields, CallFields, HostFields, HostPart, RequestPart,
         BetweenPart, CallPart, NotExited, Follows, NotEntered, Voided, Origin, StagePart, AtEnter,
         AtExit, Running, AtSeccomp, AtEvent, HandledEnter, TrapPart, SkipNext, TrappedCall,
         AtSigsys, ResultPart, ExitAsked, FakeKept, Between, IsInSysenter, Cancelled,
         NULL, Requests, Places,
         SameStops, SameTracee, Resumed, SameCall, GoesTo, Left, Filtered, Trapped, Verdict, Trapping, Exited, ExitOutcomes, t, SysexitNecessary, Inv, TypesPart
  <2> QED BY <2>6, <2>7
<1>8. CASE ~(tr.skip_next_seccomp_signal \/ k.call.nr = "void")
  <2>1. PICK m \in handle_seccomp_event(n) : Restart(m)
    BY <1>4, <1>8
  <2>2. IsPair(m) /\ Emulated(n.tr, n.k, m.tr, m.k)
    BY <1>6, <2>1, EmulateMoves
  <2>3. /\ SameTracee(m.tr, tr') /\ tr'.last_restart_how = m.tr.restart_how
        /\ tr'.restart_how = "0" /\ env' = env /\ Resumed(m.k, k', m.tr.restart_how)
    BY <2>1, <2>2, RestartMoves
  <2>4. CASE IsInSysenter(tr) /\ n = st
    BY <1>1, <1>2, <1>3, <1>8, <2>2, <2>3, <2>4
    DEF Coherent, Known, TraceeFields, CallFields, HostFields, HostPart, RequestPart,
       BetweenPart, CallPart, NotExited, Follows, NotEntered, Voided, Origin, StagePart, AtEnter,
       AtExit, Running, AtSeccomp, AtEvent, HandledEnter, TrapPart, SkipNext, TrappedCall,
       AtSigsys, ResultPart, ExitAsked, FakeKept, Between, IsInSysenter, Cancelled,
       NULL, Requests, Places,
       SameStops, SameTracee, Resumed, SameCall, GoesTo, Left, Filtered, Trapped, Verdict, Trapping, Emulated, SysexitNecessary, Inv, TypesPart
  <2>5. CASE ~(IsInSysenter(tr) /\ n = st)
    <3>1. PICK o \in ExitOutcomes(st) : Exited(st.tr, k, o, n.tr, n.k)
      BY <1>5, <2>5
    <3>2. ~IsInSysenter(tr)
      BY <1>5, <2>5
    <3> QED
      BY <1>1, <1>2, <1>3, <1>8, <2>2, <2>3, <3>1, <3>2
      DEF Coherent, Known, TraceeFields, CallFields, HostFields, HostPart, RequestPart,
         BetweenPart, CallPart, NotExited, Follows, NotEntered, Voided, Origin, StagePart, AtEnter,
         AtExit, Running, AtSeccomp, AtEvent, HandledEnter, TrapPart, SkipNext, TrappedCall,
         AtSigsys, ResultPart, ExitAsked, FakeKept, Between, IsInSysenter, Cancelled,
         NULL, Requests, Places,
         SameStops, SameTracee, Resumed, SameCall, GoesTo, Left, Filtered, Trapped, Verdict, Trapping, Emulated, Exited, ExitOutcomes, SysexitNecessary, Inv, TypesPart
  <2> QED BY <2>4, <2>5
<1> QED BY <1>7, <1>8

-----------------------------------------------------------------------------
(* The invariant holds when the tracee is launched.                        *)
LEMMA InitInv == ASSUME Covered, Init PROVE Inv
<1>1. env \in Environments
  BY DEF Init
<1>2. HostFields(env)
  BY <1>1, EnvAssumption DEF EnvType, HostFields, Covered
<1>3. PICK b \in BOOLEAN : tr = [InitTracee EXCEPT !.after = b]
  BY DEF Init
<1>4. tr \in TraceeType
  BY <1>3 DEF InitTracee, TraceeType, Requests, NULL
<1>5. /\ tr.status = InitTracee.status /\ tr.restart_how = InitTracee.restart_how
      /\ tr.last_restart_how = InitTracee.last_restart_how /\ tr.seccomp = InitTracee.seccomp
      /\ tr.sysexit_pending = InitTracee.sysexit_pending
      /\ tr.already_handled_enter = InitTracee.already_handled_enter
      /\ tr.skip_next_seccomp_signal = InitTracee.skip_next_seccomp_signal
      /\ tr.voided_cancelled = InitTracee.voided_cancelled /\ tr.chain = InitTracee.chain
      /\ tr.rewrite = InitTracee.rewrite /\ tr.suppressed_signal = InitTracee.suppressed_signal
      /\ tr.detected = InitTracee.detected /\ tr.after = b /\ tr.failed = InitTracee.failed
  BY <1>3 DEF InitTracee
<1>6. k = [at |-> "user", next |-> "guest", sigsys |-> FALSE, call |-> NoCall]
  BY DEF Init
<1>7. k \in KernelType
  BY <1>6 DEF KernelType, CallType, NoCall
<1> QED
  BY <1>1, <1>2, <1>4, <1>5, <1>6, <1>7
  DEF InitTracee, NoCall, Inv, TypesPart, HostPart, RequestPart, BetweenPart, CallPart, NotExited,
      Follows, NotEntered, Voided, Origin, StagePart, AtEnter, AtExit, Running, AtSeccomp, AtEvent,
      HandledEnter, TrapPart, SkipNext, TrappedCall, AtSigsys, ResultPart, ExitAsked, FakeKept,
      Between, IsInSysenter, NULL

(* Every step of the kernel and of PRoot keeps the invariant.              *)
LEMMA NextInv == ASSUME Covered, Inv, [Next]_vars PROVE Inv'
<1>1. CASE Issue
  BY <1>1, IssueInv
<1>2. CASE Execute
  BY <1>2, ExecuteInv
<1>3. CASE MidCall
  BY <1>3, MidCallInv
<1>4. CASE Signal
  BY <1>4, SignalInv
<1>5. CASE SyscallStop
  BY <1>5, SyscallStopInv
<1>6. CASE SeccompStop
  BY <1>6, SeccompStopInv
<1>7. CASE SigsysStop
  BY <1>7, SigsysStopInv
<1>8. CASE EventStop
  BY <1>8, EventStopInv
<1>9. CASE SignalStop
  BY <1>9, SignalStopInv
<1>10. CASE UNCHANGED vars
  BY <1>10 DEF vars, Inv, TypesPart, HostPart, RequestPart, BetweenPart, CallPart, NotExited, Follows,
     NotEntered, Voided, Origin, StagePart, AtEnter, AtExit, Running, AtSeccomp, AtEvent, HandledEnter,
     TrapPart, SkipNext, TrappedCall, AtSigsys, ResultPart, ExitAsked, FakeKept, Between
<1> QED
  BY <1>1, <1>2, <1>3, <1>4, <1>5, <1>6, <1>7, <1>8, <1>9, <1>10 DEF Next, PRoot

(* What the guest and PRoot see of the invariant.                          *)
LEMMA InvShows == ASSUME Covered, Inv PROVE StagesAgree /\ TranslatedOnce /\ FakedResultKept
<1>1. Known /\ Coherent
  BY FieldsKnown
<1>2. StagesAgree
  BY <1>1 DEF StagesAgree, Known, TraceeFields, Requests, Coherent, RequestPart, StagePart, AtEnter, AtExit
<1>3. TranslatedOnce
  BY <1>1 DEF TranslatedOnce, Known, CallFields, TraceeFields, Coherent, BetweenPart, StagePart, Running,
     ResultPart, ExitAsked, Between
<1>4. FakedResultKept
  BY <1>1 DEF FakedResultKept, Known, CallFields, TraceeFields, Coherent, BetweenPart, ResultPart, FakeKept,
     Between
<1> QED BY <1>2, <1>3, <1>4

(* On every covered host the invariant holds in every reachable state.     *)
LEMMA AlwaysInv == ASSUME Covered PROVE Spec => []Inv
<1>1. Init => Inv
  BY InitInv
<1>2. Inv /\ [Next]_vars => Inv'
  BY NextInv
<1> QED BY <1>1, <1>2, PTL DEF Spec

(* PRoot never takes an enter stop for an exit stop or the other way       *)
(* round, no assertion of handle_tracee_event fails, and a tracee whose    *)
(* exit it waits for is never restarted with PTRACE_CONT: on any covered   *)
(* host, whatever is chained, restarted, cancelled, trapped or signalled.  *)
THEOREM StopsAreCounted == ASSUME Covered PROVE Spec => []StagesAgree
<1>1. Inv => StagesAgree
  BY InvShows
<1> QED BY <1>1, AlwaysInv, PTL

(* translate_syscall_enter runs once for a filtered call before the kernel *)
(* executes it, and its exit stage, when it has one, once before the guest *)
(* runs again.                                                             *)
THEOREM StagesAreTranslatedOnce == ASSUME Covered PROVE Spec => []TranslatedOnce
<1>1. Inv => TranslatedOnce
  BY InvShows
<1> QED BY <1>1, AlwaysInv, PTL

(* The result PRoot gave a call is what the guest reads, although the      *)
(* avoider fails with -ENOSYS and a trapped call is rolled back; and       *)
(* restore_original_regs is over when the guest goes on.                   *)
THEOREM ResultsAreKept == ASSUME Covered PROVE Spec => []FakedResultKept
<1>1. Inv => FakedResultKept
  BY InvShows
<1> QED BY <1>1, AlwaysInv, PTL
=============================================================================
