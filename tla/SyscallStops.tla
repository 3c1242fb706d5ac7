--------------------------- MODULE SyscallStops ---------------------------
(***************************************************************************)
(* The heart of PRoot: the stops a traced process reports on its way       *)
(* through a system call, and how handle_tracee_event (tracee/event.c)     *)
(* and translate_syscall (syscall/syscall.c) keep track of the stage the   *)
(* process is in.                                                          *)
(*                                                                         *)
(* PRoot is never told whether a SIGTRAP|0x80 stop is the enter or the     *)
(* exit of a call: it counts (tracee->status).  The count has to survive   *)
(* kernels that evaluate seccomp before or after the ptrace stop, calls    *)
(* that are cancelled, calls an outer seccomp policy traps with SIGSYS,    *)
(* calls PRoot chains or restarts, and stops that are not asked for        *)
(* because the process is restarted with PTRACE_CONT.                      *)
(*                                                                         *)
(* tr is PRoot's side, one handled stop per action.  k is the kernel's     *)
(* side, modelled from the comments of event.c and syscall.c; env is the   *)
(* host PRoot runs on.                                                     *)
(***************************************************************************)
EXTENDS Integers

CONSTANTS Environments,  \* the hosts considered, see EnvType
          MaxChain       \* bound: chained syscalls waiting at the same time

EnvType == [order : {"new", "old"},  \* seccomp after / before the enter stop
            filter : BOOLEAN,        \* is PRoot's own seccomp filter active?
            cancels : BOOLEAN,       \* SYSCALL_AVOIDER < 0 (not so on ARM)
            recheck : BOOLEAN,       \* filters run again after a TRACE event
            trapvoid : BOOLEAN,      \* an outer policy traps the avoider
            trapexit : BOOLEAN,      \* a trapped call reports its exit first
            trapagain : BOOLEAN,     \* ... and traps calls PRoot restarts
            traceme : BOOLEAN]       \* the guest may call PTRACE_TRACEME
ASSUME EnvAssumption == Environments \subseteq EnvType /\ MaxChain \in Nat \ {0}

VARIABLES env, tr, k
vars == <<env, tr, k>>

NULL == -1  \* no chain; n \in Nat is a list of n more chained syscalls

(* What PRoot knows of the tracee, and the two statics of                  *)
(* handle_tracee_event (detected, after).                                  *)
InitTracee == [status |-> 0, restart_how |-> "0", last_restart_how |-> "SYSCALL",
               seccomp |-> "DISABLED", sysexit_pending |-> FALSE,
               already_handled_enter |-> FALSE, skip_next_seccomp_signal |-> FALSE,
               voided_cancelled |-> FALSE, chain |-> NULL, rewrite |-> FALSE,
               suppressed_signal |-> FALSE, detected |-> FALSE, after |-> FALSE,
               failed |-> "none"]

(* The call in progress, or the last one.  enters and exits count the      *)
(* stages PRoot translated; fake: PRoot answered it; need: its exit stage  *)
(* has to be translated.                                                   *)
NoCall == [src |-> "guest", class |-> "plain", nr |-> "own", res |-> "kernel",
           enters |-> 0, exits |-> 0, fake |-> FALSE, need |-> FALSE]

Init == /\ env \in Environments
        /\ \E assume_new_seccomp \in BOOLEAN :
             tr = [InitTracee EXCEPT !.after = assume_new_seccomp]
        /\ k = [at |-> "user", next |-> "guest", sigsys |-> FALSE, call |-> NoCall]

IsInSysenter(t) == t.status = 0

-----------------------------------------------------------------------------
(* The kernel: from one stop to the next.                                  *)

Verdict(c) == IF c.nr = "void" THEN (IF env.trapvoid THEN "TRAP" ELSE "ALLOW")
              ELSE IF c.class = "trapped" THEN "TRAP"
              ELSE IF c.class # "plain" /\ env.filter THEN "TRACE"
              ELSE "ALLOW"

Cancelled(c) == c.nr = "void" /\ env.cancels
Go(kk, at) == [kk EXCEPT !.at = at]

(* SECCOMP_RET_TRAP rolls the registers back and raises SIGSYS.            *)
Trap(kk, how) ==
  LET rolled == [kk EXCEPT !.call.res = "rolled_back"] IN
  IF env.trapexit /\ how = "SYSCALL"
  THEN [Go(rolled, "stop_exit") EXCEPT !.sigsys = TRUE]
  ELSE Go(rolled, "stop_sigsys")

Seccomp(kk, how) ==
  LET v == Verdict(kk.call) IN
  IF v = "TRAP" THEN Trap(kk, how)
  ELSE IF v = "TRACE" THEN Go(kk, "stop_seccomp")
  ELSE IF env.order = "old" /\ how = "SYSCALL" THEN Go(kk, "stop_enter")
  ELSE Go(kk, "running")

Leave(kk, how) == Go(kk, IF how = "SYSCALL" THEN "stop_exit" ELSE "user")

(* The process was restarted with request how from the stop it is in.      *)
Resume(kk, how) ==
  CASE kk.at = "stop_enter" ->
         IF env.order = "new" THEN Seccomp(kk, how) ELSE Go(kk, "running")
    [] kk.at = "stop_seccomp" ->
         IF Cancelled(kk.call) THEN Leave(kk, how)
         ELSE IF env.recheck /\ Verdict(kk.call) = "TRAP" THEN Trap(kk, how)
         ELSE IF env.order = "old" /\ how = "SYSCALL" THEN Go(kk, "stop_enter")
         ELSE Go(kk, "running")
    [] kk.at = "stop_exit" ->
         IF kk.sigsys THEN [Go(kk, "stop_sigsys") EXCEPT !.sigsys = FALSE]
         ELSE Go(kk, "user")
    [] kk.at = "stop_event" -> Go(kk, "running")
    [] OTHER -> Go(kk, "user")

(* The process executes a system call instruction: a call of the guest, or *)
(* the one PRoot moved the instruction pointer back to.  The outer policy  *)
(* does not trap what PRoot chains.                                        *)
Classes == {"plain", "enter", "exit"}

(* launch_process: the first call made under PRoot's filter is execve.     *)
FirstIsExecve(class) == env.filter /\ ~tr.detected => class = "exit"

Issue ==
  /\ k.at = "user"
  /\ \E class \in Classes
           \cup (IF k.next = "guest" /\ env.traceme THEN {"traceme"} ELSE {})
           \cup (IF k.next = "guest" \/ (k.next = "restarted" /\ env.trapagain)
                   THEN {"trapped"} ELSE {}) :
       /\ FirstIsExecve(class)
       /\ LET kk == [k EXCEPT !.next = "guest",
                           !.call = [NoCall EXCEPT !.src = k.next, !.class = class]]
          IN k' = IF env.order = "new" /\ tr.last_restart_how = "SYSCALL"
                  THEN Go(kk, "stop_enter") ELSE Seccomp(kk, tr.last_restart_how)
  /\ UNCHANGED <<env, tr>>

(* The call is executed and returns.                                       *)
Execute ==
  /\ k.at = "running"
  /\ k' = Leave([k EXCEPT !.call.res = IF Cancelled(k.call) THEN @ ELSE "kernel"],
                tr.last_restart_how)
  /\ UNCHANGED <<env, tr>>

(* A ptrace event in the middle of a call: EXEC of an execve (filtered     *)
(* with its exit stage), CLONE of a clone (filtered without, and its enter *)
(* stage asks for no more).                                                *)
MidCall == /\ k.at = "running" /\ k.call.nr = "own"
           /\ k.call.src = "guest" /\ k.call.class \in {"enter", "exit"}
           /\ (k.call.class = "enter" => ~k.call.need)
           /\ k' = Go(k, "stop_event") /\ UNCHANGED <<env, tr>>

(* A signal is about to be delivered.                                      *)
Signal == k.at = "user" /\ k' = Go(k, "stop_signal") /\ UNCHANGED <<env, tr>>

-----------------------------------------------------------------------------
(* PRoot.  An operator maps a pair [tr, k] to the pairs it may become.     *)

SysexitNecessary(t) == t.sysexit_pending \/ t.chain # NULL \/ t.rewrite
How(st, h) == [st EXCEPT !.tr.restart_how = h]

(* The default request of handle_tracee_event.                             *)
Start == [tr |-> [tr EXCEPT !.restart_how =
                    IF tr.seccomp = "ENABLED" /\ ~SysexitNecessary(tr)
                    THEN "CONT" ELSE "SYSCALL"],
          k |-> k]

(* What translate_syscall_enter and the extensions may ask for a call of   *)
(* this class: leave it, answer it (void), refuse it (error), or see its   *)
(* exit, by sysexit_pending (pend) or by restart_how alone (hold); a path  *)
(* that fails to translate may be refused after its exit was asked for.    *)
EnterOutcomes(class) ==
  CASE class = "plain" -> {"keep"}
    [] class = "traceme" -> {"void"}
    [] class = "enter" -> {"keep", "void", "error", "pend", "hold", "pend_error"}
    [] OTHER -> {"keep", "void", "error"}

(* Fault: the stage is not reset when no exit stop will come.              *)
ExpectExit(t) == t

(* Under PTRACE_CONT the exit stage will not be hit.                       *)
ForgetExit(t) == [t EXCEPT !.status = IF t.restart_how = "CONT" THEN 0 ELSE @]

(* The enter stage of a call of the guest, with outcome o.                 *)
EnterGuest(st, o) ==
  LET refuses == o \in {"error", "pend_error"}
      voids == refuses \/ o = "void"
      pends == o \in {"pend", "pend_error"}
      seeExit == pends \/ o = "hold" \/ (voids /\ ~env.cancels)
      t1 == [st.tr EXCEPT !.status = IF refuses THEN -1 ELSE 1,
                          !.sysexit_pending = @ \/ pends
                                                \/ (o = "void" /\ ~env.cancels),
                          !.restart_how = IF seeExit THEN "SYSCALL" ELSE @,
                          !.voided_cancelled = voids /\ env.cancels]
      c == st.k.call
  IN  [tr |-> ForgetExit(t1),
       k |-> [st.k EXCEPT !.call =
                [c EXCEPT !.enters = @ + 1,
                          !.nr = IF voids THEN "void" ELSE @,
                          !.res = IF voids THEN "faked" ELSE @,
                          !.fake = voids,
                          !.need = c.class \in {"exit", "traceme"}
                                   \/ pends \/ o = "hold"]]]

(* The enter stage of a chained call: SYSCALL_CHAINED_ENTER.               *)
EnterChained(st) ==
  [st EXCEPT !.tr.status = 1, !.tr.restart_how = "SYSCALL",
             !.tr.voided_cancelled = FALSE, !.k.call.enters = @ + 1]

(* What the exit stage may do: nothing more (so for a call that was        *)
(* refused, is not filtered or was trapped), register chained syscalls, or *)
(* make up for a call the kernel lacks (fix_and_restart_enosys_syscall) by *)
(* restarting another one or with a result.                                *)
ExitOutcomes(st) ==
  CASE st.k.call.class = "traceme" -> {"disable"}
    [] st.tr.chain # NULL -> {"done"} \cup (IF st.tr.chain < MaxChain THEN {"chain"} ELSE {})
    [] \/ st.tr.status < 0 \/ st.k.call.class = "plain"
       \/ st.k.call.res = "rolled_back" /\ ~st.k.call.fake -> {"done"}
    [] st.k.call.class = "exit" /\ ~st.k.call.fake -> {"done", "chain", "restart", "result"}
    [] OTHER -> {"done", "chain"}

(* chain_next_syscall, at the end of an exit stage.                        *)
chain_next_syscall(st) ==
  IF st.tr.chain = 0 THEN [st EXCEPT !.tr.chain = NULL]
  ELSE [st EXCEPT !.tr.chain = @ - 1, !.tr.restart_how = "SYSCALL",
                  !.k.next = "chained"]

(* push_specific_regs at the end of an exit stage: restore_original_regs   *)
(* holds unless another call follows.                                      *)
push_specific_regs(st) == [st EXCEPT !.tr.rewrite = @ /\ st.k.next # "guest"]

(* The exit stage, with outcome o.  The original registers (all of them,   *)
(* with rewrite) come back unless another call follows.                    *)
ExitStage(st, o) ==
  LET answered == st.tr.chain = NULL /\ st.k.call.fake
      s1 == [tr |-> [st.tr EXCEPT
                       !.status = 0,
                       !.chain = IF o = "chain" THEN (IF @ = NULL THEN 1 ELSE @ + 1) ELSE @,
                       !.rewrite = @ \/ o = "restart",
                       !.restart_how = IF o \in {"restart", "result"} THEN "SYSCALL" ELSE @,
                       !.seccomp = IF o = "disable" /\ @ = "ENABLED" THEN "DISABLING" ELSE @],
             k |-> [st.k EXCEPT !.next = IF o = "restart" THEN "restarted" ELSE @,
                                !.call.exits = @ + 1,
                                !.call.res = IF answered THEN "faked" ELSE @]]
      s2 == IF s1.tr.chain = NULL THEN s1 ELSE chain_next_syscall(s1)
  IN  push_specific_regs(s2)

translate_syscall(st) ==
  IF ~IsInSysenter(st.tr) THEN {ExitStage(st, o) : o \in ExitOutcomes(st)}
  ELSE IF st.tr.chain # NULL THEN {EnterChained(st)}
  ELSE {EnterGuest(st, o) : o \in EnterOutcomes(st.k.call.class)}

(* End of the event: restart_tracee.                                       *)
Restart(st) ==
  /\ tr' = [st.tr EXCEPT !.last_restart_how = st.tr.restart_how, !.restart_how = "0"]
  /\ k' = Resume(st.k, st.tr.restart_how)
  /\ UNCHANGED env

Assert(st, cond, name) ==
  [st EXCEPT !.tr.failed = IF cond THEN @ ELSE name]

(* SIGTRAP|0x80 with seccomp ENABLED: the exit stop is asked for, or over. *)
UnderSeccomp(st) ==
  IF st.tr.seccomp # "ENABLED" THEN st
  ELSE IF IsInSysenter(st.tr)
  THEN [How(st, "SYSCALL") EXCEPT !.tr.sysexit_pending = TRUE]
  ELSE [How(st, "CONT") EXCEPT !.tr.sysexit_pending = FALSE]

(* The suppressed signal is delivered once the chain is over.              *)
Redeliver(st) ==
  [st EXCEPT !.tr.suppressed_signal = @ /\ (st.tr.chain # NULL \/ st.tr.rewrite)]

TranslateAtStop(st) ==
  {Redeliver([n EXCEPT !.tr.skip_next_seccomp_signal =
                IsInSysenter(st.tr) /\ n.k.call.nr = "void"]) : n \in translate_syscall(st)}

AlreadyHandled(st) ==
  LET s1 == Assert(Assert(st, ~IsInSysenter(st.tr), "event.c:630"),
                   ~st.tr.after, "event.c:631")
  IN  [How(s1, "SYSCALL") EXCEPT !.tr.already_handled_enter = FALSE]

FinishDisabling(st) ==
  IF st.tr.seccomp = "DISABLING"
  THEN [How(st, "SYSCALL") EXCEPT !.tr.seccomp = "DISABLED"] ELSE st

(* A SIGTRAP|0x80 stop, enter or exit.                                     *)
SyscallStop ==
  /\ k.at \in {"stop_enter", "stop_exit"} /\ tr.failed = "none"
  /\ IF tr.seccomp = "DISABLING"
     THEN Restart([Start EXCEPT !.tr.seccomp = "DISABLED",
                                !.tr.status = IF @ = 0 THEN 1 ELSE @])
     ELSE LET st == UnderSeccomp(Start) IN
          IF tr.already_handled_enter
          THEN Restart(AlreadyHandled(st))
          ELSE \E n \in TranslateAtStop(st) : Restart(FinishDisabling(n))

(* A PTRACE_EVENT_SECCOMP stop: the first one tells the kernel's order.    *)
Detect(st) ==
  IF st.tr.detected THEN st
  ELSE [st EXCEPT !.tr.seccomp = "ENABLED", !.tr.detected = TRUE,
                  !.tr.after = ~IsInSysenter(st.tr)]

(* Fault: an enter stop is expected for a call the kernel cancels.         *)
HandledThoughCancelled(n) ==
  LET s1 == IF n.tr.sysexit_pending \/ n.tr.seccomp = "DISABLING"
              THEN How(n, "SYSCALL") ELSE n
  IN  [s1 EXCEPT !.tr.already_handled_enter =
         @ \/ (~s1.tr.after /\ s1.tr.restart_how = "SYSCALL")]

(* The enter stage handled at the SECCOMP stop, without an exit stage      *)
(* unless it asks for one.                                                 *)
HandledAtSeccomp(n) ==
  LET s1 == IF n.tr.sysexit_pending \/ n.tr.seccomp = "DISABLING"
              THEN How(n, "SYSCALL") ELSE n
  IN  [s1 EXCEPT !.tr.already_handled_enter =
         @ \/ (~s1.tr.after /\ s1.tr.restart_how = "SYSCALL" /\ ~s1.tr.voided_cancelled)]

SeccompStop ==
  /\ k.at = "stop_seccomp" /\ tr.failed = "none"
  /\ LET st == [Detect(Start) EXCEPT !.tr.skip_next_seccomp_signal = FALSE]
         flagged == k.call.class \in {"exit", "traceme"} \/ SysexitNecessary(tr)
     IN
     IF st.tr.after /\ ~IsInSysenter(st.tr)
     THEN Restart(Assert(How(st, tr.last_restart_how),
                         tr.last_restart_how # "CONT", "event.c:680"))
     ELSE LET sa == Assert(st, IsInSysenter(st.tr), "event.c:684") IN
          IF st.tr.seccomp # "ENABLED" THEN Restart(sa)
          ELSE IF flagged /\ ~st.tr.after THEN Restart(How(sa, "SYSCALL"))
          ELSE IF flagged
          THEN \E n \in translate_syscall(How(sa, "SYSCALL")) : Restart(How(n, "SYSCALL"))
          ELSE \E n \in translate_syscall(How(sa, "CONT")) : Restart(HandledAtSeccomp(n))

(* The trapped call is given a result, or replaced by another one and      *)
(* restarted.                                                              *)
SetResult(st) == [How(st, "SYSCALL") EXCEPT !.tr.status = 0, !.k.call.res = "emulated"]
restart_syscall_after_seccomp(st) ==
  [How(st, "SYSCALL") EXCEPT !.tr.status = 0, !.tr.rewrite = TRUE, !.k.next = "restarted"]

(* What handle_seccomp_event makes of a trapped call, whichever it is.     *)
handle_seccomp_event(st) == {SetResult(st), restart_syscall_after_seccomp(st)}

(* Fault: the exit stage the trap skipped is not made up for.              *)
SkipExitStage(st) == {st}

(* The exit stage the trap skipped, if the enter stage was seen.           *)
ExitFromSigsys(st) == IF IsInSysenter(st.tr) THEN {st} ELSE translate_syscall(st)

(* A SIGSYS stop: the exit stage if it was not seen, then swallow the      *)
(* signal of an avoider or emulate the trapped call.                       *)
SigsysStop ==
  /\ k.at = "stop_sigsys" /\ tr.failed = "none"
  /\ LET st == [Start EXCEPT !.tr.already_handled_enter = FALSE] IN
     \E n \in ExitFromSigsys(st) :
       IF tr.skip_next_seccomp_signal \/ k.call.nr = "void"
       THEN Restart([n EXCEPT !.tr.skip_next_seccomp_signal = FALSE])
       ELSE \E m \in handle_seccomp_event(n) : Restart(m)

(* The other ptrace events: EXEC repeats the last request, CLONE does not. *)
EventStop ==
  /\ k.at = "stop_event" /\ tr.failed = "none"
  /\ Restart(IF k.call.class = "exit" THEN How(Start, tr.last_restart_how) ELSE Start)

(* A signal: delivered, or kept until the chain is over.                   *)
SignalStop ==
  /\ k.at = "stop_signal" /\ tr.failed = "none"
  /\ Restart([Start EXCEPT !.tr.suppressed_signal =
                @ \/ tr.chain # NULL \/ tr.rewrite])

PRoot == SyscallStop \/ SeccompStop \/ SigsysStop \/ EventStop \/ SignalStop
Next == Issue \/ Execute \/ MidCall \/ Signal \/ PRoot

Spec == Init /\ [][Next]_vars

-----------------------------------------------------------------------------
(* PRoot's count of stops matches the kernel's, on every kernel: an enter  *)
(* stop is not taken for an exit or the other way round, and no assertion  *)
(* of handle_tracee_event fails.  A process whose exit stop PRoot waits    *)
(* for, or for which it holds a signal back, was asked to stop: it does    *)
(* not run on with PTRACE_CONT.                                            *)
StagesAgree ==
  /\ tr.failed = "none"
  /\ k.at = "stop_enter" => (IsInSysenter(tr) <=> ~tr.already_handled_enter)
  /\ k.at = "stop_exit" => ~IsInSysenter(tr) /\ ~tr.already_handled_enter
  /\ (~IsInSysenter(tr) \/ tr.suppressed_signal \/ tr.chain # NULL)
       => tr.last_restart_how = "SYSCALL"

(* A call the guest made and PRoot filters only runs after its enter stage *)
(* was translated, no call's enter stage is translated twice (its side     *)
(* effects must not be replayed), and when the guest runs again the exit   *)
(* stage of its call was translated once if it was needed, and never twice.*)
TranslatedOnce ==
  /\ k.call.enters <= 1 /\ k.call.exits <= 1
  /\ k.at = "running" /\ k.call.class \in {"enter", "exit"} => k.call.enters = 1
  /\ k.at = "user" /\ k.call.need => k.call.exits = 1

(* The result PRoot chose for a call it answered or refused is what the    *)
(* guest gets: no -ENOSYS of the avoider, no rolled-back register; and the *)
(* registers saved for a restarted call are restored at the end of that    *)
(* call, never later.                                                      *)
FakedResultKept ==
  k.at = "user" /\ k.next = "guest" =>
    ~tr.rewrite /\ (k.call.fake => k.call.res = "faked")
=============================================================================
