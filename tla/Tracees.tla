------------------------------ MODULE Tracees ------------------------------
(***************************************************************************)
(* The processes PRoot traces, and the ptrace and wait calls it emulates   *)
(* for those that trace each other (tracee/tracee.c, ptrace/ptrace.c,      *)
(* ptrace/wait.c and the loop of tracee/event.c).  Linux allows one tracer *)
(* per process and that is PRoot, so a guest debugger only ever talks to   *)
(* PRoot: an event of its ptracee is kept until it asks, and the debugger  *)
(* itself is kept stopped while it waits.                                  *)
(*                                                                         *)
(* t[p] is PRoot's record of process p, k[p] the kernel's.  An iteration   *)
(* of the event loop is one action, HandleReport; PRoot's functions map a  *)
(* state S = [t, k, failed] to the next one.  Calls are seen at enter and  *)
(* exit (no seccomp acceleration); processes are not threads.              *)
(***************************************************************************)
EXTENDS Integers, FiniteSets

CONSTANTS Procs,   \* process ids; 1 is the first tracee
          Calls,   \* what each process may call, see CallType
          Signaled \* the processes that are sent signals

NULL == 0
Requests == {"TRACEME", "ATTACH", "CONT", "SYSCALL", "DETACH", "SETOPTIONS"}
CallType == [nr : {"plain", "fork"}]
       \cup [nr : {"wait4"}, pid : Procs \cup {-1}, nohang : BOOLEAN, bad : BOOLEAN]
       \cup [nr : {"ptrace"}, request : Requests, pid : Procs]
ASSUME TraceesAssumption == /\ Procs \subseteq Nat \ {0} /\ IsFiniteSet(Procs)
                            /\ 1 \in Procs /\ Calls \in [Procs -> SUBSET CallType]
                            /\ Signaled \subseteq Procs

VARIABLES t, k,
          failed,    \* the assertion that stopped PRoot, if any
          deserted   \* observer's: stopped processes that lost, unnoticed, the
                     \* ptracer or the creator that was to have them restarted
vars == <<t, k, failed, deserted>>

-----------------------------------------------------------------------------
NoEvent == [value |-> "0", pending |-> FALSE]
NotTraced == [ptracer |-> NULL, proot |-> NoEvent, event |-> NoEvent,
              tracing_started |-> FALSE, ignore_syscalls |-> FALSE,
              tracefork |-> FALSE]

(* A new tracee; exe and parent are known once its creator's FORK event    *)
(* was handled.  A zombie keeps the id and the parent.                     *)
NewTracee == [listed |-> TRUE, exe |-> FALSE, parent |-> NULL, running |-> FALSE,
              sigstop |-> "IGNORED", restart_how |-> FALSE, sysexit |-> FALSE,
              chained |-> FALSE, as_ptracee |-> NotTraced, nb_ptracees |-> 0,
              zombies |-> {}, wait_pid |-> NULL, waits_in |-> "DOESNT_WAIT"]
Removed == [NewTracee EXCEPT !.listed = FALSE]

(* pc: where the process is; run: is it running, or stopped there; report: *)
(* the event waitpid will return; stop: a SIGSTOP was sent to it; again:   *)
(* its instruction pointer was moved back to the call.                     *)
NoCall == [nr |-> "none"]
Unborn == [pc |-> "unborn", run |-> FALSE, report |-> "none", stop |-> FALSE,
           call |-> NoCall, again |-> FALSE, child |-> NULL]

Init == /\ t = [p \in Procs |-> IF p = 1 THEN [NewTracee EXCEPT !.exe = TRUE,
                                   !.running = TRUE, !.sigstop = "ALLOWED"]
                                ELSE Removed]
        /\ k = [p \in Procs |-> IF p = 1 THEN [Unborn EXCEPT !.pc = "user", !.run = TRUE]
                                ELSE Unborn]
        /\ failed = "none" /\ deserted = {}

-----------------------------------------------------------------------------
(* The kernel.                                                             *)
Alive(p) == k[p].pc \notin {"unborn", "dead", "gone"}
StopsAt(p, pc, event) ==
  [k EXCEPT ![p] = [@ EXCEPT !.pc = pc, !.run = FALSE, !.report = event]]
Unchanged == UNCHANGED <<t, failed, deserted>>

Issue(p) == /\ k[p].run
            /\ \/ /\ k[p].pc = "user"
                  /\ \E c \in Calls[p] :
                       k' = [StopsAt(p, "enter", "syscall") EXCEPT ![p].call = c]
               \/ /\ k[p].pc = "again"
                  /\ k' = StopsAt(p, "enter", "syscall")
            /\ Unchanged

(* A call other than fork returns, when it has the time, or interrupted.   *)
Return(p) == /\ k[p].run
             /\ \/ k[p].pc = "forked"
                \/ k[p].pc = "inside" /\ k[p].call.nr # "fork"
             /\ k' = StopsAt(p, "exit", "syscall") /\ Unchanged

(* The child stops before its first instruction, its creator in the call.  *)
Fork(p) == /\ k[p].run /\ k[p].pc = "inside" /\ k[p].call.nr = "fork"
           /\ \E c \in Procs :
                /\ k[c].pc = "unborn" /\ \A d \in Procs : k[d].pc = "unborn" => c <= d
                /\ k' = [StopsAt(p, "fork", "FORK") EXCEPT
                           ![p].child = c,
                           ![c] = [@ EXCEPT !.pc = "signal", !.report = "SIGSTOP"]]
           /\ Unchanged

Signal(p) == /\ k[p].run /\ k[p].pc = "user"
             /\ \/ p \in Signaled /\ k' = StopsAt(p, "signal", "signal")
                \/ /\ k[p].stop
                   /\ k' = [StopsAt(p, "signal", "SIGSTOP") EXCEPT ![p].stop = FALSE]
             /\ Unchanged

(* A process exits or is killed, and a stop not yet reported is lost.      *)
Die(p) == /\ Alive(p)
          /\ k' = [k EXCEPT ![p] = [Unborn EXCEPT !.pc = "dead", !.report = "EXITED"]]
          /\ deserted' = IF k[p].report = "FORK" THEN deserted \cup {k[p].child} ELSE deserted
          /\ UNCHANGED <<t, failed>>

(* Where a restarted process goes on from.                                 *)
Onward(kp) == CASE kp.pc = "enter" -> "inside"
                [] kp.pc = "fork" -> "forked"
                [] kp.pc = "exit" /\ kp.again -> "again"
                [] OTHER -> "user"

-----------------------------------------------------------------------------
(* PRoot.                                                                  *)
Listed(S, p) == p \in Procs /\ S.t[p].listed
Tracer(S, p) == S.t[p].as_ptracee.ptracer
Ptracees(S, p) == {q \in Procs : S.t[q].listed /\ Tracer(S, q) = p}
Assert(S, cond, name) ==
  IF cond \/ S.failed # "none" THEN S ELSE [S EXCEPT !.failed = name]

(* restart_tracee: false if the tracee waits for a ptracee, is to stay     *)
(* stopped (signal -1) or died.                                            *)
Restartable(S, p) == S.t[p].wait_pid = NULL /\ ~S.k[p].run
                     /\ S.k[p].pc \notin {"unborn", "dead", "gone"}
restart_tracee(S, p) ==
  LET to == Onward(S.k[p])
      S1 == Assert(S, S.t[p].wait_pid # NULL \/ S.t[p].restart_how, "event.c:897")
  IN  IF ~Restartable(S, p) THEN S1
      ELSE [S1 EXCEPT
          !.t[p] = [@ EXCEPT !.restart_how = FALSE, !.running = TRUE],
          !.k[p] = [@ EXCEPT !.run = TRUE, !.pc = to, !.again = FALSE,
                             !.call = IF to = "user" THEN NoCall ELSE S.k[p].call]]

SendStop(S, q) == [S EXCEPT !.k[q].stop = S.k[q].pc # "dead"]

attach_to_ptracer(S, q, p) ==
  [S EXCEPT !.t[q].as_ptracee = [NotTraced EXCEPT !.ptracer = p],
            !.t[p].nb_ptracees = @ + 1]

Uncount(S, p) ==
  [Assert(S, S.t[p].nb_ptracees > 0, "ptrace.c:122") EXCEPT !.t[p].nb_ptracees = @ - 1]
detach_from_ptracer(S, q) ==
  [Uncount(S, Tracer(S, q)) EXCEPT !.t[q].as_ptracee.ptracer = NULL]

(* restart_original_syscall and chain_next_syscall.                        *)
ChainOriginal(S, p) == [S EXCEPT !.t[p].chained = TRUE, !.k[p].again = TRUE]

(* The status cannot be written to a bad address or to a dead process.     *)
Unwritable(S, p) == S.k[p].pc = "dead" \/ S.k[p].call.bad

(* update_wait_status of p, for a ptracee or for a zombie.  The exit of a  *)
(* child is hidden: the real wait4, chained, will report it.               *)
update_wait_status(S, p, q) ==
  IF S.t[q].parent = p /\ S.t[q].as_ptracee.event.value = "EXITED"
  THEN detach_from_ptracer(ChainOriginal(S, p), q)
  ELSE IF Unwritable(S, p) THEN S
  ELSE [S EXCEPT !.t[q].as_ptracee.event.pending = FALSE]
(* Fault: the zombie leaves the list and is still counted.                 *)
CollectUncounted(S, p, z) ==
  LET freed == [S EXCEPT !.t[p].zombies = @ \ {z}] IN
  IF z.parent = p THEN ChainOriginal(freed, p)
  ELSE IF Unwritable(S, p) THEN S ELSE freed

CollectZombie(S, p, z) ==
  LET freed == [Uncount(S, p) EXCEPT !.t[p].zombies = @ \ {z}] IN
  IF z.parent = p THEN ChainOriginal(freed, p)
  ELSE IF Unwritable(S, p) THEN S ELSE freed

-----------------------------------------------------------------------------
(* The enter stage of a call.                                              *)
WaitsInPRoot(S, p) ==
  LET pid == S.k[p].call.pid IN
  /\ S.t[p].nb_ptracees > 0
  /\ pid = -1 \/ (Listed(S, pid) /\ Tracer(S, pid) = p)

EnterStage(S, p) ==
  LET S1 == [S EXCEPT !.t[p].sysexit = TRUE] IN
  IF ~S.t[p].chained /\ S.k[p].call.nr = "wait4"
  THEN [S1 EXCEPT !.t[p].waits_in = IF WaitsInPRoot(S, p) THEN "WAITS_IN_PROOT"
                                                           ELSE "WAITS_IN_KERNEL"]
  ELSE S1

(* SIGSTOP: the first one only tells PRoot about the tracee, and waits for *)
(* the creator's event.                                                    *)
SigstopEvent(S, p) ==
  [S EXCEPT !.t[p].sigstop = IF ~S.t[p].exe THEN "PENDING"
                             ELSE IF @ = "IGNORED" THEN "ALLOWED" ELSE @]

(* handle_tracee_event for the events that may be kept for PRoot while the *)
(* ptracer decides: enter stages and signals.                              *)
HandleKept(S, p, event) ==
  LET S1 == [S EXCEPT !.t[p].restart_how = TRUE,
                      !.t[p].as_ptracee.proot.pending = FALSE]
  IN  CASE event = "syscall" -> EnterStage(S1, p)
        [] event = "SIGSTOP" -> SigstopEvent(S1, p)
        [] OTHER -> S1

(* Does the handler return -1, that is, keep the tracee stopped?           *)
Blocks(S, p, event) == event = "SIGSTOP" /\ ~S.t[p].exe

HandleAndRestart(S, p, event) ==
  LET S1 == HandleKept(S, p, event) IN
  IF Blocks(S, p, event) THEN S1 ELSE restart_tracee(S1, p)

-----------------------------------------------------------------------------

WaitsFor(S, p, q) == S.t[p].wait_pid \in {-1, q}

(* p's wait ends with the event of q.                                      *)
EndWait(S, p, q) == [update_wait_status(S, p, q) EXCEPT !.t[p].wait_pid = NULL]

(* The end of handle_ptracee_event: the event is for the ptracer, who may  *)
(* be waiting for it.  keep: shall the ptracee be kept stopped?            *)
NotifyPtracer(S, q, event) ==
  LET p == Tracer(S, q)
      S1 == [S EXCEPT !.t[q].as_ptracee.event = [value |-> event, pending |-> TRUE]]
      S2 == EndWait(S1, p, q)
      alive == event # "EXITED"
  IN  IF WaitsFor(S, p, q)
      THEN [s |-> restart_tracee(S2, p), keep |-> alive /\ Restartable(S2, p)]
      ELSE [s |-> S1, keep |-> alive]

(* new_child, at the FORK event of p: the child is made known, traced like *)
(* its creator if the ptracer asked for it, and started if PRoot has seen  *)
(* its first stop.                                                         *)
TraceChild(S, c, tracer) ==
  [attach_to_ptracer(S, c, tracer) EXCEPT !.t[c].as_ptracee.tracefork = TRUE]

Introduce(S, c, p) ==
  [S EXCEPT !.t[c].parent = p, !.t[c].exe = TRUE,
            !.t[c].sigstop = IF @ = "PENDING" THEN "ALLOWED" ELSE @]

StartChild(S, c, traced) ==
  LET n == NotifyPtracer([S EXCEPT !.t[c].as_ptracee.tracing_started = TRUE], c, "SIGSTOP")
  IN  IF ~traced THEN restart_tracee(S, c)
      ELSE IF n.keep THEN n.s ELSE restart_tracee(n.s, c)

new_child(S, p) ==
  LET c == S.k[p].child
      S1 == IF Listed(S, c) THEN S ELSE [S EXCEPT !.t[c] = NewTracee]
      fresh == ~S1.t[c].exe /\ S1.t[c].parent = NULL /\ Tracer(S1, c) = NULL
      tracer == Tracer(S, p)
      traced == tracer # NULL /\ S.t[p].as_ptracee.tracefork
      S2 == IF traced THEN TraceChild(S1, c, tracer) ELSE S1
      S3 == Introduce(S2, c, p)
  IN  IF ~fresh THEN Assert(S1, FALSE, "tracee.c:422")
      ELSE IF S1.t[c].sigstop # "PENDING" THEN S3
      ELSE StartChild(S3, c, traced)

-----------------------------------------------------------------------------
(* The exit stage of an emulated ptrace.                                   *)
Traceme(S, q) ==
  LET p == S.t[q].parent
      S1 == attach_to_ptracer(S, q, p)
  IN  IF Tracer(S, q) # NULL THEN S
      ELSE IF p = NULL THEN Assert(S, FALSE, "ptrace.c:109")
      ELSE IF S.t[p].waits_in # "WAITS_IN_KERNEL" THEN S1
      ELSE [SendStop(S1, p) EXCEPT !.t[p].sigstop = "IGNORED",
                                    !.t[p].waits_in = "WAITS_IN_PROOT"]

Attach(S, p, q) ==
  IF Listed(S, q) /\ Tracer(S, q) = NULL /\ q # p
  THEN SendStop(attach_to_ptracer(S, q, p), q) ELSE S

(* The ptracee is restarted: the event PRoot kept is handled first.  The   *)
(* signal of CONT and SYSCALL overrides PRoot's.                           *)
Resume(S, q, forced) ==
  IF ~S.t[q].as_ptracee.proot.pending THEN restart_tracee(S, q)
  ELSE LET value == S.t[q].as_ptracee.proot.value IN
       IF forced THEN restart_tracee(HandleKept(S, q, value), q)
       ELSE HandleAndRestart(S, q, value)

translate_ptrace_exit(S, p) ==
  LET request == S.k[p].call.request
      q == S.k[p].call.pid
  IN  CASE request = "TRACEME" -> Traceme(S, p)
        [] request = "ATTACH" -> Attach(S, p, q)
        [] OTHER ->
             IF \/ \E z \in S.t[p].zombies : z.pid = q
                \/ ~(q \in Ptracees(S, p) /\ ~S.t[q].running) THEN S
             ELSE CASE request = "SYSCALL" ->
                         Resume([S EXCEPT !.t[q].as_ptracee.ignore_syscalls = FALSE], q, TRUE)
                    [] request = "CONT" ->
                         Resume([S EXCEPT !.t[q].as_ptracee.ignore_syscalls = TRUE], q, TRUE)
                    [] request = "DETACH" -> Resume(detach_from_ptracer(S, q), q, FALSE)
                    [] OTHER -> [S EXCEPT !.t[q].as_ptracee.tracefork = TRUE]

(* The exit stage of a wait4, with all its outcomes: zombies come first,   *)
(* the order of the list of tracees is left open.                          *)
translate_wait_exit(S, p) ==
  LET c == S.k[p].call
      S1 == [S EXCEPT !.t[p].waits_in = "DOESNT_WAIT"]
      Dead == {z \in S.t[p].zombies : c.pid \in {-1, z.pid}}
      Ready == {q \in Ptracees(S, p) : /\ c.pid \in {-1, q} /\ ~S.t[q].running
                                       /\ S.t[q].as_ptracee.event.pending}
  IN  IF Dead # {} THEN {CollectZombie(S1, p, z) : z \in Dead}
      ELSE IF Ready # {} THEN {update_wait_status(S1, p, q) : q \in Ready}
      ELSE IF S.t[p].nb_ptracees = 0 \/ c.nohang THEN {S1}
      ELSE {[S1 EXCEPT !.t[p].wait_pid = c.pid]}

ExitStage(S, p) ==
  LET S1 == [S EXCEPT !.t[p].sysexit = FALSE]
      nr == S.k[p].call.nr
  IN  IF S.t[p].chained THEN {[S1 EXCEPT !.t[p].chained = FALSE]}
      ELSE IF nr = "ptrace" THEN {translate_ptrace_exit(S1, p)}
      ELSE IF nr = "wait4" /\ S.t[p].waits_in = "WAITS_IN_PROOT"
      THEN translate_wait_exit(S1, p)
      ELSE {S1}

-----------------------------------------------------------------------------
handle_tracee_event(S, p, event) ==
  LET S1 == [S EXCEPT !.t[p].restart_how = TRUE,
                      !.t[p].as_ptracee.proot.pending = FALSE]
  IN  CASE event = "FORK" -> {new_child(S1, p)}
        [] event = "syscall" /\ S.t[p].sysexit -> ExitStage(S1, p)
        [] OTHER -> {HandleKept(S, p, event)}

(* Events that are not for the ptracer: syscalls and forks it did not ask  *)
(* for, and syscalls before the first signal.                              *)
NotForPtracer(S, q, event) ==
  LET a == S.t[q].as_ptracee IN
  \/ event = "syscall" /\ (a.ignore_syscalls \/ ~a.tracing_started)
  \/ event = "FORK" /\ ~a.tracefork

(* handle_ptracee_event, as a set of [s, keep].                            *)
handle_ptracee_event(S, q, event) ==
  LET S1 == [S EXCEPT !.t[q].as_ptracee.proot = [value |-> event, pending |-> TRUE]]
      S2 == [S1 EXCEPT !.t[q].as_ptracee.tracing_started = TRUE]
      prootFirst == event = "FORK" \/ (event = "syscall" /\ S.t[q].sysexit)
  IN  IF NotForPtracer(S, q, event) THEN {[s |-> S1, keep |-> FALSE]}
      ELSE IF ~prootFirst THEN {NotifyPtracer(S2, q, event)}
      ELSE {NotifyPtracer([n EXCEPT !.t[q].as_ptracee.proot.value = "0"], q, event) :
              n \in handle_tracee_event(S2, q, event)}

(* Fault: a ptracee whose event PRoot has handled is forgotten.            *)
ReleaseUnhandled(S, q) ==
  LET a == S.t[q].as_ptracee
      S1 == [S EXCEPT !.t[q].as_ptracee.ptracer = NULL]
      S2 == IF a.proot.pending THEN HandleAndRestart(S1, q, a.proot.value) ELSE S1
  IN  [S2 EXCEPT !.t[q].as_ptracee = NotTraced]

(* remove_tracee: a ptracee q of the dead p is free, and restarted if an   *)
(* event is pending.                                                       *)
ReleasePtracee(S, q) ==
  LET a == S.t[q].as_ptracee
      S1 == [S EXCEPT !.t[q].as_ptracee.ptracer = NULL]
      S2 == IF a.proot.pending THEN HandleAndRestart(S1, q, a.proot.value)
            ELSE IF a.event.pending THEN restart_tracee(S1, q) ELSE S1
  IN  [S2 EXCEPT !.t[q].as_ptracee = NotTraced]

(* The ptracees of the dead process are released in the order of the list. *)
(* A release writes the record of its own ptracee, and what it reads there *)
(* and elsewhere no other release changes: the order does not matter.      *)
ReleasePtracees(S, P) ==
  LET S1 == [S EXCEPT
               !.t = [q \in Procs |-> IF q \in P THEN ReleasePtracee(S, q).t[q] ELSE S.t[q]],
               !.k = [q \in Procs |-> IF q \in P THEN ReleasePtracee(S, q).k[q] ELSE S.k[q]]]
  IN  Assert(S1, \A q \in P : ReleasePtracee(S, q).failed = S.failed, "event.c:897")

Unlink(S, p) ==
  [S EXCEPT !.t = [q \in Procs |->
     [S.t[q] EXCEPT !.parent = IF @ = p THEN NULL ELSE @, !.listed = @ /\ q # p]]]

(* remove_tracee: orphans, free ptracees, then the dead p's own ptracer is *)
(* left a zombie to collect, or woken if it has nothing to wait for.       *)
remove_tracee(S, p) ==
  LET S1 == Unlink(S, p)
      S2 == ReleasePtracees(S1, Ptracees(S1, p))
      tracer == Tracer(S, p)
      S3 == Uncount(S2, tracer)
      zombie == [pid |-> p, parent |-> S.t[p].parent]
      S4 == IF tracer = NULL THEN S2
            ELSE IF S.t[p].as_ptracee.event = [value |-> "EXITED", pending |-> TRUE]
            THEN [S2 EXCEPT !.t[tracer].zombies = @ \cup {zombie}]
            ELSE IF S3.t[tracer].nb_ptracees = 0 /\ S3.t[tracer].wait_pid # NULL
            THEN restart_tracee([S3 EXCEPT !.t[tracer].wait_pid = NULL], tracer)
            ELSE S3
  IN  [S4 EXCEPT !.t[p] = Removed, !.k[p].pc = "gone"]

-----------------------------------------------------------------------------
(* One iteration of event_loop; the tracee that exited is freed at the     *)
(* start of the next one.                                                  *)
Commit(S) == t' = S.t /\ k' = S.k /\ failed' = S.failed

HandleReport(p) ==
  LET event == k[p].report
      tp == IF t[p].listed THEN t[p] ELSE NewTracee
      S == [t |-> [t EXCEPT ![p] = [tp EXCEPT !.running = FALSE]],
            k |-> [k EXCEPT ![p].report = "none"], failed |-> failed]
      outcomes == IF Tracer(S, p) = NULL THEN {[s |-> S, keep |-> FALSE]}
                  ELSE handle_ptracee_event(S, p, event)
  IN
  /\ failed = "none" /\ event # "none"
  /\ \E o \in outcomes :
       IF o.keep THEN Commit(o.s)
       ELSE \E n \in handle_tracee_event(o.s, p, event) :
              LET m == IF Blocks(o.s, p, event) THEN n ELSE restart_tracee(n, p)
              IN  Commit(IF event = "EXITED" THEN remove_tracee(m, p) ELSE m)
  /\ deserted' = deserted \cup
       IF event # "EXITED" THEN {}
       ELSE {q \in Ptracees(S, p) : /\ ~S.t[q].running
                                    /\ ~S.t[q].as_ptracee.proot.pending
                                    /\ ~S.t[q].as_ptracee.event.pending}

Next == \E p \in Procs : \/ Issue(p) \/ Return(p) \/ Fork(p) \/ Signal(p) \/ Die(p)
                         \/ HandleReport(p)

Spec == Init /\ [][Next]_vars

-----------------------------------------------------------------------------
State == [t |-> t, k |-> k, failed |-> failed]

(* The counter a ptracer's wait relies on to tell "nothing to wait for"    *)
(* from "not yet" is the number of its ptracees, zombies included.         *)
CountsAgree ==
  failed = "none" => \A p \in Procs : t[p].listed =>
    t[p].nb_ptracees = Cardinality(Ptracees(State, p)) + Cardinality(t[p].zombies)

(* No record refers to a tracee that was freed.                            *)
NoDanglingLinks ==
  failed = "none" => \A p \in Procs : t[p].listed =>
    /\ t[p].parent = NULL \/ t[t[p].parent].listed
    /\ Tracer(State, p) = NULL \/ t[Tracer(State, p)].listed

(* The records of ptracers and ptracees agree, in whatever order they die. *)
LinksAgree == CountsAgree /\ NoDanglingLinks

(* A ptracer PRoot keeps stopped in wait4 still has a ptracee to wait for, *)
(* and no event it waits for is already there.  What a ptracee that was    *)
(* killed, or is itself kept in a wait, has pending is left from before it *)
(* was resumed.                                                            *)
WaiterHasCause ==
  failed = "none" => \A p \in Procs : t[p].wait_pid # NULL =>
    /\ t[p].nb_ptracees > 0
    /\ \A z \in t[p].zombies : t[p].wait_pid \notin {-1, z.pid}
    /\ \A q \in Ptracees(State, p) :
         (/\ t[q].as_ptracee.event.pending /\ ~t[q].running
          /\ Alive(q) /\ t[q].wait_pid = NULL) => t[p].wait_pid \notin {-1, q}

Held(p) == t[p].listed /\ Alive(p) /\ ~k[p].run /\ k[p].report = "none"

(* A process PRoot keeps stopped has someone to restart it: it waits for a *)
(* ptracee, has a ptracer, or its creator is about to report it.           *)
HeldHasCause ==
  failed = "none" => \A p \in Procs : Held(p) =>
    \/ t[p].wait_pid # NULL \/ Tracer(State, p) # NULL \/ p \in deserted
    \/ t[p].sigstop = "PENDING" /\ \E q \in Procs : k[q].report = "FORK" /\ k[q].child = p

(* Nobody waits for nothing: every process PRoot keeps stopped, a ptracer  *)
(* in wait4 or a ptracee, is kept for something that is still to come.     *)
StoppedHasCause == WaiterHasCause /\ HeldHasCause

(* A process whose ptracer died is free, and runs on: remove_tracee's "Its *)
(* tracees are now free", of every process that PRoot knows the creator of.*)
FreedIsRestarted ==
  failed = "none" => \A p \in Procs : Held(p) /\ t[p].exe =>
    t[p].wait_pid # NULL \/ Tracer(State, p) # NULL
=============================================================================
