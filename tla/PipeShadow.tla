------------------------------ MODULE PipeShadow ------------------------------
(***************************************************************************)
(* syscall/pipe_shadow.c and the top of event_loop(): the read end of an   *)
(* anonymous pipe that a tracee closes is kept open by PRoot for a while,  *)
(* so that a writer that lost a race against the close gets no EPIPE.      *)
(* Nothing reads from a shadow: a writer that fills the pipe is blocked    *)
(* until the shadow is released, and produces no event meanwhile.          *)
(*                                                                         *)
(* Each pipe has one reader and one writer.  Time is counted in units of   *)
(* SHADOW_REAP_INTERVAL_MS: the timer lasts TimerTicks of them.  Data is   *)
(* counted in halves of PIPE_BUF; each write takes a slot of its own.      *)
(*                                                                         *)
(* close(2) is in no list of the seccomp filter: where the filter is used  *)
(* a close is a stop only as the next call of a tracee that was told to    *)
(* stop there, and the others take the reader away unseen.                 *)
(***************************************************************************)
EXTENDS Naturals, FiniteSets

CONSTANTS Pipes,
          Capacities,        \* slots a pipe may have
          MAX_SHADOW_PIPES,
          MaxAge, TimerTicks,
          Late               \* PRoot may be delayed before waitpid(2)

ASSUME PipeAssumption == Capacities \subseteq Nat \ {0}

VARIABLES pipe,       \* the kernel's view: capacity, slots in use, bytes
          reader,     \* "open", "closed" by a close that was a stop, "unseen"
          writer,     \* "fresh", "writing", "blocked", "EPIPE", "gone"
          shadow,     \* the age of the shadow of each pipe that has one
          loop,       \* "top", "armed" (before waitpid), "waiting"
          timer,      \* ticks to the alarm; 0: not armed
          rang,       \* the alarm interrupted waitpid
          reaped      \* ticks since last_reap, at most 1
pipeVars == <<pipe, reader, writer, shadow, loop, timer, rang, reaped>>

PIPE_BUF == 2
Off == 0

PipesInit ==
  /\ pipe \in [Pipes -> [slots : Capacities, used : {0}, bytes : {0}]]
  /\ reader = [p \in Pipes |-> "open"] /\ writer = [p \in Pipes |-> "fresh"]
  /\ shadow = <<>>
  /\ loop = "top" /\ timer = Off /\ rang = FALSE /\ reaped = 1

Held == DOMAIN shadow
HasReader(p) == reader[p] = "open" \/ p \in Held
Without(f, S) == [p \in DOMAIN f \ S |-> f[p]]

-----------------------------------------------------------------------------
(* The tracees and their pipes (the kernel).                               *)
Full(p) == pipe[p].used = pipe[p].slots
Put(p, n) == pipe' = [pipe EXCEPT ![p].used = @ + 1, ![p].bytes = @ + n]
Becomes(p, s) == writer' = [writer EXCEPT ![p] = s]

(* write(2) of up to PIPE_BUF bytes is no event: the filter lets it pass.  *)
Write(p, n) ==
  /\ writer[p] \in {"fresh", "writing"}
  /\ IF ~HasReader(p) THEN Becomes(p, "EPIPE") /\ UNCHANGED pipe
     ELSE IF Full(p) THEN Becomes(p, "blocked") /\ UNCHANGED pipe
     ELSE Becomes(p, "writing") /\ Put(p, n)
  /\ UNCHANGED <<reader, shadow, loop, timer, rang, reaped>>

(* A blocked writer goes on as soon as there is room, or no reader.        *)
Unblock(p) ==
  /\ writer[p] = "blocked"
  /\ \/ ~HasReader(p) /\ Becomes(p, "EPIPE")
     \/ HasReader(p) /\ ~Full(p) /\ Becomes(p, "writing")
  /\ UNCHANGED <<pipe, reader, shadow, loop, timer, rang, reaped>>

Read(p) ==
  /\ reader[p] = "open" /\ pipe[p].used > 0
  /\ pipe' = [pipe EXCEPT ![p].used = 0, ![p].bytes = 0]
  /\ UNCHANGED <<reader, writer, shadow, loop, timer, rang, reaped>>

WriterEnds(p) ==
  /\ writer[p] \in {"fresh", "writing"} /\ Becomes(p, "gone")
  /\ UNCHANGED <<pipe, reader, shadow, loop, timer, rang, reaped>>

-----------------------------------------------------------------------------
WouldBlockAtBound(p) == pipe[p].bytes >= pipe[p].slots * PIPE_BUF - PIPE_BUF

(* writer_would_block                                                      *)
writer_would_block(p) ==
  LET capacity == pipe[p].slots * PIPE_BUF
  IN  pipe[p].bytes > (IF capacity > PIPE_BUF THEN capacity - PIPE_BUF ELSE 0)

(* shadow_pipes_reap, at the top of every round of the loop.               *)
Useless ==
  {p \in Held : writer[p] \in {"gone", "EPIPE"}     \* POLLHUP
                \/ writer_would_block(p)
                \/ shadow[p] >= MaxAge}
shadow_pipes_reap ==
  IF Held = {} \/ reaped < 1 THEN UNCHANGED <<shadow, reaped>>
  ELSE shadow' = Without(shadow, Useless) /\ reaped' = 0

(* shadow_pipes_set_timer(shadow_pipes_held()): a one-shot timer.          *)
ArmedAfterReap(held) == IF held # {} /\ reaped = 1 THEN TimerTicks ELSE Off
ArmedFor(held) == IF held # {} THEN TimerTicks ELSE Off

LoopTop ==
  /\ loop = "top" /\ loop' = "armed"
  /\ shadow_pipes_reap /\ timer' = ArmedFor(DOMAIN shadow')
  /\ UNCHANGED <<pipe, reader, writer, rang>>

Waits ==
  /\ loop = "armed" /\ loop' = "waiting"
  /\ UNCHANGED <<pipe, reader, writer, shadow, timer, rang, reaped>>

(* waitpid returned: the timer is disarmed, then the event is handled.     *)
Woken == loop = "waiting" /\ loop' = "top" /\ timer' = Off /\ rang' = FALSE

(* shadow_pipe_read_end at the enter stage of close(2), before the kernel  *)
(* closes the descriptor.  One pipe has one slot: its reader closes once.  *)
Room == Cardinality(Held) < MAX_SHADOW_PIPES
shadow_pipe_read_end(p) ==
  IF Room
  THEN shadow' = [q \in Held \cup {p} |-> IF q = p THEN 0 ELSE shadow[q]]
  ELSE UNCHANGED shadow
Leaves(p, how) == reader[p] = "open" /\ reader' = [reader EXCEPT ![p] = how]
Close(p) ==
  /\ Leaves(p, "closed") /\ Woken /\ shadow_pipe_read_end(p)
  /\ UNCHANGED <<pipe, writer, reaped>>

(* The close is no stop (the kernel).                                      *)
CloseUnseen(p) ==
  /\ Leaves(p, "unseen")
  /\ UNCHANGED <<pipe, writer, shadow, loop, timer, rang, reaped>>

(* The reader is killed: its descriptors go without a close(2).            *)
ReaderEnds(p) ==
  /\ Leaves(p, "unseen") /\ Woken
  /\ UNCHANGED <<pipe, writer, shadow, reaped>>

OtherEvent == Woken /\ UNCHANGED <<pipe, reader, writer, shadow, reaped>>

(* SIGALRM interrupts waitpid (EINTR).  Before waitpid it is lost.         *)
Alarm == rang /\ OtherEvent

Tick ==
  /\ shadow' = [p \in Held |-> IF shadow[p] < MaxAge THEN shadow[p] + 1 ELSE MaxAge]
  /\ reaped' = 1
  /\ timer' = IF timer = Off THEN Off ELSE timer - 1
  /\ rang' = (rang \/ (timer = 1 /\ loop = "waiting"))
  /\ timer = 1 => loop = "waiting" \/ Late
  /\ pipeVars # <<pipe, reader, writer, shadow', loop, timer', rang', reaped'>>
  /\ UNCHANGED <<pipe, reader, writer, loop>>

-----------------------------------------------------------------------------
PipesNext ==
  \/ \E p \in Pipes : \/ \E n \in 1..PIPE_BUF : Write(p, n)
                      \/ Unblock(p) \/ Read(p) \/ WriterEnds(p)
                      \/ Close(p) \/ CloseUnseen(p) \/ ReaderEnds(p)
  \/ LoopTop \/ Waits \/ OtherEvent \/ Alarm \/ Tick

(* PRoot runs, time passes and the kernel wakes the tasks it can; nothing  *)
(* makes a tracee write, read or end, or an event come.                    *)
Fairness ==
  /\ WF_pipeVars(LoopTop) /\ WF_pipeVars(Waits) /\ WF_pipeVars(Alarm) /\ WF_pipeVars(Tick)
  /\ \A p \in Pipes : WF_pipeVars(Unblock(p))
PipesSpec == PipesInit /\ [][PipesNext]_pipeVars /\ Fairness

-----------------------------------------------------------------------------
(* A writer is not left blocked on a pipe that only PRoot keeps open: it   *)
(* goes on, as it would at once without PRoot.                             *)
BlockedWriterIsFreed ==
  \A p \in Pipes : (writer[p] = "blocked" /\ reader[p] # "open") ~> writer[p] # "blocked"

(* What shadows are for: a pipe whose writer did not write yet loses its   *)
(* last reader only when the shadow of that reader is MaxAge old, or, at   *)
(* once, when PRoot does not see it go (it was killed, or the filter lets  *)
(* its close pass) or every slot is taken.                                 *)
LosesReader(p) == HasReader(p) /\ ~HasReader(p)'
FirstWriteIsKept ==
  [][\A p \in Pipes : LosesReader(p) /\ writer[p] = "fresh" =>
       IF p \in Held THEN shadow[p] >= MaxAge
       ELSE reader'[p] = "unseen" \/ ~Room]_pipeVars
=============================================================================
