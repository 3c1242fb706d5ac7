------------------------------ MODULE SysVIpc ------------------------------
(***************************************************************************)
(* The per-tracee record of the SysV IPC extension (struct SysVIpcConfig)  *)
(* and the wait mechanism its message-queue, semaphore and shared-memory   *)
(* handlers share (extension/sysvipc/sysvipc.c).                           *)
(*                                                                         *)
(* A handler that must block sets wait_reason; the tracee is then parked   *)
(* in ppoll(2), entered at once from the sysenter stop or re-executed      *)
(* after a SIGSYS.  sysvipc_wake_tracee ends the wait: it interrupts       *)
(* ppoll with SIGSTOP, or cancels a ppoll that is not entered yet.         *)
(*                                                                         *)
(* Everything here is a pure operator on one such record.  The modules     *)
(* that EXTEND this one own the variables.                                 *)
(***************************************************************************)
EXTENDS Integers

(* Results are the kernel's: negative ones are errors.                     *)
EINTR  == -4
E2BIG  == -7
EAGAIN == -11
ENOMEM == -12
EFAULT == -14
EEXIST == -17
EINVAL == -22
EFBIG  == -27
ENOENT == -2
ERANGE == -34
ENOMSG == -42
EIDRM  == -43

WaitStates == {"NOT_WAITING", "RESTARTED_INTO_PPOLL_CANCELED",
               "RESTARTED_INTO_PPOLL", "ENTERED_PPOLL", "SIGNALED_PPOLL",
               "ENTERED_GETPID"}

(* The wait machinery's part of struct SysVIpcConfig, as talloc_zero leaves *)
(* it.                                                                     *)
InitWait == [wait_reason |-> "WR_NOT_WAITING", wait_state |-> "NOT_WAITING",
             chain_state |-> "NOT_CHAINED", status_after_wait |-> 0,
             waiting_object_index |-> 0]

(* May the tracee run its own code and so issue a new syscall?             *)
InUserCode(c) == c.wait_state = "NOT_WAITING" /\ c.chain_state = "NOT_CHAINED"

(* The assertions of sysvipc_wake_tracee.                                  *)
CanWake(c) == /\ c.wait_reason # "WR_NOT_WAITING"
              /\ c.wait_state \in {"ENTERED_PPOLL", "RESTARTED_INTO_PPOLL"}

(* Fault: the waker forgets to clear the reason.                           *)
WakeKeepsReason(c, status) ==
  [c EXCEPT !.status_after_wait = status,
            !.wait_state = IF @ = "ENTERED_PPOLL"
                             THEN "SIGNALED_PPOLL"
                             ELSE "RESTARTED_INTO_PPOLL_CANCELED"]

sysvipc_wake_tracee(c, status) ==
  [c EXCEPT !.wait_reason = "WR_NOT_WAITING",
            !.status_after_wait = status,
            !.wait_state = IF @ = "ENTERED_PPOLL"
                             THEN "SIGNALED_PPOLL"
                             ELSE "RESTARTED_INTO_PPOLL_CANCELED"]

(* The end of sysvipc_syscall_common for a handler that left record c and  *)
(* returned status: park in ppoll, or answer.  Out of a SIGSYS the answer   *)
(* is immediate, out of a sysenter stop it waits for the exit of getpid.   *)
sysvipc_syscall_common(c, status, from_sigsys) ==
  IF c.wait_reason # "WR_NOT_WAITING"
  THEN [c EXCEPT !.wait_state = IF from_sigsys THEN "RESTARTED_INTO_PPOLL"
                                               ELSE "ENTERED_PPOLL"]
  ELSE IF from_sigsys
  THEN c
  ELSE [c EXCEPT !.wait_state = "ENTERED_GETPID",
                 !.status_after_wait = status]

(* SYSCALL_ENTER_START of the re-executed ppoll.                           *)
EnterPpoll(c) == [c EXCEPT !.wait_state = "ENTERED_PPOLL"]

(* Fault: the reason survives the wait.                                    *)
AbandonKeepsReason(c) == [c EXCEPT !.wait_state = "NOT_WAITING"]

(* SYSCALL_EXIT_START of a ppoll that nobody woke: a signal or a timeout.  *)
AbandonWait(c) == [c EXCEPT !.wait_state = "NOT_WAITING",
                            !.wait_reason = "WR_NOT_WAITING"]

(* The call the tracee was parked in is over: its status is reported.      *)
EndWait(c) == [c EXCEPT !.wait_state = "NOT_WAITING"]

(* A record is coherent when a reason to wait and a parked state go        *)
(* together: nobody may ever wake a tracee that does not wait, and no      *)
(* tracee may be parked without a reason that a waker can find.            *)
WaitCoherent(c) ==
  (c.wait_reason # "WR_NOT_WAITING")
     <=> (c.wait_state \in {"ENTERED_PPOLL", "RESTARTED_INTO_PPOLL"})
=============================================================================
