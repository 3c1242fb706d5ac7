-------------------------------- MODULE Execve --------------------------------
(***************************************************************************)
(* execve/enter.c, execve/exit.c, syscall/heap.c: what a tracee's record   *)
(* holds of the program it runs -- its path, its load information, the     *)
(* heap PRoot emulates, the mask of the loader's calls -- over calls to    *)
(* execve(2), brk(2) and clone(2), failing ones included.  How a program   *)
(* is mapped is in Loader.                                                 *)
(*                                                                         *)
(* An address space and a Heap record have identifiers of their own:       *)
(* tracees share both or neither.  late, a history field, remembers the    *)
(* refusals since the program was started that come after the record was   *)
(* changed and that the code does not undo: "load" by PRoot, "kernel" by   *)
(* the kernel.  Quirks: "qemu" foreign programs are run by the runner,     *)
(* without the loader; "threads" two tracees of one memory are in brk(2)   *)
(* at a time.  detranslate_path is taken to find the guest's name of a     *)
(* program, and memory not to run out.                                     *)
(***************************************************************************)
EXTENDS Naturals, Sequences, FiniteSets, FiniteSetsExt

CONSTANTS Tracees, Programs,
          Foreign, Class32,   \* the programs of the guest's processor, the 32-bit ones
          PageSize, Breaks,   \* heap_offset is a page; the breaks asked for
          MaxCalls, Quirks

VARIABLES tracee,   \* Tracee: the fields below, or NoTracee
          heaps,    \* Heap: base, size, disabled
          mms,      \* the address spaces: bytes mapped at the heap, the break last told
          told,     \* what the last brk(2) was asked and told (history)
          calls
vars == <<tracee, heaps, mms, told, calls>>

NoProg == "none"
NoTracee == [call |-> "dead"]
Live == {t \in Tracees : tracee[t] # NoTracee}
Ids == 1 .. Cardinality(Tracees)
NewHeap == [base |-> 0, size |-> 0, disabled |-> FALSE]
NewMm == [len |-> 0, brk |-> 0]
Base == 4 * PageSize
NothingTold == [ask |-> 0, was |-> 0, res |-> 0, len |-> 0, base |-> 0]

Free(f) == Min(Ids \ {tracee[t][f] : t \in Live})
SharesMm(t) == {u \in Live \ {t} : tracee[u].mm = tracee[t].mm}
SharesHeap(t) == {u \in Live \ {t} : tracee[u].heap = tracee[t].heap}

(* A tracee that runs p, after its execve(2).                              *)
Runs(p) == [call |-> "none", prog |-> p, exe |-> p, host_exe |-> p, new_exe |-> p, info |-> p, skip |-> FALSE,
            ignore |-> FALSE, aarch32 |-> p \in Class32, traced |-> FALSE, heap |-> 1, mm |-> 1, arg |-> 0, as |-> <<"none", 0>>,
            late |-> {}]

Init ==
  /\ \E t \in Tracees, p \in Programs \ Foreign, traced \in BOOLEAN :
       tracee = [u \in Tracees |-> IF u = t THEN [Runs(p) EXCEPT !.traced = traced] ELSE NoTracee]
  /\ heaps = [i \in Ids |-> NewHeap] /\ mms = [i \in Ids |-> NewMm]
  /\ told = NothingTold /\ calls = 0

Call(t) == tracee[t].call = "none" /\ calls < MaxCalls /\ calls' = calls + 1

-----------------------------------------------------------------------------
(* new_child: the heap is shared with the memory, or copied with it.       *)
CopiesHeap(t, u, vm) == TRUE     \* Fault: CLONE_VM is forgotten
HeapIsCopied(t, u, vm) == ~vm

new_child(t, u, vm) ==
  /\ Call(t) /\ u \notin Live
  /\ LET mm   == IF vm THEN tracee[t].mm ELSE Free("mm")
         copy == HeapIsCopied(t, u, vm)
         heap == IF copy THEN Free("heap") ELSE tracee[t].heap
     IN  /\ tracee' = [tracee EXCEPT ![u] = [tracee[t] EXCEPT !.heap = heap, !.mm = mm, !.traced = FALSE, !.ignore = FALSE]]
         /\ heaps' = [heaps EXCEPT ![heap] = heaps[tracee[t].heap]]
         /\ mms' = [mms EXCEPT ![mm] = mms[tracee[t].mm]]
  /\ UNCHANGED told

Exit(t) ==
  /\ tracee[t].call = "none" /\ Cardinality(Live) > 1
  /\ tracee' = [tracee EXCEPT ![t] = NoTracee]
  /\ UNCHANGED <<heaps, mms, told, calls>>

-----------------------------------------------------------------------------
IsForeign(p) == "qemu" \in Quirks /\ p \in Foreign      \* tracee->qemu and not is_host_elf

(* translate_execve_enter, up to where the outcome is known: the path or   *)
(* its shebang is refused ("path"); no mapping of the program could be     *)
(* read ("load"), or all of them and what comes after is refused           *)
(* ("interp"): then the exit stage is not reached.                         *)
Outcomes == {"path", "load", "interp", "ok"}
Renamed(r, p) == [r EXCEPT !.host_exe = p, !.new_exe = p, !.skip = IsForeign(p), !.info = IF IsForeign(p) THEN NoProg ELSE p]
CommitsEarly(r, p) == [Renamed(r, p) EXCEPT !.exe = p]     \* Fault: the new name is committed at once
Prepared(r, p) == Renamed(r, p)

translate_execve_enter(t, p, outcome) ==
  LET new == Prepared(tracee[t], p)
  IN  /\ Call(t)
      /\ tracee' = [tracee EXCEPT ![t] =
           CASE outcome = "path"   -> @
             [] outcome = "load"   -> [new EXCEPT !.info = NoProg, !.late = @ \cup {"load"}]
             [] outcome = "interp" -> new
             [] outcome = "ok"     -> [new EXCEPT !.call = "execve", !.ignore = @ \/ ~IsForeign(p)]]
      /\ heaps' = IF outcome # "path" /\ IsForeign(p) THEN [heaps EXCEPT ![tracee[t].heap].disabled = TRUE] ELSE heaps
      /\ UNCHANGED <<mms, told>>

(* The heap of the new process: a record of its own.                       *)
KeepsHeap(t) == tracee[t].heap     \* Fault: a shared record is cleared in place
HeapAfter(t) == IF SharesHeap(t) # {} THEN Free("heap") ELSE tracee[t].heap

(* The kernel's execve(2), then translate_execve_exit.                     *)
Committed(t) ==
  LET heap == HeapAfter(t)
      mm   == IF SharesMm(t) # {} THEN Free("mm") ELSE tracee[t].mm
      p    == tracee[t].host_exe
  IN  /\ tracee' = [tracee EXCEPT ![t] = [@ EXCEPT !.call = IF tracee[t].traced THEN "loading" ELSE "none", !.prog = p,
                                                   !.exe = tracee[t].new_exe, !.heap = heap, !.mm = mm, !.aarch32 = p \in Class32, !.late = {}]]
      /\ heaps' = [heaps EXCEPT ![heap] = NewHeap]
      /\ mms' = [mms EXCEPT ![mm] = NewMm]

(* Without the loader, the handler of the exit returns at once.            *)
Skipped(t) ==
  LET mm == IF SharesMm(t) # {} THEN Free("mm") ELSE tracee[t].mm
  IN  /\ tracee' = [tracee EXCEPT ![t] = [@ EXCEPT !.call = "none", !.prog = tracee[t].host_exe, !.mm = mm, !.late = {}]]
      /\ mms' = [mms EXCEPT ![mm] = NewMm] /\ UNCHANGED heaps

(* A refused one has the word size changed, and its calls stay masked.     *)
WordSize(r) == IF r.skip THEN r.aarch32 ELSE r.info \in Class32
Refused(t) ==
  /\ tracee' = [tracee EXCEPT ![t] = [@ EXCEPT !.call = "none", !.late = tracee[t].late \cup {"kernel"},
                                               !.aarch32 = WordSize(tracee[t])]]
  /\ UNCHANGED <<heaps, mms>>

translate_execve_exit(t) ==
  /\ tracee[t].call = "execve"
  /\ Refused(t) \/ IF tracee[t].skip THEN Skipped(t) ELSE Committed(t)
  /\ UNCHANGED <<told, calls>>

(* The loader's notification that a traced program is loaded: the call is  *)
(* made void, its calls are no longer masked.                              *)
LoadDone(t) ==
  /\ tracee[t].call = "loading"
  /\ tracee' = [tracee EXCEPT ![t] = [@ EXCEPT !.call = "none", !.ignore = FALSE]]
  /\ UNCHANGED <<heaps, mms, told, calls>>

(* ptrace.c, attach_to_ptracer clears the record, whatever the tracee is   *)
(* doing.                                                                  *)
Attach(t) ==
  /\ ~tracee[t].traced /\ calls < MaxCalls /\ calls' = calls + 1
  /\ tracee' = [tracee EXCEPT ![t] = [@ EXCEPT !.traced = TRUE, !.ignore = FALSE]]
  /\ UNCHANGED <<heaps, mms, told>>

-----------------------------------------------------------------------------
RoundUp(n) == ((n + PageSize - 1) \div PageSize) * PageSize

(* translate_brk_enter: which call is made instead.  The mapping is asked  *)
(* for after the last one of the load information: PRoot crashes if there  *)
(* is none.                                                                *)
brk_call(h, addr) ==
  IF h.disabled \/ (h.base = 0 /\ addr # 0) THEN "brk"
  ELSE IF h.base = 0 THEN "mmap"
  ELSE IF addr < h.base THEN "void" ELSE "mremap"

translate_brk_enter(t, addr) ==
  /\ Call(t)
  /\ "threads" \in Quirks \/ \A u \in SharesMm(t) : tracee[u].call # "brk"
  /\ LET h  == heaps[tracee[t].heap]
         as == brk_call(h, addr)
     IN  tracee' = [tracee EXCEPT ![t] = [@ EXCEPT !.call = IF as = "mmap" /\ tracee[t].info = NoProg THEN "crash" ELSE "brk",
                                                   !.arg = addr, !.as = <<as, h.size>>]]
  /\ UNCHANGED <<heaps, mms, told>>

(* External: the kernel resizes the mapping of the heap from the size it   *)
(* is told, where it is, if there is room after it.                        *)
mremap(m, old, new, room) ==
  IF new <= old THEN [ok |-> m.len > 0, len |-> IF m.len < new THEN m.len ELSE new]
  ELSE IF room /\ old = m.len THEN [ok |-> TRUE, len |-> new] ELSE [ok |-> FALSE, len |-> m.len]

Told(t, h, m, res) ==
  /\ tracee' = [tracee EXCEPT ![t] = [@ EXCEPT !.call = "none", !.arg = 0, !.as = <<"none", 0>>]]
  /\ heaps' = [heaps EXCEPT ![tracee[t].heap] = h]
  /\ mms' = [mms EXCEPT ![tracee[t].mm] = [m EXCEPT !.brk = res]]
  /\ told' = [ask |-> tracee[t].arg, was |-> mms[tracee[t].mm].brk, res |-> res, len |-> m.len, base |-> h.base]
  /\ UNCHANGED calls

(* translate_brk_exit                                                      *)
BrkDone(t, as, room) ==
  LET h   == heaps[tracee[t].heap]
      m   == mms[tracee[t].mm]
      new == tracee[t].arg - h.base
      r   == mremap(m, RoundUp(tracee[t].as[2]) + PageSize, RoundUp(new) + PageSize, room)
  IN  /\ tracee[t].call = "brk" /\ tracee[t].as[1] = as
      /\ \/ as = "void" /\ Told(t, h, m, h.base + h.size)
         \/ as = "mmap" /\ ~room /\ Told(t, h, m, 0)
         \/ as = "mmap" /\ room
            /\ Told(t, [h EXCEPT !.base = Base + PageSize, !.size = 0], [m EXCEPT !.len = PageSize], Base + PageSize)
         \/ as = "mremap" /\ r.ok /\ Told(t, [h EXCEPT !.size = new], [m EXCEPT !.len = r.len], h.base + new)
         \/ as = "mremap" /\ ~r.ok /\ Told(t, h, m, h.base + h.size)
         \/ as = "brk" /\ Told(t, IF ~h.disabled /\ room THEN [h EXCEPT !.disabled = TRUE] ELSE h,
                               m, IF room THEN tracee[t].arg ELSE m.brk)

BrkCalls == {"void", "mmap", "mremap", "brk"}

Crashed == \E t \in Live : tracee[t].call = "crash"
Next ==
  /\ ~Crashed
  /\ \E t \in Live :
    \/ \E u \in Tracees, vm \in BOOLEAN : new_child(t, u, vm)
    \/ \E p \in Programs, o \in Outcomes : translate_execve_enter(t, p, o)
    \/ translate_execve_exit(t) \/ LoadDone(t) \/ Attach(t) \/ Exit(t)
    \/ \E a \in Breaks : translate_brk_enter(t, a)
    \/ \E as \in BrkCalls, room \in BOOLEAN : BrkDone(t, as, room)

Spec == Init /\ [][Next]_vars

-----------------------------------------------------------------------------
(* Over calls to execve(2) that succeed or are refused at any point, by    *)
(* PRoot after it replaced the names and the load information or by the    *)
(* kernel: a tracee's /proc/self/exe is the program it runs, and it shares *)
(* its emulated heap with the tracees it shares its memory with, and with  *)
(* no other.  Outside a call its word size is that of its program, and its *)
(* ptracer is told of its calls, unless the kernel refused it a program;   *)
(* and brk(2) has load information to go by, unless a program could not be *)
(* read.                                                                   *)
RecordIsTheProgram ==
  \A t \in Live :
    /\ tracee[t].exe = tracee[t].prog
    /\ tracee[t].call \in {"none", "brk"} /\ "kernel" \notin tracee[t].late =>
         /\ tracee[t].aarch32 = (tracee[t].prog \in Class32)
         /\ tracee[t].traced => ~tracee[t].ignore
    /\ SharesHeap(t) = SharesMm(t)
    /\ tracee[t].call = "crash" => "load" \in tracee[t].late

(* brk(2) moves the break where it is asked, and the memory below it is    *)
(* mapped, or it tells where the break is: where the last call made on     *)
(* this memory, by whichever tracee, has left it.                          *)
BrkLikeLinux ==
  \/ told.was = 0
  \/ told.res = told.was
  \/ told.res = told.ask /\ (told.base > 0 => told.ask >= told.base /\ told.ask - told.base + PageSize <= told.len)
=============================================================================
