-------------------------------- MODULE Loader --------------------------------
(***************************************************************************)
(* execve/elf.c, the load information of execve/enter.c, the load script   *)
(* of execve/exit.c and its interpreter, loader/loader.c: a program and    *)
(* its ELF interpreter are described by PRoot at the entry of execve(2),   *)
(* mapped by the loader the kernel started instead, and run.               *)
(*                                                                         *)
(* A byte of memory is a byte of a file, <<file, offset>>, or zero.  An    *)
(* address is a number and a page has PageSize of them.  Quirks are the    *)
(* programs for which the loader does not do what the kernel does:         *)
(* "bss" a segment with no byte of the file, that starts a page; "phdr"    *)
(* the first segment does not hold the program headers.                    *)
(***************************************************************************)
EXTENDS Integers, Sequences, FiniteSets, FiniteSetsExt, SequencesExt

CONSTANTS PageSize,
          EXEC_PIC_ADDRESS, INTERP_PIC_ADDRESS,   \* where what can be anywhere is put
          Quirks

VARIABLES prog, interp,     \* the two files
          script, cursor,   \* the load script and what is left of it
          mem,              \* the memory of the process: the addresses mapped
          fd,               \* the file the loader has open
          at_base, reset_at_base,
          started,          \* the registers and the vectors the program starts with
          stage             \* "enter", "load", "run", "fatal" or an error
vars == <<prog, interp, script, cursor, mem, fd, at_base, reset_at_base, started, stage>>

Zero == <<"zero", 0>>
NoFile == "none"
NotStarted == [entry_point |-> 0, at_phdr |-> 0, at_phnum |-> 0, at_entry |-> 0, at_base |-> 0, stack |-> FALSE]

(* A file: what is in its ELF header and its program headers.  An address  *)
(* of a header is relative to the base when the file is of type "dyn".     *)
File(n) == IF n = "prog" THEN prog ELSE interp
Segment(h) == h.vaddr .. (h.vaddr + h.memsz - 1)
Loads(f) == SelectSeq(f.headers, LAMBDA h : h.type = "LOAD")

Truncate(a) == a - (a % PageSize)
RoundUp(a) == Truncate(a + PageSize - 1)

-----------------------------------------------------------------------------
(* The extra bytes of a segment that are in its last page of the file are  *)
(* not cleared (Fault).                                                     *)
ClearsNothing(mappings, h) ==
  LET start == Truncate(h.vaddr)
      end   == RoundUp(h.vaddr + h.filesz)
      top   == RoundUp(h.vaddr + h.memsz)
  IN  mappings \o <<[anon |-> FALSE, addr |-> start, length |-> end - start, offset |-> Truncate(h.offset), clear_length |-> 0]>>
               \o (IF top > end THEN <<[anon |-> TRUE, addr |-> end, length |-> top - end, offset |-> 0, clear_length |-> 0]>> ELSE <<>>)

(* add_mapping: the pages of the file, then pages of its own for the       *)
(* extra bytes of the segment that do not fit in the last one.             *)
add_mapping(mappings, h) ==
  LET start == Truncate(h.vaddr)
      end   == RoundUp(h.vaddr + h.filesz)
      top   == RoundUp(h.vaddr + h.memsz)
      extra == h.memsz > h.filesz
  IN  mappings \o <<[anon |-> FALSE, addr |-> start, length |-> end - start, offset |-> Truncate(h.offset),
                     clear_length |-> IF extra THEN end - (h.vaddr + h.filesz) ELSE 0]>>
               \o (IF extra /\ top > end
                   THEN <<[anon |-> TRUE, addr |-> end, length |-> top - end, offset |-> 0, clear_length |-> 0]>> ELSE <<>>)

(* translate_and_check_exec of the interpreter, from its path.             *)
translate_and_check_exec(f) ==
  CASE f.mode = "missing" -> "ENOENT"
    [] f.mode = "noexec"  -> "EACCES"
    [] OTHER              -> "ok"

add_interp(info) ==
  LET checked == translate_and_check_exec(interp)
  IN  IF info.interp THEN [info EXCEPT !.status = "EINVAL"]       \* only one PT_INTERP
      ELSE [info EXCEPT !.interp = TRUE, !.status = checked]

add_load_info(info, h) ==
  CASE info.status # "ok" -> info                                 \* the iterator has stopped
    [] h.type = "LOAD"    -> [info EXCEPT !.mappings = add_mapping(@, h)]
    [] h.type = "INTERP"  -> add_interp(info)
    [] h.type = "STACK"   -> [info EXCEPT !.stack = @ \/ h.exec]
    [] OTHER              -> info

open_elf(f) == IF f.ident = "elf" THEN "ok" ELSE "ENOEXEC"
NoInfo(f) == [status |-> open_elf(f), mappings |-> <<>>, interp |-> FALSE, stack |-> FALSE, entry |-> f.entry]

(* iterate_program_headers, with its sanity check of the table.            *)
iterate_program_headers(f, info) ==
  IF f.phentsize # "known" THEN [info EXCEPT !.status = "ENOTSUP"] ELSE FoldLeft(add_load_info, info, f.headers)

extract_load_info(f) ==
  LET info == NoInfo(f)
  IN  CASE info.status # "ok"               -> info
        [] f.type \notin {"exec", "dyn"}    -> [info EXCEPT !.status = "EINVAL"]
        [] OTHER                            -> iterate_program_headers(f, info)

add_load_base(info, base) ==
  [info EXCEPT !.entry = @ + base, !.mappings = [i \in DOMAIN @ |-> [@[i] EXCEPT !.addr = @ + base]]]

(* compute_load_addresses: an object is moved when it may be anywhere and  *)
(* was linked at the very first address.                                   *)
compute_load_address(f, info, base) ==
  IF f.type = "dyn" /\ info.mappings[1].addr = 0 THEN add_load_base(info, base) ELSE info

-----------------------------------------------------------------------------
transcript_mappings(info) ==
  [i \in DOMAIN info.mappings |-> [do |-> IF info.mappings[i].anon THEN "mmap_anon" ELSE "mmap_file", m |-> info.mappings[i]]]

(* transfer_load_script                                                    *)
load_script(info, ld) ==
  LET last  == IF info.interp THEN ld ELSE info
      stack == info.stack \/ (info.interp /\ ld.stack)
  IN  <<[do |-> "open", file |-> "prog"]>> \o transcript_mappings(info)
      \o (IF info.interp THEN <<[do |-> "open_next", file |-> "interp"]>> \o transcript_mappings(ld) ELSE <<>>)
      \o (IF stack THEN <<[do |-> "make_stack_exec"]>> ELSE <<>>)
      \o <<[do |-> "start", entry_point |-> last.entry, at_entry |-> info.entry, at_phnum |-> Len(prog.headers),
            at_phdr |-> prog.phoff + info.mappings[1].addr, stack |-> stack]>>

(* translate_execve_enter from extract_load_info on, then the success of   *)
(* the kernel's execve(2) of the loader and translate_execve_exit.  The    *)
(* interpreter of an interpreter is dropped.                               *)
Exec ==
  LET info == extract_load_info(prog)
      ld   == extract_load_info(interp)
  IN  /\ stage = "enter"
      /\ IF info.status # "ok" THEN stage' = info.status /\ UNCHANGED <<script, cursor, mem>>
         ELSE IF info.interp /\ ld.status # "ok" THEN stage' = ld.status /\ UNCHANGED <<script, cursor, mem>>
         ELSE /\ stage' = "load" /\ cursor' = 1 /\ mem' = << >>
              /\ script' = load_script(compute_load_address(prog, info, EXEC_PIC_ADDRESS),
                                       IF info.interp THEN compute_load_address(interp, ld, INTERP_PIC_ADDRESS) ELSE info)
      /\ UNCHANGED <<prog, interp, fd, at_base, reset_at_base, started>>

-----------------------------------------------------------------------------
(* The loader, one statement of its script at a time.                      *)
Statement == script[cursor]
Loading(do) == stage = "load" /\ Statement.do = do

Advance == cursor' = cursor + 1 /\ UNCHANGED <<prog, interp, script>>

Open ==
  /\ stage = "load" /\ Statement.do \in {"open", "open_next"}
  /\ fd' = Statement.file /\ reset_at_base' = TRUE
  /\ Advance /\ UNCHANGED <<mem, at_base, started, stage>>

(* External: the bytes mmap(2) gives to pages of a file.                   *)
Content(n, off) == IF off < File(n).size THEN <<n, off>> ELSE Zero
Over(m, new) == [a \in DOMAIN m \cup DOMAIN new |-> IF a \in DOMAIN new THEN new[a] ELSE m[a]]

(* clear: the bytes of the mapping from the end of the file's on.          *)
clear(m, from, to) == [a \in DOMAIN m |-> IF a \in from .. (to - 1) THEN Zero ELSE m[a]]

MmapFile ==
  /\ Loading("mmap_file")
  /\ LET m   == Statement.m
         new == [a \in m.addr .. (m.addr + m.length - 1) |-> Content(fd, m.offset + a - m.addr)]
     IN  IF m.length = 0
         THEN stage' = "fatal" /\ UNCHANGED <<prog, interp, script, cursor, mem, at_base, reset_at_base>>
         ELSE /\ mem' = clear(Over(mem, new), m.addr + m.length - m.clear_length, m.addr + m.length)
              /\ at_base' = (IF reset_at_base THEN m.addr ELSE at_base)
              /\ reset_at_base' = FALSE
              /\ Advance /\ UNCHANGED stage
  /\ UNCHANGED <<fd, started>>

MmapAnon ==
  /\ Loading("mmap_anon")
  /\ mem' = Over(mem, [a \in Statement.m.addr .. (Statement.m.addr + Statement.m.length - 1) |-> Zero])
  /\ Advance /\ UNCHANGED <<fd, at_base, reset_at_base, started, stage>>

MakeStackExec ==
  /\ Loading("make_stack_exec")
  /\ started' = [started EXCEPT !.stack = TRUE]
  /\ Advance /\ UNCHANGED <<mem, fd, at_base, reset_at_base, stage>>

Start ==
  /\ Loading("start")
  /\ fd' = NoFile /\ stage' = "run"
  /\ started' = [started EXCEPT !.entry_point = Statement.entry_point, !.at_phdr = Statement.at_phdr,
                                !.at_phnum = Statement.at_phnum, !.at_entry = Statement.at_entry, !.at_base = at_base]
  /\ Advance /\ UNCHANGED <<mem, at_base, reset_at_base>>

Next == Exec \/ Open \/ MmapFile \/ MmapAnon \/ MakeStackExec \/ Start

(* The programs of the quirks, and the others.                             *)
Usual(f) ==
  /\ "bss" \in Quirks \/ \A i \in DOMAIN Loads(f) : Loads(f)[i].filesz > 0 \/ Loads(f)[i].vaddr % PageSize # 0
  /\ "phdr" \in Quirks \/ (Loads(f) # <<>> => Loads(f)[1].offset < PageSize)

InitWith(p, i) ==
  /\ prog = p /\ interp = i /\ script = <<>> /\ cursor = 0 /\ mem = << >> /\ fd = NoFile
  /\ at_base = 0 /\ reset_at_base = TRUE /\ started = NotStarted /\ stage = "enter"

-----------------------------------------------------------------------------
(* What the kernel would do with the same program.                         *)
HasInterp(f) == \E i \in DOMAIN f.headers : f.headers[i].type = "INTERP"
Base(f, pic) == IF f.type = "dyn" /\ Truncate(Loads(f)[1].vaddr) = 0 THEN pic ELSE 0

ImageOf(n, base) ==
  LET f == File(n)
  IN  \A i \in DOMAIN Loads(f) : LET h == Loads(f)[i]
      IN \A a \in Segment(h) :
           /\ base + a \in DOMAIN mem
           /\ mem[base + a] = IF a < h.vaddr + h.filesz THEN <<n, h.offset + a - h.vaddr>> ELSE Zero

ExecStack(f) == \E i \in DOMAIN f.headers : f.headers[i].type = "STACK" /\ f.headers[i].exec

(* When the program is given the processor, each byte of each segment of   *)
(* the program and of its interpreter is what the file says, or zero past  *)
(* the bytes of the file, wherever segments end within their pages; the    *)
(* entry point, the vectors and the stack are those the kernel would have  *)
(* given; and the loader has left no file open.  The loader never gives    *)
(* up on a program that enter accepted.                                    *)
LoadedLikeKernel ==
  LET base == Base(prog, EXEC_PIC_ADDRESS)
      ld   == Base(interp, INTERP_PIC_ADDRESS)
      dyn  == HasInterp(prog)
  IN  /\ stage # "fatal"
      /\ stage = "run" =>
           /\ ImageOf("prog", base) /\ (dyn => ImageOf("interp", ld))
           /\ started.entry_point = IF dyn THEN ld + interp.entry ELSE base + prog.entry
           /\ started.at_entry = base + prog.entry
           /\ mem[started.at_phdr] = <<"prog", prog.phoff>>
           /\ dyn => started.at_base = ld + Truncate(Loads(interp)[1].vaddr)
           /\ started.stack = (ExecStack(prog) \/ (dyn /\ ExecStack(interp)))
           /\ fd = NoFile
=============================================================================
