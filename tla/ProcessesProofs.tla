--------------------------- MODULE ProcessesProofs ---------------------------
(***************************************************************************)
(* What PRoot keeps for a process stays true: its program (Execve), the    *)
(* pipes it closed (PipeShadow), the paths it looks up (Jit), the ports of *)
(* its sockets (Ports) and its netlink sockets (Netlink), for every number *)
(* of tracees, programs, pipes, paths, ports, descriptors and calls.       *)
(*                                                                         *)
(* Execve.  The record of a tracee is written by execve(2), brk(2),        *)
(* clone(2) and ptrace(2), which PRoot or the kernel may still refuse      *)
(* after it was written.  The invariant says what holds in the middle of a *)
(* call as well: the program that runs is the one the record names, and    *)
(* what a refusal leaves behind is known (ProgramPart),                    *)
(* a heap's record and the memory it stands for have the same sharers      *)
(* (SharePart) and the same break (HeapPart), and brk(2) was translated    *)
(* for the heap as it still is when the kernel returns (BrkOK), for no     *)
(* other tracee of that memory is in a call to brk(2) then (OnePart).      *)
(*                                                                         *)
(* PipeShadow.  shadow_pipes_reap drops a shadow that is too old, whose    *)
(* writer is gone, or that would block its writer.  The last test only     *)
(* reads how full the pipe is: that it spares a writer that did not write  *)
(* rests on what the pipe of such a writer holds (Fresh), through all the  *)
(* steps of the tracees and of the loop in between.                        *)
(*                                                                         *)
(* Jit.  The sequence lock of the path cache keeps its promise where       *)
(* stores and loads happen in program order and the lock does not come     *)
(* back to an old value (fewer than half of 2^32 writes).  A lookup trusts *)
(* a copy when the lock had the same even value before and after it, so    *)
(* the invariant follows the value of the lock: even and equal to seq1     *)
(* means that no write was begun, that the entries are what the cache      *)
(* holds, and that every field loaded so far came from them.               *)
(*                                                                         *)
(* Ports.  A socket that listens is found at the port the guest bound it   *)
(* to if it has the port the table leads to, which the invariant says of   *)
(* every socket but that of the pending port (SockPart).  An entry that is *)
(* added hides no other from the probing (Findable, EntryAdded), and is    *)
(* about a port that no other socket and no bind on its way has (BindOK).  *)
(*                                                                         *)
(* Netlink.  handle_netlink_reply_exit knows a refusal by descriptor and   *)
(* sequence number.  That it is one the tracee's own reconfiguration got   *)
(* rests on what waits on a real socket (QueuePart): the answer to its one *)
(* reader, alone if it is a status, and expected exactly if the namespace  *)
(* is pretended.  TrackedPart keeps the two kinds of descriptor apart.     *)
(***************************************************************************)
EXTENDS Execve, PipeShadow, TLAPS, FiniteSetTheorems, SequenceTheorems, WellFoundedInduction

(* Of Jit.                                                                 *)
CONSTANTS Guests, Hosts, Entries, MaxRetries, MaxWrites, SeqMod, Weak
VARIABLES idx, seqlock, entries, pending, writing, looking, current, writes
J == INSTANCE Jit

(* Of Ports; pending and calls are those of Jit and of Execve again.       *)
CONSTANTS Fds, Asked, Ephemeral, PORTMAP_SIZE, PORT_THRESHOLD, PORT_ADDITION, Given
VARIABLES mode, map, extension, socks, calling
P == INSTANCE Ports WITH call <- calling

(* Of Netlink.                                                             *)
CONSTANTS Sockets, MAX_FAKE_NETLINK_FDS, MAX_NETLINK_ROUTE_FDS, MaxItems, Seqs, MaxSends
VARIABLES host, alive, files, queue, fake, route, netns, ack, guest, sends
N == INSTANCE Netlink

-----------------------------------------------------------------------------
(* What the theorems of Execve ask of the constants: the cases in which    *)
(* the code is known to go wrong (Quirks: the runner of foreign programs,  *)
(* two threads in brk(2) at a time) are left out, the null pointer         *)
(* is no program, a page and a break are numbers.                          *)
Usual ==
  /\ Quirks = {} /\ IsFiniteSet(Tracees) /\ NoProg \notin Programs
  /\ PageSize \in Nat \ {0} /\ Breaks \subseteq Nat

(* The types of the records.                                               *)
HeapType == [base : Nat, size : Nat, disabled : BOOLEAN]
MmType == [len : Nat, brk : Nat]
RecordType ==
  [call : {"none", "execve", "loading", "brk", "crash"}, prog : Programs, exe : Programs, host_exe : Programs,
   new_exe : Programs, info : Programs \cup {NoProg}, skip : {FALSE}, ignore : BOOLEAN, aarch32 : BOOLEAN,
   traced : BOOLEAN, heap : Ids, mm : Ids, arg : Nat, as : (BrkCalls \cup {"none"}) \X Nat,
   late : SUBSET {"load", "kernel"}]

TypePart ==
  /\ tracee \in [Tracees -> RecordType \cup {NoTracee}]
  /\ heaps \in [Ids -> HeapType] /\ mms \in [Ids -> MmType]

(* The record names the program that runs, in the middle of a call as      *)
(* well.  Only the kernel's refusal spoils the word size and the mask, only *)
(* a program that could not be read leaves no load information, and none   *)
(* of it is left when the next execve(2) reaches the kernel.               *)
ProgramOK(r) ==
  /\ r.exe = r.prog /\ r.new_exe = r.host_exe
  /\ "kernel" \notin r.late => /\ r.aarch32 <=> r.prog \in Class32
                               /\ r.call \in {"none", "brk"} /\ r.traced => ~r.ignore
  /\ r.info = NoProg => "load" \in r.late /\ r.call # "execve"
  /\ r.call = "crash" => "load" \in r.late

(* What the heap's record says is so in memory.                            *)
HeapOK(h, m) ==
  /\ h.disabled => h.base = 0
  /\ h.base = 0 => h.size = 0 /\ (~h.disabled => m.brk = 0)
  /\ h.base # 0 => m.len = RoundUp(h.size) + PageSize /\ m.brk = h.base + h.size

(* A brk(2) on its way was translated for the heap as it still is.         *)
BrkOK(r, h) == r.call = "brk" => r.as = <<brk_call(h, r.arg), h.size>>

ProgramPart == \A t \in Live : ProgramOK(tracee[t])
SharePart == \A t, u \in Live : tracee[t].heap = tracee[u].heap <=> tracee[t].mm = tracee[u].mm
HeapPart == \A t \in Live : /\ HeapOK(heaps[tracee[t].heap], mms[tracee[t].mm])
                            /\ BrkOK(tracee[t], heaps[tracee[t].heap])
OnePart == \A t, u \in Live : t # u /\ tracee[t].mm = tracee[u].mm /\ tracee[t].call = "brk"
                                => tracee[u].call # "brk"

Inv == TypePart /\ ProgramPart /\ SharePart /\ HeapPart /\ OnePart /\ BrkLikeLinux

-----------------------------------------------------------------------------
(* The live tracees are those with a record.                               *)
LEMMA LiveIs ==
  ASSUME Inv, NEW t \in Tracees
  PROVE  t \in Live <=> tracee[t] \in RecordType
<1>1. tracee[t] \in RecordType \cup {NoTracee}
  BY DEF Inv, TypePart
<1>2. NoTracee \notin RecordType
  <2> SUFFICES ASSUME NoTracee \in RecordType PROVE FALSE
    OBVIOUS
  <2>1. NoTracee.call \in {"none", "execve", "loading", "brk", "crash"}
    BY DEF RecordType
  <2> QED BY <2>1 DEF NoTracee
<1> QED BY <1>1, <1>2 DEF Live

(* A live tracee has a record, a heap and a memory.                        *)
LEMMA RecordIs ==
  ASSUME Inv, NEW t \in Live
  PROVE  /\ t \in Tracees /\ tracee[t] \in RecordType
         /\ tracee[t].heap \in Ids /\ tracee[t].mm \in Ids
         /\ heaps[tracee[t].heap] \in HeapType /\ mms[tracee[t].mm] \in MmType
<1>1. t \in Tracees
  BY DEF Live
<1>2. tracee[t] \in RecordType
  BY <1>1, LiveIs
<1>3. tracee[t].heap \in Ids /\ tracee[t].mm \in Ids
  BY <1>2 DEF RecordType
<1> QED BY <1>1, <1>2, <1>3 DEF Inv, TypePart

(* Min of a set of numbers.                                                *)
LEMMA MinInSet ==
  ASSUME NEW S \in SUBSET Nat, S # {}
  PROVE  Min(S) \in S /\ \A y \in S : Min(S) =< y
<1> DEFINE Less == {ss \in Nat \X Nat : ss[1] < ss[2]}
<1>1. IsWellFoundedOn(Less, Nat)
  BY NatLessThanWellFounded DEF OpToRel
<1>2. PICK x \in S : \A y \in S : ~(<<y, x>> \in Less)
  <2> HIDE DEF Less
  <2> QED BY <1>1, WFMin
<1>3. \A y \in S : x =< y
  <2> TAKE y \in S
  <2>1. x \in Nat /\ y \in Nat /\ ~(<<y, x>> \in Less)
    BY <1>2
  <2>2. ~(y < x)
    BY <2>1
  <2> QED BY <2>1, <2>2
<1> QED BY <1>3 DEF Min

(* There is an identifier left when a tracee is dead or two share one.     *)
LEMMA FreeIs ==
  ASSUME Usual, NEW f, NEW S \in SUBSET Tracees, S # Tracees,
         {tracee[t][f] : t \in Live} \subseteq {tracee[t][f] : t \in S}
  PROVE  Free(f) \in Ids /\ \A t \in Live : tracee[t][f] # Free(f)
<1> DEFINE used == {tracee[t][f] : t \in Live}
<1>1. IsFiniteSet(Tracees) /\ Cardinality(Tracees) \in Nat
  BY FS_CardinalityType DEF Usual
<1>2. IsFiniteSet(S) /\ Cardinality(S) \in Nat /\ Cardinality(S) < Cardinality(Tracees)
  <2>1. IsFiniteSet(S) /\ Cardinality(S) <= Cardinality(Tracees) /\ Cardinality(S) # Cardinality(Tracees)
    BY <1>1, FS_Subset
  <2>2. Cardinality(S) \in Nat
    BY <2>1, FS_CardinalityType
  <2> QED BY <1>1, <2>1, <2>2
<1>3. IsFiniteSet(Ids) /\ Cardinality(Ids) = Cardinality(Tracees)
  BY <1>1, FS_Interval DEF Ids
<1>4. Ids \ used # {}
  <2> SUFFICES ASSUME Ids \subseteq used PROVE FALSE
    OBVIOUS
  <2> DEFINE g == [i \in Ids |-> CHOOSE t \in S : tracee[t][f] = i]
  <2>1. \A i \in Ids : \E t \in S : tracee[t][f] = i
    OBVIOUS
  <2>2. \A i \in Ids : g[i] \in S /\ tracee[g[i]][f] = i
    BY <2>1
  <2>3. g \in [Ids -> S]
    BY <2>2
  <2> HIDE DEF g
  <2>4. PICK i, j \in Ids : i # j /\ g[i] = g[j]
    BY <1>2, <1>3, <2>3, FS_PigeonHole
  <2> QED BY <2>2, <2>4
<1>5. Ids \ used \in SUBSET Nat
  BY DEF Ids
<1>6. Free(f) \in Ids \ used
  BY <1>4, <1>5, MinInSet DEF Free
<1> QED BY <1>6

-----------------------------------------------------------------------------
(* The tracees after the record of one of them was replaced.               *)
LEMMA LiveAfter ==
  ASSUME Inv, NEW u \in Tracees, NEW r \in RecordType, tracee' = [tracee EXCEPT ![u] = r]
  PROVE  /\ tracee' \in [Tracees -> RecordType \cup {NoTracee}]
         /\ Live' = Live \cup {u} /\ tracee'[u] = r /\ \A v \in Live \ {u} : tracee'[v] = tracee[v]
<1>1. tracee \in [Tracees -> RecordType \cup {NoTracee}]
  BY DEF Inv, TypePart
<1>2. NoTracee \notin RecordType
  <2> SUFFICES ASSUME NoTracee \in RecordType PROVE FALSE
    OBVIOUS
  <2>1. NoTracee.call \in {"none", "execve", "loading", "brk", "crash"}
    BY DEF RecordType
  <2> QED BY <2>1 DEF NoTracee
<1> HIDE DEF RecordType, NoTracee
<1>3. Live \subseteq Tracees
  BY DEF Live
<1>4. tracee'[u] = r /\ \A v \in Tracees \ {u} : tracee'[v] = tracee[v]
  BY <1>1
<1>5. Live' = Live \cup {u}
  BY <1>2, <1>4 DEF Live
<1> QED BY <1>1, <1>3, <1>4, <1>5

(* One record changes and stays with the heap and the memory of a tracee.  *)
LEMMA SameMemory ==
  ASSUME Inv, NEW u \in Tracees, NEW t \in Live, NEW r \in RecordType,
         u \in Live => u = t,
         r.heap = tracee[t].heap, r.mm = tracee[t].mm,
         ProgramOK(r), BrkOK(r, heaps[r.heap]),
         r.call = "brk" => \A v \in Live \ {u} : tracee[v].mm = r.mm => tracee[v].call # "brk",
         tracee' = [tracee EXCEPT ![u] = r], heaps' = heaps, mms' = mms, told' = told
  PROVE  Inv'
<1>1. /\ tracee' \in [Tracees -> RecordType \cup {NoTracee}]
      /\ Live' = Live \cup {u} /\ tracee'[u] = r /\ \A v \in Live \ {u} : tracee'[v] = tracee[v]
  BY LiveAfter
<1> HIDE DEF RecordType
<1>2. TypePart'
  BY <1>1 DEF Inv, TypePart
<1>3. ProgramPart'
  BY <1>1 DEF Inv, ProgramPart, ProgramOK
<1>4. \A v \in Live' : \E w \in Live : /\ tracee'[v].heap = tracee[w].heap /\ tracee'[v].mm = tracee[w].mm
  BY <1>1
<1>5. SharePart'
  BY <1>4 DEF Inv, SharePart
<1>6. HeapPart'
  BY <1>1 DEF Inv, HeapPart, HeapOK, BrkOK, brk_call, RoundUp
<1>7. OnePart'
  BY <1>1 DEF Inv, OnePart
<1>8. BrkLikeLinux'
  BY DEF Inv, BrkLikeLinux
<1> QED BY <1>2, <1>3, <1>5, <1>6, <1>7, <1>8 DEF Inv

(* One record is placed on a heap and a memory that are no other's.        *)
LEMMA OwnMemory ==
  ASSUME Inv, NEW u \in Tracees, NEW r \in RecordType, NEW h \in HeapType, NEW m \in MmType,
         r.heap \in Ids, r.mm \in Ids,
         \A v \in Live \ {u} : tracee[v].heap # r.heap /\ tracee[v].mm # r.mm,
         ProgramOK(r), r.call # "brk", HeapOK(h, m),
         tracee' = [tracee EXCEPT ![u] = r], told' = told,
         heaps' = [heaps EXCEPT ![r.heap] = h], mms' = [mms EXCEPT ![r.mm] = m]
  PROVE  Inv'
<1>1. /\ tracee' \in [Tracees -> RecordType \cup {NoTracee}]
      /\ Live' = Live \cup {u} /\ tracee'[u] = r /\ \A v \in Live \ {u} : tracee'[v] = tracee[v]
  BY LiveAfter
<1>2. \A v \in Live : tracee[v].heap \in Ids /\ tracee[v].mm \in Ids
  BY RecordIs
<1>a. heaps \in [Ids -> HeapType] /\ mms \in [Ids -> MmType]
  BY DEF Inv, TypePart
<1> HIDE DEF RecordType, HeapType, MmType
<1>3. TypePart'
  BY <1>1, <1>a DEF TypePart
<1>4. ProgramPart'
  BY <1>1 DEF Inv, ProgramPart, ProgramOK
<1>5. SharePart'
  BY <1>1 DEF Inv, SharePart
<1>6. heaps'[r.heap] = h /\ mms'[r.mm] = m
  BY <1>a
<1>7. \A v \in Live \ {u} : heaps'[tracee[v].heap] = heaps[tracee[v].heap] /\ mms'[tracee[v].mm] = mms[tracee[v].mm]
  BY <1>a, <1>2
<1>8. HeapPart'
  <2> SUFFICES ASSUME NEW v \in Live'
               PROVE  HeapOK(heaps'[tracee'[v].heap], mms'[tracee'[v].mm]) /\ BrkOK(tracee'[v], heaps'[tracee'[v].heap])
    BY DEF HeapPart, HeapOK, BrkOK, brk_call, RoundUp
  <2>1. CASE v = u
    BY <2>1, <1>1, <1>6 DEF BrkOK
  <2>2. CASE v # u
    BY <2>2, <1>1, <1>7 DEF Inv, HeapPart
  <2> QED BY <2>1, <2>2
<1>9. OnePart'
  BY <1>1 DEF Inv, OnePart
<1>10. BrkLikeLinux'
  BY DEF Inv, BrkLikeLinux
<1> QED BY <1>3, <1>4, <1>5, <1>8, <1>9, <1>10 DEF Inv

(* brk(2) returns to t: no tracee of this memory is in another.            *)
LEMMA ToldOK ==
  ASSUME Inv, NEW t \in Live, tracee[t].call = "brk",
         NEW h \in HeapType, NEW m \in MmType, NEW res \in Nat,
         HeapOK(h, [m EXCEPT !.brk = res]), Told(t, h, m, res), BrkLikeLinux'
  PROVE  Inv'
<1> DEFINE r == [tracee[t] EXCEPT !.call = "none", !.arg = 0, !.as = <<"none", 0>>]
           n == [m EXCEPT !.brk = res]
<1>1. /\ t \in Tracees /\ tracee[t] \in RecordType
      /\ tracee[t].heap \in Ids /\ tracee[t].mm \in Ids
  BY RecordIs
<1>2. r \in RecordType /\ r.heap = tracee[t].heap /\ r.mm = tracee[t].mm /\ r.call = "none"
  BY <1>1 DEF RecordType
<1>3. ProgramOK(r)
  <2>1. ProgramOK(tracee[t])
    BY DEF Inv, ProgramPart
  <2> QED BY <2>1, <1>1 DEF ProgramOK, RecordType
<1>4. n \in MmType
  BY DEF MmType
<1>5. tracee' = [tracee EXCEPT ![t] = r]
  <2>1. tracee \in [Tracees -> RecordType \cup {NoTracee}]
    BY DEF Inv, TypePart
  <2> QED BY <2>1, <1>1 DEF Told
<1>6. heaps' = [heaps EXCEPT ![tracee[t].heap] = h] /\ mms' = [mms EXCEPT ![tracee[t].mm] = n] /\ HeapOK(h, n)
  BY DEF Told
<1> HIDE DEF r, n, RecordType, HeapType, MmType
<1>7. /\ tracee' \in [Tracees -> RecordType \cup {NoTracee}]
      /\ Live' = Live \cup {t} /\ tracee'[t] = r /\ \A v \in Live \ {t} : tracee'[v] = tracee[v]
  BY <1>1, <1>2, <1>5, LiveAfter
<1>8. \A v \in Live : tracee[v].heap \in Ids /\ tracee[v].mm \in Ids
  BY RecordIs
<1>9. heaps \in [Ids -> HeapType] /\ mms \in [Ids -> MmType]
  BY DEF Inv, TypePart
<1>10. \A v \in Live : /\ tracee'[v].heap = tracee[v].heap /\ tracee'[v].mm = tracee[v].mm
                       /\ tracee'[v].call = "brk" => v # t /\ tracee[v].call = "brk"
  BY <1>2, <1>7
<1>11. TypePart'
  BY <1>4, <1>6, <1>7, <1>9, <1>1 DEF TypePart
<1>12. ProgramPart'
  BY <1>3, <1>7 DEF Inv, ProgramPart, ProgramOK
<1>13. SharePart'
  BY <1>7, <1>10 DEF Inv, SharePart
<1>14. HeapPart'
  <2> SUFFICES ASSUME NEW v \in Live
               PROVE  HeapOK(heaps'[tracee'[v].heap], mms'[tracee'[v].mm]) /\ BrkOK(tracee'[v], heaps'[tracee'[v].heap])
    BY <1>7 DEF HeapPart, HeapOK, BrkOK, brk_call, RoundUp
  <2>1. CASE tracee[v].mm = tracee[t].mm
    <3>1. tracee[v].heap = tracee[t].heap
      BY <2>1 DEF Inv, SharePart
    <3>2. heaps'[tracee'[v].heap] = h /\ mms'[tracee'[v].mm] = n
      BY <2>1, <3>1, <1>1, <1>6, <1>9, <1>10
    <3>3. tracee'[v].call # "brk"
      BY <2>1, <1>10 DEF Inv, OnePart
    <3> QED BY <3>2, <3>3, <1>6 DEF BrkOK
  <2>2. CASE tracee[v].mm # tracee[t].mm
    <3>1. tracee[v].heap # tracee[t].heap
      BY <2>2 DEF Inv, SharePart
    <3>2. heaps'[tracee'[v].heap] = heaps[tracee[v].heap] /\ mms'[tracee'[v].mm] = mms[tracee[v].mm]
      BY <2>2, <3>1, <1>1, <1>6, <1>8, <1>9, <1>10
    <3>3. tracee'[v] = tracee[v]
      BY <2>2, <1>7
    <3> QED BY <3>2, <3>3 DEF Inv, HeapPart
  <2> QED BY <2>1, <2>2
<1>15. OnePart'
  BY <1>7, <1>10 DEF Inv, OnePart
<1> QED BY <1>11, <1>12, <1>13, <1>14, <1>15 DEF Inv

(* The end of a tracee.                                                    *)
LEMMA ExitInv ==
  ASSUME Inv, NEW t \in Live, Exit(t)
  PROVE  Inv'
<1>1. tracee \in [Tracees -> RecordType \cup {NoTracee}] /\ Live \subseteq Tracees
  BY DEF Inv, TypePart, Live
<1> HIDE DEF RecordType, NoTracee
<1>2. /\ tracee' \in [Tracees -> RecordType \cup {NoTracee}]
      /\ Live' \subseteq Live /\ \A v \in Live' : tracee'[v] = tracee[v]
  BY <1>1 DEF Exit, Live
<1>3. UNCHANGED <<heaps, mms, told>>
  BY DEF Exit
<1>4. TypePart' /\ ProgramPart'
  BY <1>2, <1>3 DEF Inv, TypePart, ProgramPart, ProgramOK
<1>5. SharePart' /\ OnePart'
  BY <1>2 DEF Inv, SharePart, OnePart
<1>6. HeapPart'
  BY <1>2, <1>3 DEF Inv, HeapPart, HeapOK, BrkOK, brk_call, RoundUp
<1>7. BrkLikeLinux'
  BY <1>3 DEF Inv, BrkLikeLinux
<1> QED BY <1>4, <1>5, <1>6, <1>7 DEF Inv

(* Sizes are rounded up to pages.                                          *)
LEMMA RoundUpIs ==
  ASSUME Usual, NEW n \in Nat
  PROVE  RoundUp(n) \in Nat /\ RoundUp(n) >= n /\ RoundUp(0) = 0
<1>1. PageSize \in Nat /\ PageSize > 0
  BY DEF Usual
<1> DEFINE q == (n + PageSize - 1) \div PageSize
           z == (0 + PageSize - 1) \div PageSize
<1>2. q \in Nat /\ z \in Nat
  BY <1>1
<1>3. n + PageSize - 1 < PageSize * (q + 1) /\ PageSize * q <= n + PageSize - 1
  BY <1>1
<1>4. PageSize * z <= PageSize - 1
  BY <1>1
<1> HIDE DEF q, z
<1>5. PageSize * (q + 1) = q * PageSize + PageSize /\ q * PageSize \in Nat
  BY <1>1, <1>2
<1>6. q * PageSize >= n
  <2> DEFINE e == q * PageSize
  <2>1. e \in Nat /\ n + PageSize - 1 < e + PageSize
    BY <1>3, <1>5
  <2> HIDE DEF e
  <2>2. e >= n
    BY <1>1, <2>1
  <2> QED BY <2>2 DEF e
<1>7. z = 0
  BY <1>1, <1>2, <1>4
<1>8. RoundUp(n) = q * PageSize /\ RoundUp(0) = z * PageSize
  BY DEF RoundUp, q, z
<1> QED BY <1>1, <1>5, <1>6, <1>7, <1>8

-----------------------------------------------------------------------------
(* A tracee that is not in a call, about to make one.                      *)
LEMMA CallerIs ==
  ASSUME Usual, Inv, NEW t \in Live
  PROVE  /\ t \in Tracees /\ tracee[t] \in RecordType /\ ProgramOK(tracee[t])
         /\ tracee \in [Tracees -> RecordType \cup {NoTracee}]
         /\ tracee[t].heap \in Ids /\ tracee[t].mm \in Ids
         /\ heaps \in [Ids -> HeapType] /\ mms \in [Ids -> MmType]
         /\ heaps[tracee[t].heap] \in HeapType /\ mms[tracee[t].mm] \in MmType
         /\ HeapOK(heaps[tracee[t].heap], mms[tracee[t].mm])
         /\ BrkOK(tracee[t], heaps[tracee[t].heap])
  BY RecordIs DEF Inv, TypePart, ProgramPart, HeapPart

(* An identifier that no live tracee has, when one of them is dead.        *)
LEMMA FreeWhenDead ==
  ASSUME Usual, NEW f, NEW u \in Tracees, u \notin Live
  PROVE  Free(f) \in Ids /\ \A t \in Live : tracee[t][f] # Free(f)
<1>1. Live \in SUBSET Tracees /\ Live # Tracees
  BY DEF Live
<1> QED BY <1>1, FreeIs

(* And when two of them share one.                                         *)
LEMMA FreeWhenShared ==
  ASSUME Usual, NEW f, NEW t \in Live, NEW u \in Live \ {t}, tracee[u][f] = tracee[t][f]
  PROVE  Free(f) \in Ids /\ \A v \in Live : tracee[v][f] # Free(f)
<1> DEFINE S == Live \ {t}
<1>1. S \in SUBSET Tracees /\ S # Tracees
  BY DEF Live
<1>2. {tracee[v][f] : v \in Live} \subseteq {tracee[v][f] : v \in S}
  <2> SUFFICES ASSUME NEW v \in Live PROVE \E w \in S : tracee[v][f] = tracee[w][f]
    OBVIOUS
  <2>1. CASE v = t
    BY <2>1
  <2>2. CASE v # t
    BY <2>2
  <2> QED BY <2>1, <2>2
<1> HIDE DEF S
<1> QED BY <1>1, <1>2, FreeIs

(* new_child: the child stays with the parent's memory and heap, or gets a *)
(* copy of both.                                                           *)
LEMMA new_childInv ==
  ASSUME Usual, Inv, NEW t \in Live, NEW u \in Tracees, NEW vm \in BOOLEAN, new_child(t, u, vm)
  PROVE  Inv'
<1> DEFINE mm == IF vm THEN tracee[t].mm ELSE Free("mm")
           heap == IF ~vm THEN Free("heap") ELSE tracee[t].heap
           r == [tracee[t] EXCEPT !.heap = heap, !.mm = mm, !.traced = FALSE, !.ignore = FALSE]
           h == heaps[tracee[t].heap]
           m == mms[tracee[t].mm]
<1>1. u \notin Live /\ tracee[t].call = "none"
  BY DEF new_child, Call
<1>2. /\ tracee' = [tracee EXCEPT ![u] = r] /\ told' = told
      /\ heaps' = [heaps EXCEPT ![heap] = h] /\ mms' = [mms EXCEPT ![mm] = m]
  BY DEF new_child, HeapIsCopied
<1>3. /\ tracee[t] \in RecordType /\ ProgramOK(tracee[t])
      /\ tracee[t].heap \in Ids /\ tracee[t].mm \in Ids
      /\ heaps \in [Ids -> HeapType] /\ mms \in [Ids -> MmType]
      /\ h \in HeapType /\ m \in MmType /\ HeapOK(h, m)
  BY CallerIs
<1>4. mm \in Ids /\ heap \in Ids
  BY <1>1, <1>3, FreeWhenDead
<1> HIDE DEF mm, heap, h, m
<1>5. r \in RecordType /\ r.heap = heap /\ r.mm = mm /\ r.call = "none"
  BY <1>1, <1>3, <1>4 DEF RecordType
<1>6. ProgramOK(r)
  BY <1>3 DEF ProgramOK, RecordType
<1> HIDE DEF r
<1>7. CASE vm
  <2>1. heap = tracee[t].heap /\ mm = tracee[t].mm
    BY <1>7 DEF heap, mm
  <2>2. heaps' = heaps /\ mms' = mms
    <3> HIDE DEF HeapType, MmType
    <3> QED BY <1>2, <1>3, <2>1 DEF h, m
  <2>3. BrkOK(r, heaps[r.heap])
    BY <1>5 DEF BrkOK
  <2> QED BY <1>1, <1>2, <1>5, <1>6, <2>1, <2>2, <2>3, SameMemory
<1>8. CASE ~vm
  <2>1. heap = Free("heap") /\ mm = Free("mm")
    BY <1>8 DEF heap, mm
  <2>2. /\ \A v \in Live : tracee[v]["heap"] # Free("heap")
        /\ \A v \in Live : tracee[v]["mm"] # Free("mm")
    BY <1>1, FreeWhenDead
  <2>3. \A v \in Live \ {u} : tracee[v].heap # r.heap /\ tracee[v].mm # r.mm
    BY <1>5, <2>1, <2>2
  <2>4. heaps' = [heaps EXCEPT ![r.heap] = h] /\ mms' = [mms EXCEPT ![r.mm] = m]
    BY <1>2, <1>5
  <2>5. r.heap \in Ids /\ r.mm \in Ids /\ r.call # "brk"
    BY <1>4, <1>5
  <2>6. tracee' = [tracee EXCEPT ![u] = r] /\ told' = told /\ r \in RecordType /\ h \in HeapType /\ m \in MmType /\ HeapOK(h, m)
    BY <1>2, <1>3, <1>5
  <2> HIDE DEF RecordType, HeapType, MmType, HeapOK
  <2> QED BY <1>6, <2>3, <2>4, <2>5, <2>6, OwnMemory
<1> QED BY <1>7, <1>8

(* What the enter stage writes to the record.                              *)
LEMMA PreparedIs ==
  ASSUME Usual, NEW r \in RecordType, NEW p \in Programs
  PROVE  /\ ~IsForeign(p)
         /\ Prepared(r, p) = [r EXCEPT !.host_exe = p, !.new_exe = p, !.skip = FALSE, !.info = p]
<1>1. IsForeign(p) = FALSE
  BY DEF Usual, IsForeign
<1>2. (IF IsForeign(p) THEN NoProg ELSE p) = p
  BY <1>1
<1> QED BY <1>1, <1>2, Zenon DEF Prepared, Renamed

(* execve(2) is entered: the record is as it was, or names the program that *)
(* was asked for, whether that is refused afterwards or not.               *)
LEMMA translate_execve_enterInv ==
  ASSUME Usual, Inv, NEW t \in Live, NEW p \in Programs, NEW o \in Outcomes, translate_execve_enter(t, p, o)
  PROVE  Inv'
<1> DEFINE new == [tracee[t] EXCEPT !.host_exe = p, !.new_exe = p, !.skip = FALSE, !.info = p]
           bare == [new EXCEPT !.info = NoProg, !.late = new.late \cup {"load"}]
           full == [new EXCEPT !.call = "execve", !.ignore = TRUE]
<1>1. Quirks = {} /\ p # NoProg
  BY DEF Usual
<1>2. /\ t \in Tracees /\ tracee[t] \in RecordType /\ ProgramOK(tracee[t])
      /\ BrkOK(tracee[t], heaps[tracee[t].heap])
  BY CallerIs
<1>3. IsForeign(p) = FALSE /\ Prepared(tracee[t], p) = new
  <2>1. IsForeign(p) = FALSE
    BY <1>1 DEF IsForeign
  <2>2. Prepared(tracee[t], p) = new
    <3>1. tracee[t] \in RecordType /\ p \in Programs
      BY <1>2
    <3> HIDE DEF RecordType
    <3> QED BY <3>1, PreparedIs, Zenon
  <2> QED BY <2>1, <2>2
<1>4. tracee[t].call = "none" /\ heaps' = heaps /\ mms' = mms /\ told' = told
  BY <1>3 DEF translate_execve_enter, Call
<1>5. PICK r : /\ tracee' = [tracee EXCEPT ![t] = r]
               /\ r \in {tracee[t], new, bare, full}
  <2>1. CASE o = "path"
    BY <2>1 DEF translate_execve_enter
  <2>2. CASE o = "load"
    BY <1>3, <2>2 DEF translate_execve_enter
  <2>3. CASE o = "interp"
    BY <1>3, <2>3 DEF translate_execve_enter
  <2>4. CASE o = "ok"
    <3>1. (new.ignore \/ ~IsForeign(p)) = TRUE
      BY <1>3
    <3>2. tracee' = [tracee EXCEPT ![t] = [new EXCEPT !.call = "execve", !.ignore = new.ignore \/ ~IsForeign(p)]]
      BY <1>3, <2>4 DEF translate_execve_enter
    <3> HIDE DEF new
    <3>3. tracee' = [tracee EXCEPT ![t] = full]
      BY <3>1, <3>2, Zenon
    <3> QED BY <3>3
  <2> QED BY <2>1, <2>2, <2>3, <2>4 DEF Outcomes
<1>6. /\ new \in RecordType /\ new.heap = tracee[t].heap /\ new.mm = tracee[t].mm /\ new.call = "none"
      /\ bare \in RecordType /\ bare.heap = tracee[t].heap /\ bare.mm = tracee[t].mm /\ bare.call = "none"
      /\ full \in RecordType /\ full.heap = tracee[t].heap /\ full.mm = tracee[t].mm /\ full.call = "execve"
  BY <1>2, <1>4 DEF RecordType
<1>7. ProgramOK(new) /\ ProgramOK(bare) /\ ProgramOK(full)
  BY <1>1, <1>2, <1>4 DEF ProgramOK, RecordType
<1> HIDE DEF new, bare, full
<1>8. /\ r \in RecordType /\ r.heap = tracee[t].heap /\ r.mm = tracee[t].mm /\ r.call # "brk"
      /\ ProgramOK(r)
  BY <1>2, <1>4, <1>5, <1>6, <1>7
<1>9. BrkOK(r, heaps[r.heap])
  BY <1>8 DEF BrkOK
<1> QED BY <1>2, <1>4, <1>5, <1>8, <1>9, SameMemory

(* The kernel refuses execve(2): the names are those of before it.         *)
LEMMA RefusedInv ==
  ASSUME Usual, Inv, NEW t \in Live, tracee[t].call = "execve", Refused(t), told' = told
  PROVE  Inv'
<1>0. PICK wide \in BOOLEAN : wide = WordSize(tracee[t])
  <2>1. tracee[t].skip = FALSE
    BY RecordIs DEF RecordType
  <2>2. (tracee[t].info \in Class32) \in BOOLEAN
    OBVIOUS
  <2> QED BY <2>1, <2>2 DEF WordSize
<1> DEFINE r == [tracee[t] EXCEPT !.call = "none", !.late = tracee[t].late \cup {"kernel"}, !.aarch32 = wide]
<1>1. t \in Tracees /\ tracee[t] \in RecordType /\ ProgramOK(tracee[t])
  BY CallerIs
<1>2. tracee' = [tracee EXCEPT ![t] = r] /\ heaps' = heaps /\ mms' = mms
  <2>1. tracee' = [tracee EXCEPT ![t] = [tracee[t] EXCEPT !.call = "none", !.late = tracee[t].late \cup {"kernel"},
                                                          !.aarch32 = WordSize(tracee[t])]]
    BY Zenon DEF Refused
  <2>2. heaps' = heaps /\ mms' = mms
    BY DEF Refused
  <2> QED BY <1>0, <2>1, <2>2, Zenon
<1>4. r \in RecordType /\ r.heap = tracee[t].heap /\ r.mm = tracee[t].mm /\ r.call = "none"
  BY <1>1 DEF RecordType
<1>5. ProgramOK(r)
  BY <1>1 DEF ProgramOK, RecordType
<1> HIDE DEF r
<1>6. BrkOK(r, heaps[r.heap])
  BY <1>4 DEF BrkOK
<1> QED BY <1>1, <1>2, <1>4, <1>5, <1>6, SameMemory

(* execve(2) returns: the record is the new program's, on a memory and a   *)
(* heap of its own.                                                        *)
LEMMA CommittedInv ==
  ASSUME Usual, Inv, NEW t \in Live, tracee[t].call = "execve", Committed(t), told' = told
  PROVE  Inv'
<1> DEFINE heap == HeapAfter(t)
           mm == IF SharesMm(t) # {} THEN Free("mm") ELSE tracee[t].mm
           p == tracee[t].host_exe
           call == IF tracee[t].traced THEN "loading" ELSE "none"
           wide == p \in Class32
           r == [tracee[t] EXCEPT !.call = call, !.prog = p,
                                  !.exe = tracee[t].new_exe, !.heap = heap, !.mm = mm, !.aarch32 = wide, !.late = {}]
<1>1. /\ t \in Tracees /\ tracee[t] \in RecordType /\ ProgramOK(tracee[t])
      /\ tracee \in [Tracees -> RecordType \cup {NoTracee}]
      /\ tracee[t].heap \in Ids /\ tracee[t].mm \in Ids
  BY CallerIs
<1>2. tracee[t].info # NoProg /\ tracee[t].host_exe \in Programs
  BY <1>1 DEF ProgramOK, RecordType
<1>3. /\ tracee' = [tracee EXCEPT ![t] = r]
      /\ heaps' = [heaps EXCEPT ![heap] = NewHeap] /\ mms' = [mms EXCEPT ![mm] = NewMm]
  BY DEF Committed
<1>4. heap \in Ids /\ \A v \in Live \ {t} : tracee[v].heap # heap
  <2>1. CASE SharesHeap(t) # {}
    <3>1. PICK u \in Live \ {t} : tracee[u]["heap"] = tracee[t]["heap"]
      BY <2>1 DEF SharesHeap
    <3>2. Free("heap") \in Ids /\ \A v \in Live : tracee[v]["heap"] # Free("heap")
      BY <3>1, FreeWhenShared
    <3> QED BY <2>1, <3>2 DEF HeapAfter
  <2>2. CASE SharesHeap(t) = {}
    BY <2>2, <1>1 DEF HeapAfter, SharesHeap
  <2> QED BY <2>1, <2>2
<1>5. mm \in Ids /\ \A v \in Live \ {t} : tracee[v].mm # mm
  <2>1. CASE SharesMm(t) # {}
    <3>1. PICK u \in Live \ {t} : tracee[u]["mm"] = tracee[t]["mm"]
      BY <2>1 DEF SharesMm
    <3>2. Free("mm") \in Ids /\ \A v \in Live : tracee[v]["mm"] # Free("mm")
      BY <3>1, FreeWhenShared
    <3> QED BY <2>1, <3>2
  <2>2. CASE SharesMm(t) = {}
    BY <2>2, <1>1 DEF SharesMm
  <2> QED BY <2>1, <2>2
<1>a. call \in {"loading", "none"} /\ (call = "none" => ~tracee[t].traced) /\ wide \in BOOLEAN /\ (wide <=> p \in Class32)
  OBVIOUS
<1> HIDE DEF heap, mm, call, wide
<1>6. r \in RecordType /\ r.heap = heap /\ r.mm = mm /\ r.call # "brk"
  BY <1>1, <1>4, <1>5, <1>a DEF RecordType
<1>7. ProgramOK(r)
  BY <1>1, <1>2, <1>a DEF ProgramOK, RecordType
<1> HIDE DEF r
<1>8. NewHeap \in HeapType /\ NewMm \in MmType /\ HeapOK(NewHeap, NewMm)
  BY DEF NewHeap, NewMm, HeapType, MmType, HeapOK
<1>9. heaps' = [heaps EXCEPT ![r.heap] = NewHeap] /\ mms' = [mms EXCEPT ![r.mm] = NewMm]
  BY <1>3, <1>6
<1>10. \A v \in Live \ {t} : tracee[v].heap # r.heap /\ tracee[v].mm # r.mm
  BY <1>4, <1>5, <1>6
<1>11. r.heap \in Ids /\ r.mm \in Ids /\ told' = told /\ tracee' = [tracee EXCEPT ![t] = r]
  BY <1>3, <1>4, <1>5, <1>6
<1> HIDE DEF RecordType, HeapType, MmType, HeapOK
<1> QED BY <1>1, <1>6, <1>7, <1>8, <1>9, <1>10, <1>11, OwnMemory

LEMMA translate_execve_exitInv ==
  ASSUME Usual, Inv, NEW t \in Live, translate_execve_exit(t)
  PROVE  Inv'
<1>1. tracee[t].skip = FALSE
  BY RecordIs DEF RecordType
<1>2. tracee[t].call = "execve" /\ told' = told /\ (Refused(t) \/ Committed(t))
  BY <1>1 DEF translate_execve_exit
<1> QED BY <1>2, RefusedInv, CommittedInv

(* The loader is done, the calls are no longer masked.                     *)
LEMMA LoadDoneInv ==
  ASSUME Usual, Inv, NEW t \in Live, LoadDone(t)
  PROVE  Inv'
<1> DEFINE r == [tracee[t] EXCEPT !.call = "none", !.ignore = FALSE]
<1>1. t \in Tracees /\ tracee[t] \in RecordType /\ ProgramOK(tracee[t])
  BY CallerIs
<1>2. tracee' = [tracee EXCEPT ![t] = r] /\ heaps' = heaps /\ mms' = mms /\ told' = told
  BY DEF LoadDone
<1>3. r \in RecordType /\ r.heap = tracee[t].heap /\ r.mm = tracee[t].mm /\ r.call = "none"
  BY <1>1 DEF RecordType
<1>4. ProgramOK(r)
  BY <1>1 DEF ProgramOK, RecordType
<1> HIDE DEF r
<1>5. BrkOK(r, heaps[r.heap])
  BY <1>3 DEF BrkOK
<1> QED BY <1>1, <1>2, <1>3, <1>4, <1>5, SameMemory

(* The tracee gets a ptracer, in the middle of a call as well.             *)
LEMMA AttachInv ==
  ASSUME Usual, Inv, NEW t \in Live, Attach(t)
  PROVE  Inv'
<1> DEFINE r == [tracee[t] EXCEPT !.traced = TRUE, !.ignore = FALSE]
<1>1. /\ t \in Tracees /\ tracee[t] \in RecordType /\ ProgramOK(tracee[t])
      /\ BrkOK(tracee[t], heaps[tracee[t].heap])
  BY CallerIs
<1>2. tracee' = [tracee EXCEPT ![t] = r] /\ heaps' = heaps /\ mms' = mms /\ told' = told
  BY DEF Attach
<1>3. /\ r \in RecordType /\ r.heap = tracee[t].heap /\ r.mm = tracee[t].mm
      /\ r.call = tracee[t].call /\ r.as = tracee[t].as /\ r.arg = tracee[t].arg
  BY <1>1 DEF RecordType
<1>4. ProgramOK(r)
  BY <1>1 DEF ProgramOK, RecordType
<1> HIDE DEF r
<1>5. BrkOK(r, heaps[r.heap])
  BY <1>1, <1>3 DEF BrkOK
<1>6. r.call = "brk" => \A v \in Live \ {t} : tracee[v].mm = r.mm => tracee[v].call # "brk"
  BY <1>3 DEF Inv, OnePart
<1> QED BY <1>1, <1>2, <1>3, <1>4, <1>5, <1>6, SameMemory

(* brk(2) is entered, by one tracee of a memory at a time.                 *)
LEMMA translate_brk_enterInv ==
  ASSUME Usual, Inv, NEW t \in Live, NEW a \in Breaks, translate_brk_enter(t, a)
  PROVE  Inv'
<1> DEFINE h == heaps[tracee[t].heap]
           as == brk_call(h, a)
           pair == <<as, h.size>>
           call == IF as = "mmap" /\ tracee[t].info = NoProg THEN "crash" ELSE "brk"
           r == [tracee[t] EXCEPT !.call = call, !.arg = a, !.as = pair]
<1>1. t \in Tracees /\ tracee[t] \in RecordType /\ ProgramOK(tracee[t]) /\ h \in HeapType
  BY CallerIs
<1>2. /\ tracee' = [tracee EXCEPT ![t] = r] /\ heaps' = heaps /\ mms' = mms /\ told' = told
      /\ tracee[t].call = "none" /\ a \in Nat
      /\ \A u \in SharesMm(t) : tracee[u].call # "brk"
  BY DEF translate_brk_enter, Call, Usual
<1>3. call = "brk" \/ (call = "crash" /\ "load" \in tracee[t].late)
  <2>1. tracee[t].info = NoProg => "load" \in tracee[t].late
    BY <1>1 DEF ProgramOK
  <2> QED BY <2>1
<1>4. pair \in (BrkCalls \cup {"none"}) \X Nat
  BY <1>1 DEF HeapType, brk_call, BrkCalls
<1>a. pair = <<brk_call(h, a), h.size>>
  OBVIOUS
<1> HIDE DEF call, pair, as, h
<1>5. r \in RecordType /\ r.heap = tracee[t].heap /\ r.mm = tracee[t].mm /\ r.call = call /\ r.arg = a /\ r.as = pair
  BY <1>1, <1>2, <1>3, <1>4 DEF RecordType
<1>6. ProgramOK(r)
  BY <1>1, <1>2, <1>3 DEF ProgramOK, RecordType
<1> HIDE DEF r
<1>7. BrkOK(r, heaps[r.heap])
  BY <1>5, <1>a DEF BrkOK, h
<1>8. \A v \in Live \ {t} : tracee[v].mm = r.mm => tracee[v].call # "brk"
  BY <1>2, <1>5 DEF SharesMm
<1> QED BY <1>1, <1>2, <1>5, <1>6, <1>7, <1>8, SameMemory

-----------------------------------------------------------------------------
(* What a resized mapping is left with: all of what was asked, or as much  *)
(* as there was.                                                           *)
LEMMA mremapIs ==
  ASSUME NEW len \in Nat, NEW m \in MmType, m.len = len, len > 0, NEW new \in Nat, NEW room \in BOOLEAN,
         mremap(m, len, new, room).ok
  PROVE  mremap(m, len, new, room).len = new
  BY DEF mremap

(* What brk(2) tells, by the arguments of Told.                            *)
LEMMA ToldLikeLinux ==
  ASSUME Usual, NEW t, NEW h, NEW m, NEW res, Told(t, h, m, res),
         \/ mms[tracee[t].mm].brk = 0
         \/ res = mms[tracee[t].mm].brk
         \/ res = tracee[t].arg /\ (h.base > 0 => /\ tracee[t].arg >= h.base
                                                 /\ tracee[t].arg - h.base + PageSize <= m.len)
  PROVE  BrkLikeLinux'
  BY DEF Told, BrkLikeLinux

(* brk(2) returns: one case per call that was made instead.                *)
LEMMA BrkDoneInv ==
  ASSUME Usual, Inv, NEW t \in Live, NEW as \in BrkCalls, NEW room \in BOOLEAN, BrkDone(t, as, room)
  PROVE  Inv'
<1> DEFINE h == heaps[tracee[t].heap]
           m == mms[tracee[t].mm]
           arg == tracee[t].arg
           new == arg - h.base
           old == RoundUp(tracee[t].as[2]) + PageSize
           want == RoundUp(new) + PageSize
           r == mremap(m, old, want, room)
<1>1. /\ t \in Tracees /\ tracee[t] \in RecordType /\ h \in HeapType /\ m \in MmType
      /\ HeapOK(h, m) /\ BrkOK(tracee[t], h)
  BY CallerIs
<1>2. /\ tracee[t].call = "brk" /\ tracee[t].as[1] = as
      /\ \/ as = "void" /\ Told(t, h, m, h.base + h.size)
         \/ as = "mmap" /\ ~room /\ Told(t, h, m, 0)
         \/ as = "mmap" /\ room
            /\ Told(t, [h EXCEPT !.base = Base + PageSize, !.size = 0], [m EXCEPT !.len = PageSize], Base + PageSize)
         \/ as = "mremap" /\ r.ok /\ Told(t, [h EXCEPT !.size = new], [m EXCEPT !.len = r.len], h.base + new)
         \/ as = "mremap" /\ ~r.ok /\ Told(t, h, m, h.base + h.size)
         \/ as = "brk" /\ Told(t, IF ~h.disabled /\ room THEN [h EXCEPT !.disabled = TRUE] ELSE h,
                               m, IF room THEN arg ELSE m.brk)
  BY DEF BrkDone
<1>3. arg \in Nat /\ h.base \in Nat /\ h.size \in Nat /\ m.brk \in Nat /\ m.len \in Nat /\ h.disabled \in BOOLEAN
  BY <1>1 DEF RecordType, HeapType, MmType
<1>4. PageSize \in Nat /\ PageSize > 0
  BY DEF Usual
<1>5. as = brk_call(h, arg) /\ tracee[t].as[2] = h.size
  <2>1. tracee[t].as = <<brk_call(h, arg), h.size>>
    BY <1>1, <1>2 DEF BrkOK
  <2> HIDE DEF h, arg
  <2> QED BY <2>1, <1>2
<1>6. m = mms[tracee[t].mm] /\ arg = tracee[t].arg
  OBVIOUS
<1> HIDE DEF h, m, arg, new, old, want, r
(* The heap and the memory stay, the break that is told is the old one.    *)
<1>7. ASSUME NEW res, Told(t, h, m, res), res = m.brk
      PROVE  Inv'
  <2>1. BrkLikeLinux'
    BY <1>6, <1>7, ToldLikeLinux
  <2>2. [m EXCEPT !.brk = res] = m
    BY <1>1, <1>7 DEF MmType
  <2> QED BY <1>1, <1>2, <1>3, <1>7, <2>1, <2>2, ToldOK
<1>8. CASE as = "void"
  <2>1. h.base # 0
    BY <1>5, <1>8, <1>3 DEF brk_call
  <2>2. h.base + h.size = m.brk
    BY <1>1, <2>1 DEF HeapOK
  <2> QED BY <1>2, <1>8, <1>7, <2>2
<1>9. CASE as = "mmap"
  <2>1. h.base = 0 /\ ~h.disabled /\ m.brk = 0
    BY <1>1, <1>5, <1>9, <1>3 DEF brk_call, HeapOK
  <2>2. CASE ~room
    <3>1. Told(t, h, m, 0)
      BY <1>2, <1>9, <2>2
    <3> QED BY <1>7, <2>1, <3>1
  <2>3. CASE room
    <3> DEFINE b == Base + PageSize
               g == [h EXCEPT !.base = b, !.size = 0]
               n == [m EXCEPT !.len = PageSize]
    <3>1. Told(t, g, n, b)
      BY <1>2, <1>9, <2>3
    <3>2. b \in Nat /\ b # 0
      BY <1>4 DEF Base
    <3> HIDE DEF b
    <3>3. g \in HeapType /\ g.base = b /\ g.size = 0 /\ g.disabled = FALSE
      BY <1>1, <2>1, <3>2 DEF HeapType
    <3>4. n \in MmType /\ [n EXCEPT !.brk = b] = [len |-> PageSize, brk |-> b]
      <4>1. n = [len |-> PageSize, brk |-> m.brk]
        BY <1>1 DEF MmType
      <4> HIDE DEF n
      <4> QED BY <4>1, <1>3, <1>4, <3>2 DEF MmType
    <3>5. RoundUp(0) = 0
      BY RoundUpIs
    <3>6. HeapOK(g, [len |-> PageSize, brk |-> b])
      BY <1>4, <3>2, <3>3, <3>5 DEF HeapOK
    <3> HIDE DEF g, n
    <3>7. BrkLikeLinux'
      BY <1>6, <2>1, <3>1, ToldLikeLinux
    <3>8. HeapOK(g, [n EXCEPT !.brk = b])
      BY <3>4, <3>6
    <3> HIDE DEF HeapOK
    <3> QED BY <1>2, <3>1, <3>2, <3>3, <3>4, <3>7, <3>8, ToldOK
  <2> QED BY <2>2, <2>3
<1>10. CASE as = "mremap"
  <2>1. h.base # 0 /\ arg >= h.base /\ ~h.disabled
    BY <1>5, <1>10, <1>3 DEF brk_call
  <2>2. m.len = RoundUp(h.size) + PageSize /\ m.brk = h.base + h.size
    BY <1>1, <2>1 DEF HeapOK
  <2>3. CASE ~r.ok
    <3>1. Told(t, h, m, h.base + h.size)
      BY <1>2, <1>10, <2>3
    <3> QED BY <1>7, <2>2, <3>1
  <2>4. CASE r.ok
    <3> DEFINE g == [h EXCEPT !.size = new]
               n == [m EXCEPT !.len = r.len]
               b == h.base + new
    <3>1. Told(t, g, n, b)
      BY <1>2, <1>10, <2>4
    <3>2. new \in Nat /\ b = arg /\ arg - h.base = new
      BY <1>3, <2>1 DEF new
    <3>3. /\ RoundUp(h.size) \in Nat /\ RoundUp(new) \in Nat /\ RoundUp(new) >= new
      BY <1>3, <3>2, RoundUpIs
    <3>4. old = m.len /\ m.len > 0 /\ want \in Nat
      BY <1>4, <1>5, <2>2, <3>3 DEF old, want
    <3>5. r.len = want
      <4>1. mremap(m, m.len, want, room).ok /\ r = mremap(m, m.len, want, room)
        BY <2>4, <3>4 DEF r
      <4> QED BY <1>1, <1>3, <3>4, <4>1, mremapIs
    <3> HIDE DEF b
    <3>6. g \in HeapType /\ g.base = h.base /\ g.size = new /\ g.disabled = h.disabled
      BY <1>1, <3>2 DEF HeapType
    <3>7. n \in MmType /\ n.len = want /\ [n EXCEPT !.brk = b] = [len |-> want, brk |-> b] /\ b \in Nat
      <4>1. n = [len |-> want, brk |-> m.brk]
        BY <1>1, <3>5 DEF MmType
      <4>2. b \in Nat
        BY <1>3, <3>2
      <4> HIDE DEF n
      <4> QED BY <4>1, <4>2, <1>3, <3>4 DEF MmType
    <3>8. b = h.base + new
      BY DEF b
    <3>9. HeapOK(g, [len |-> want, brk |-> b])
      BY <2>1, <3>6, <3>8 DEF HeapOK, want
    <3> HIDE DEF g, n
    <3>10. arg - h.base + PageSize <= want
      <4> DEFINE e == RoundUp(new)
      <4>1. e \in Nat /\ e >= new /\ want = e + PageSize
        BY <3>3 DEF want
      <4> HIDE DEF e
      <4> QED BY <1>4, <3>2, <4>1
    <3>11. BrkLikeLinux'
      <4>1. b = tracee[t].arg /\ tracee[t].arg >= g.base /\ tracee[t].arg - g.base + PageSize <= n.len
        BY <1>6, <2>1, <3>2, <3>6, <3>7, <3>10
      <4> QED BY <3>1, <4>1, ToldLikeLinux
    <3>12. HeapOK(g, [n EXCEPT !.brk = b])
      BY <3>7, <3>9
    <3> HIDE DEF HeapOK
    <3> QED BY <1>2, <3>1, <3>6, <3>7, <3>11, <3>12, ToldOK
  <2> QED BY <2>3, <2>4
<1>11. CASE as = "brk"
  <2> DEFINE g == IF ~h.disabled /\ room THEN [h EXCEPT !.disabled = TRUE] ELSE h
             b == IF room THEN arg ELSE m.brk
  <2>1. Told(t, g, m, b)
    BY <1>2, <1>11
  <2>2. h.base = 0 /\ h.size = 0
    BY <1>1, <1>5, <1>11, <1>3 DEF brk_call, HeapOK
  <2>3. g \in HeapType /\ g.base = 0 /\ g.size = 0
    BY <1>1, <2>2 DEF HeapType
  <2>4. ~g.disabled => b = m.brk /\ m.brk = 0
    <3>1. CASE room /\ ~h.disabled
      BY <3>1, <1>1 DEF HeapType
    <3>2. CASE ~room \/ h.disabled
      BY <3>2, <1>1, <2>2 DEF HeapOK
    <3> QED BY <3>1, <3>2
  <2>5. b \in Nat /\ (b = arg \/ b = m.brk)
    BY <1>3
  <2> HIDE DEF g, b
  <2>6. [m EXCEPT !.brk = b] = [len |-> m.len, brk |-> b]
    BY <1>1 DEF MmType
  <2>7. HeapOK(g, [len |-> m.len, brk |-> b])
    BY <2>3, <2>4 DEF HeapOK
  <2>8. BrkLikeLinux'
    BY <1>6, <2>1, <2>3, <2>5, ToldLikeLinux
  <2>9. HeapOK(g, [m EXCEPT !.brk = b])
    BY <2>6, <2>7
  <2> HIDE DEF HeapOK
  <2> QED BY <1>1, <1>2, <2>1, <2>3, <2>5, <2>8, <2>9, ToldOK
<1> QED BY <1>8, <1>9, <1>10, <1>11 DEF BrkCalls

-----------------------------------------------------------------------------
(* The first tracee runs its program.                                      *)
LEMMA InitInv == Usual /\ Init => Inv
<1> SUFFICES ASSUME Usual, Init PROVE Inv
  OBVIOUS
<1>1. PICK t \in Tracees, p \in Programs \ Foreign, traced \in BOOLEAN :
        tracee = [u \in Tracees |-> IF u = t THEN [Runs(p) EXCEPT !.traced = traced] ELSE NoTracee]
  BY DEF Init
<1> DEFINE r == [Runs(p) EXCEPT !.traced = traced]
           wide == p \in Class32
<1>2. 1 \in Ids
  <2>1. IsFiniteSet(Tracees) /\ Cardinality(Tracees) \in Nat
    BY FS_CardinalityType DEF Usual
  <2>2. Cardinality(Tracees) # 0
    BY <1>1, <2>1, FS_EmptySet
  <2> QED BY <2>1, <2>2 DEF Ids
<1>3. Runs(p) = [call |-> "none", prog |-> p, exe |-> p, host_exe |-> p, new_exe |-> p, info |-> p, skip |-> FALSE,
                 ignore |-> FALSE, aarch32 |-> wide, traced |-> FALSE, heap |-> 1, mm |-> 1, arg |-> 0, as |-> <<"none", 0>>,
                 late |-> {}]
  BY DEF Runs
<1>4. wide \in BOOLEAN /\ (wide <=> p \in Class32)
  OBVIOUS
<1> HIDE DEF wide
<1>b. p # NoProg
  BY DEF Usual
<1>5. Runs(p) \in RecordType /\ ProgramOK(Runs(p)) /\ Runs(p).ignore = FALSE
      /\ Runs(p).call = "none" /\ Runs(p).heap = 1 /\ Runs(p).mm = 1
  BY <1>2, <1>3, <1>4, <1>b DEF RecordType, ProgramOK
<1>6. r \in RecordType
  BY <1>5 DEF RecordType
<1>7. r.call = "none" /\ r.heap = 1 /\ r.mm = 1 /\ ProgramOK(r)
  BY <1>5 DEF ProgramOK, RecordType
<1> HIDE DEF r
<1>8. tracee = [u \in Tracees |-> IF u = t THEN r ELSE NoTracee]
  BY <1>1 DEF r
<1> HIDE DEF RecordType
<1>9. \A u \in Live : tracee[u] = r /\ u = t
  BY <1>8 DEF Live
<1>10. NewHeap \in HeapType /\ NewMm \in MmType /\ HeapOK(NewHeap, NewMm)
  BY DEF NewHeap, NewMm, HeapType, MmType, HeapOK
<1>11. heaps = [i \in Ids |-> NewHeap] /\ mms = [i \in Ids |-> NewMm] /\ told = NothingTold
  BY DEF Init
<1> HIDE DEF HeapType, MmType, HeapOK, NewHeap, NewMm
<1>12. TypePart
  BY <1>6, <1>8, <1>10, <1>11 DEF TypePart
<1>13. ProgramPart /\ SharePart /\ OnePart
  BY <1>7, <1>9 DEF ProgramPart, SharePart, OnePart
<1>14. HeapPart
  BY <1>2, <1>7, <1>9, <1>10, <1>11 DEF HeapPart, BrkOK
<1>15. BrkLikeLinux
  BY <1>11 DEF BrkLikeLinux, NothingTold
<1> QED BY <1>12, <1>13, <1>14, <1>15 DEF Inv

(* A step that changes nothing.                                            *)
LEMMA StutterInv ==
  ASSUME Inv, UNCHANGED vars
  PROVE  Inv'
<1>1. UNCHANGED <<tracee, heaps, mms, told>> /\ Live' = Live
  BY DEF vars, Live
<1>2. TypePart' /\ ProgramPart'
  BY <1>1 DEF Inv, TypePart, ProgramPart
<1>3. SharePart' /\ HeapPart' /\ OnePart'
  BY <1>1 DEF Inv, SharePart, HeapPart, OnePart
<1>4. BrkLikeLinux'
  BY <1>1 DEF Inv, BrkLikeLinux
<1> QED BY <1>2, <1>3, <1>4 DEF Inv

(* Every step preserves the invariant.                                     *)
LEMMA NextInv ==
  ASSUME Usual, Inv, [Next]_vars
  PROVE  Inv'
<1>1. CASE UNCHANGED vars
  BY <1>1, StutterInv
<1>2. CASE Next
  <2>1. PICK t \in Live :
          \/ \E u \in Tracees, vm \in BOOLEAN : new_child(t, u, vm)
          \/ \E p \in Programs, o \in Outcomes : translate_execve_enter(t, p, o)
          \/ translate_execve_exit(t) \/ LoadDone(t) \/ Attach(t) \/ Exit(t)
          \/ \E a \in Breaks : translate_brk_enter(t, a)
          \/ \E as \in BrkCalls, room \in BOOLEAN : BrkDone(t, as, room)
    BY <1>2 DEF Next
  <2>2. CASE \E u \in Tracees, vm \in BOOLEAN : new_child(t, u, vm)
    BY <2>2, new_childInv
  <2>3. CASE \E p \in Programs, o \in Outcomes : translate_execve_enter(t, p, o)
    BY <2>3, translate_execve_enterInv
  <2>4. CASE translate_execve_exit(t)
    BY <2>4, translate_execve_exitInv
  <2>5. CASE LoadDone(t)
    BY <2>5, LoadDoneInv
  <2>6. CASE Attach(t)
    BY <2>6, AttachInv
  <2>7. CASE Exit(t)
    BY <2>7, ExitInv
  <2>8. CASE \E a \in Breaks : translate_brk_enter(t, a)
    BY <2>8, translate_brk_enterInv
  <2>9. CASE \E as \in BrkCalls, room \in BOOLEAN : BrkDone(t, as, room)
    BY <2>9, BrkDoneInv
  <2> QED BY <2>1, <2>2, <2>3, <2>4, <2>5, <2>6, <2>7, <2>8, <2>9
<1> QED BY <1>1, <1>2

(* What the invariant says of a tracee is what the property says of it.    *)
LEMMA InvIsTheProgram == Inv => RecordIsTheProgram
<1> SUFFICES ASSUME Inv, NEW t \in Live
             PROVE  /\ tracee[t].exe = tracee[t].prog
                    /\ tracee[t].call \in {"none", "brk"} /\ "kernel" \notin tracee[t].late =>
                         /\ tracee[t].aarch32 = (tracee[t].prog \in Class32)
                         /\ tracee[t].traced => ~tracee[t].ignore
                    /\ SharesHeap(t) = SharesMm(t)
                    /\ tracee[t].call = "crash" => "load" \in tracee[t].late
  BY DEF RecordIsTheProgram
<1>1. tracee[t] \in RecordType
  BY RecordIs
<1>2. tracee[t].aarch32 \in BOOLEAN
  BY <1>1 DEF RecordType
<1>3. ProgramOK(tracee[t])
  BY DEF Inv, ProgramPart
<1>4. ASSUME "kernel" \notin tracee[t].late PROVE tracee[t].aarch32 = (tracee[t].prog \in Class32)
  <2>1. tracee[t].aarch32 <=> tracee[t].prog \in Class32
    BY <1>3, <1>4 DEF ProgramOK
  <2> QED BY <1>2, <2>1
<1>5. SharesHeap(t) = SharesMm(t)
  BY DEF Inv, SharePart, SharesHeap, SharesMm
<1> QED BY <1>2, <1>3, <1>4, <1>5 DEF ProgramOK

(* The invariant holds in every reachable state.                           *)
LEMMA InvAlways == ASSUME Usual PROVE Spec => []Inv
<1>1. Init => Inv
  BY InitInv
<1>2. Inv /\ [Next]_vars => Inv'
  BY NextInv
<1> QED BY <1>1, <1>2, PTL DEF Spec

(* Whatever execve(2) calls are made, accepted, or refused by PRoot or by  *)
(* the kernel after the record was changed, and by whichever tracees of a  *)
(* memory: /proc/self/exe is the program that runs, and the emulated heap  *)
(* is shared with the memory, in every reachable state.  The word size and *)
(* the mask of the calls are those of the program unless the kernel        *)
(* refused one since it was started; brk(2) finds load information unless  *)
(* a program could not be read since.                                      *)
THEOREM RecordsAreThePrograms == ASSUME Usual PROVE Spec => []RecordIsTheProgram
<1>1. Spec => []Inv
  BY InvAlways
<1> QED BY <1>1, InvIsTheProgram, PTL

(* In every reachable state brk(2) has told the break it was asked for,    *)
(* with the memory below it mapped, or the one the last call on this       *)
(* memory has left.                                                        *)
THEOREM BreaksAreLinuxs == ASSUME Usual PROVE Spec => []BrkLikeLinux
<1>1. Spec => []Inv
  BY InvAlways
<1>2. Inv => BrkLikeLinux
  BY DEF Inv
<1> QED BY <1>1, <1>2, PTL

-----------------------------------------------------------------------------
(* What is held of the pipes.                                              *)
PipeType == [slots : Capacities, used : Nat, bytes : Nat]
PipesPart == pipe \in [Pipes -> PipeType]
             /\ writer \in [Pipes -> {"fresh", "writing", "blocked", "EPIPE", "gone"}]
             /\ Held \subseteq Pipes /\ DOMAIN reader = Pipes

(* The pipe of a writer that did not write holds nothing.                  *)
Fresh == \A p \in Pipes : writer[p] = "fresh" => pipe[p].bytes = 0

PipeInv == PipesPart /\ Fresh

(* The initial state satisfies the invariant.                              *)
LEMMA PipeInitInv == PipesInit => PipeInv
<1> SUFFICES ASSUME PipesInit PROVE PipeInv
  OBVIOUS
<1>1. pipe \in [Pipes -> PipeType] /\ \A p \in Pipes : pipe[p].bytes = 0
  BY DEF PipesInit, PipeType
<1>2. writer \in [Pipes -> {"fresh", "writing", "blocked", "EPIPE", "gone"}] /\ Held = {}
  BY DEF PipesInit, Held
<1> QED BY <1>1, <1>2 DEF PipeInv, PipesPart, Fresh, PipesInit

(* A step in which no tracee writes or reads.                              *)
LEMMA PipesSame ==
  ASSUME PipeInv, UNCHANGED <<pipe, writer>>, Held' \subseteq Pipes, DOMAIN reader' = DOMAIN reader
  PROVE  PipeInv'
  BY DEF PipeInv, PipesPart, Fresh

(* A writer that moves on is no longer one that did not write.             *)
LEMMA WriterMoves ==
  ASSUME PipeInv, NEW p \in Pipes, NEW s \in {"writing", "blocked", "EPIPE", "gone"},
         Becomes(p, s), UNCHANGED <<shadow, reader>>,
         pipe' = pipe \/ \E r \in PipeType : pipe' = [pipe EXCEPT ![p] = r]
  PROVE  PipeInv'
<1>1. pipe \in [Pipes -> PipeType] /\ Fresh /\ Held \subseteq Pipes
      /\ writer \in [Pipes -> {"fresh", "writing", "blocked", "EPIPE", "gone"}]
  BY DEF PipeInv, PipesPart
<1>2. pipe' \in [Pipes -> PipeType] /\ \A q \in Pipes \ {p} : pipe'[q] = pipe[q]
  BY <1>1
<1>3. writer' \in [Pipes -> {"fresh", "writing", "blocked", "EPIPE", "gone"}]
      /\ writer'[p] # "fresh" /\ \A q \in Pipes \ {p} : writer'[q] = writer[q]
  BY <1>1 DEF Becomes
<1>4. Held' = Held
  BY DEF Held
<1> QED BY <1>1, <1>2, <1>3, <1>4 DEF PipeInv, PipesPart, Fresh

(* write(2) on a pipe with room adds to what it holds.                     *)
LEMMA WriteInv ==
  ASSUME PipeInv, NEW p \in Pipes, NEW n \in 1 .. PIPE_BUF, Write(p, n)
  PROVE  PipeInv'
<1> DEFINE r == [pipe[p] EXCEPT !.used = @ + 1, !.bytes = @ + n]
<1>1. UNCHANGED <<shadow, reader>>
  BY DEF Write
<1>2. CASE Put(p, n) /\ Becomes(p, "writing")
  <2>1. pipe[p] \in PipeType
    BY DEF PipeInv, PipesPart
  <2>2. pipe[p].used + 1 \in Nat /\ pipe[p].bytes + n \in Nat
    <3>1. pipe[p].used \in Nat /\ pipe[p].bytes \in Nat /\ n \in Nat
      BY <2>1 DEF PipeType, PIPE_BUF
    <3> QED BY <3>1
  <2>3. pipe' = [pipe EXCEPT ![p] = r]
    BY <1>2, <2>1 DEF Put, PipeInv, PipesPart, PipeType
  <2>4. r \in PipeType
    BY <2>1, <2>2 DEF PipeType
  <2> QED BY <1>1, <1>2, <2>3, <2>4, WriterMoves
<1>3. CASE pipe' = pipe /\ (Becomes(p, "EPIPE") \/ Becomes(p, "blocked"))
  BY <1>1, <1>3, WriterMoves
<1> QED BY <1>2, <1>3 DEF Write

(* A reader empties its pipe.                                              *)
LEMMA ReadInv ==
  ASSUME PipeInv, NEW p \in Pipes, Read(p)
  PROVE  PipeInv'
<1> DEFINE r == [pipe[p] EXCEPT !.used = 0, !.bytes = 0]
<1>1. pipe \in [Pipes -> PipeType] /\ pipe[p] \in PipeType
  BY DEF PipeInv, PipesPart
<1>2. pipe' = [pipe EXCEPT ![p] = r]
  BY <1>1 DEF Read, PipeType
<1>3. r \in PipeType /\ r.bytes = 0
  BY <1>1 DEF PipeType
<1> HIDE DEF r
<1>4. pipe' \in [Pipes -> PipeType] /\ pipe'[p] = r /\ \A q \in Pipes \ {p} : pipe'[q] = pipe[q]
  BY <1>1, <1>2, <1>3
<1> QED BY <1>3, <1>4 DEF PipeInv, PipesPart, Fresh, Read, Held

(* shadow_pipe_read_end adds the pipe that is closed, or nothing.          *)
LEMMA CloseMoves ==
  ASSUME NEW p \in Pipes, Close(p)
  PROVE  /\ Held \subseteq Held' /\ Held' \subseteq Held \cup {p}
         /\ Room => p \in Held'
  BY DEF Close, shadow_pipe_read_end, Held

(* shadow_pipes_reap drops shadows that are of no use, and only those.     *)
LEMMA LoopTopMoves ==
  ASSUME LoopTop
  PROVE  Held' \subseteq Held /\ \A p \in Held \ Held' : p \in Useless
  BY DEF LoopTop, shadow_pipes_reap, Without, Held

(* Time passes: the shadows stay.                                          *)
LEMMA TickMoves ==
  ASSUME Tick
  PROVE  Held' = Held
  BY DEF Tick, Held

(* Every step preserves the invariant.                                     *)
LEMMA PipeNextInv ==
  ASSUME PipeInv, [PipesNext]_pipeVars
  PROVE  PipeInv'
<1>0. Held \subseteq Pipes
  BY DEF PipeInv, PipesPart
<1>1. CASE UNCHANGED pipeVars
  BY <1>0, <1>1, PipesSame DEF pipeVars, Held
<1>2. ASSUME NEW p \in Pipes, NEW n \in 1 .. PIPE_BUF, Write(p, n) PROVE PipeInv'
  BY <1>2, WriteInv
<1>3. ASSUME NEW p \in Pipes, Unblock(p) \/ WriterEnds(p) PROVE PipeInv'
  BY <1>3, WriterMoves DEF Unblock, WriterEnds
<1>4. ASSUME NEW p \in Pipes, Read(p) PROVE PipeInv'
  BY <1>4, ReadInv
<1>5. ASSUME NEW p \in Pipes, Close(p) PROVE PipeInv'
  <2>1. UNCHANGED <<pipe, writer>> /\ DOMAIN reader' = DOMAIN reader
    BY <1>5 DEF Close, Leaves
  <2> QED BY <1>0, <1>5, <2>1, CloseMoves, PipesSame
<1>6. ASSUME NEW p \in Pipes, CloseUnseen(p) \/ ReaderEnds(p) PROVE PipeInv'
  BY <1>0, <1>6, PipesSame DEF CloseUnseen, ReaderEnds, Leaves, Held
<1>7. CASE LoopTop
  <2>1. UNCHANGED <<pipe, writer, reader>>
    BY <1>7 DEF LoopTop
  <2> QED BY <1>0, <1>7, <2>1, LoopTopMoves, PipesSame
<1>8. CASE Waits \/ OtherEvent \/ Alarm
  BY <1>0, <1>8, PipesSame DEF Waits, OtherEvent, Alarm, Held
<1>9. CASE Tick
  <2>1. UNCHANGED <<pipe, writer, reader>>
    BY <1>9 DEF Tick
  <2> QED BY <1>0, <1>9, <2>1, TickMoves, PipesSame
<1> QED BY <1>1, <1>2, <1>3, <1>4, <1>5, <1>6, <1>7, <1>8, <1>9 DEF PipesNext

(* A pipe whose writer did not write is never one that blocks it.          *)
LEMMA FreshDoesNotBlock ==
  ASSUME PipeInv, NEW p \in Pipes, writer[p] = "fresh"
  PROVE  ~writer_would_block(p)
<1>1. pipe[p] \in PipeType /\ pipe[p].bytes = 0
  BY DEF PipeInv, PipesPart, Fresh
<1>2. pipe[p].slots \in Nat
  BY <1>1, PipeAssumption DEF PipeType
<1>3. pipe[p].slots * PIPE_BUF \in Nat
  BY <1>2 DEF PIPE_BUF
<1> QED BY <1>1, <1>3 DEF writer_would_block, PIPE_BUF

(* The only step that drops a shadow is the reap.                          *)
LEMMA OnlyReapDrops ==
  ASSUME [PipesNext]_pipeVars, ~LoopTop
  PROVE  Held \subseteq Held'
<1>1. CASE UNCHANGED pipeVars
  BY <1>1 DEF pipeVars, Held
<1>2. CASE \E p \in Pipes : Close(p)
  BY <1>2, CloseMoves
<1>3. CASE Tick
  BY <1>3, TickMoves
<1>4. CASE UNCHANGED shadow
  BY <1>4 DEF Held
<1> QED BY <1>1, <1>2, <1>3, <1>4 DEF PipesNext, Write, Unblock, Read, WriterEnds, CloseUnseen, ReaderEnds,
        Waits, OtherEvent, Alarm

(* A reader only goes by a close, seen or not, or by its death.            *)
LEMMA ReaderGoes ==
  ASSUME PipeInv, [PipesNext]_pipeVars, NEW p \in Pipes, reader[p] = "open", reader'[p] # "open"
  PROVE  Close(p) \/ reader'[p] = "unseen"
<1>1. DOMAIN reader = Pipes
  BY DEF PipeInv, PipesPart
<1>2. ASSUME NEW q \in Pipes, NEW how, Leaves(q, how) PROVE q = p /\ reader'[p] = how
  BY <1>1, <1>2 DEF Leaves
<1>3. CASE \E q \in Pipes : Close(q)
  BY <1>2, <1>3 DEF Close
<1>4. CASE \E q \in Pipes : CloseUnseen(q) \/ ReaderEnds(q)
  BY <1>2, <1>4 DEF CloseUnseen, ReaderEnds
<1>5. CASE UNCHANGED reader
  BY <1>5
<1> QED BY <1>3, <1>4, <1>5 DEF PipesNext, pipeVars, Write, Unblock, Read, WriterEnds,
        LoopTop, Waits, OtherEvent, Alarm, Tick

(* What shadows are for: a pipe whose writer did not write yet keeps a     *)
(* reader, whatever the tracees of this and other pipes do and however     *)
(* late shadow_pipes_reap comes, until the shadow is MaxAge old; at the    *)
(* close itself it is lost only if PRoot does not see the close or has no  *)
(* slot left.                                                              *)
THEOREM FirstWritesAreKept == PipesSpec => FirstWriteIsKept
<1> DEFINE Step == \A p \in Pipes : LosesReader(p) /\ writer[p] = "fresh" =>
                      IF p \in Held THEN shadow[p] >= MaxAge
                      ELSE reader'[p] = "unseen" \/ ~Room
<1>1. PipeInv /\ [PipesNext]_pipeVars => PipeInv'
  BY PipeNextInv
<1>2. PipeInv /\ [PipesNext]_pipeVars => Step
  <2> SUFFICES ASSUME PipeInv, [PipesNext]_pipeVars, NEW p \in Pipes, LosesReader(p), writer[p] = "fresh"
               PROVE  IF p \in Held THEN shadow[p] >= MaxAge
                      ELSE reader'[p] = "unseen" \/ ~Room
    OBVIOUS
  <2>1. (reader[p] = "open" \/ p \in Held) /\ reader'[p] # "open" /\ p \notin Held'
    BY DEF LosesReader, HasReader
  <2>2. CASE p \in Held
    <3>1. LoopTop
      BY <2>1, <2>2, OnlyReapDrops
    <3>2. p \in Useless
      BY <2>1, <2>2, <3>1, LoopTopMoves
    <3>3. ~writer_would_block(p)
      BY FreshDoesNotBlock
    <3> QED BY <2>2, <3>2, <3>3 DEF Useless
  <2>3. CASE p \notin Held
    <3>1. Close(p) \/ reader'[p] = "unseen"
      BY <2>1, <2>3, ReaderGoes
    <3>2. Close(p) => ~Room
      BY <2>1, CloseMoves
    <3> QED BY <2>3, <3>1, <3>2
  <2> QED BY <2>2, <2>3
<1>3. PipeInv /\ [PipesNext]_pipeVars => [Step]_pipeVars
  BY <1>2
<1> QED BY <1>1, <1>3, PipeInitInv, PTL DEF PipesSpec, FirstWriteIsKept

-----------------------------------------------------------------------------
(* What the theorem about the cache asks of the constants.                 *)
Ordered ==
  /\ Weak = FALSE /\ J!None \notin Guests
  /\ MaxWrites \in Nat /\ SeqMod \in Nat /\ 2 * MaxWrites < SeqMod

Fields == {"guest", "host", "active"}
Entry == [guest : Guests \cup {J!None}, host : Hosts \cup {J!None}, active : BOOLEAN]
Clearing == [J!NoCall EXCEPT !.do = "clear"]
Calls == {J!NoCall, Clearing} \cup [do : {"insert"}, slot : Entries, entry : Entry]

TypesPart ==
  /\ idx \in [Guests -> Entries] /\ writes \in 0..MaxWrites
  /\ entries \in [Entries -> Entry] /\ current \in [Entries -> Entry]
  /\ writing \in Calls /\ pending \in SUBSET (Fields \cup {"odd"})

(* The lock is twice the number of calls that ended, plus one from the     *)
(* first store of a call to its last.                                      *)
LockPart ==
  /\ seqlock \in Nat
  /\ writing = J!NoCall => pending = {} /\ seqlock = 2 * writes
  /\ writing # J!NoCall =>
       writes > 0 /\ seqlock = 2 * (writes - 1) + (IF "odd" \in pending THEN 0 ELSE 1)

(* Until a call stores its first field the entries are what the cache      *)
(* holds; then each field it has stored is the one it was asked to store.  *)
Quiet == writing = J!NoCall \/ "odd" \in pending
StoresPart ==
  /\ "odd" \in pending => "active" \in pending
  /\ "odd" \in pending /\ writing # Clearing => Fields \subseteq pending
  /\ writing = Clearing => pending \subseteq {"odd", "active"}
  /\ Quiet => entries = current
  /\ ~Quiet /\ writing = Clearing =>
       \A i \in Entries : /\ entries[i].guest = current[i].guest
                          /\ entries[i].host = current[i].host
                          /\ entries[i].active = (current[i].active /\ "active" \in pending)
  /\ ~Quiet /\ writing # Clearing =>
       \A i \in Entries : IF i # writing.slot THEN entries[i] = current[i]
                          ELSE \A f \in Fields \ pending : entries[i][f] = writing.entry[f]

(* The lookup l: what it has copied while the lock stands at seq1 is what  *)
(* the cache holds, and what the cache holds it has seen.                  *)
Copied(l) == l.copy.active /\ l.copy.guest = l.guest => l.copy.host \in l.seen
LookupOK(l) ==
  /\ l.copy \in Entry
  /\ l.guest \in Guests \cup {J!None}
  /\ l.at \in {"idle", "miss", "seq1", "copy", "hit"}
  /\ l.at \in {"seq1", "copy"} => l.guest \in Guests /\ J!Holds(current, l.guest) \subseteq l.seen
  /\ l.at = "copy" =>
       /\ l.seq1 \in Nat /\ l.seq1 % 2 = 0 /\ l.seq1 <= seqlock
       /\ l.left \subseteq Fields \cup {"seq2"}
       /\ "seq2" \notin l.left => l.left = {}
       /\ "seq2" \in l.left /\ l.seq1 = seqlock =>
            \A f \in Fields \ l.left : l.copy[f] = current[idx[l.guest]][f]
       /\ "seq2" \notin l.left /\ l.seq1 = l.seq2 => Copied(l)
  /\ l.at = "hit" => l.copy.host \in l.seen

Lookup == [at : {"idle", "miss", "seq1", "copy", "hit"}, guest : Guests \cup {J!None},
           seq1 : Nat, seq2 : Nat, left : SUBSET (Fields \cup {"seq2"}), retries : Nat,
           copy : Entry, seen : SUBSET (Hosts \cup {J!None})]
LookupsPart == looking \in [Tracees -> Lookup] /\ \A t \in Tracees : LookupOK(looking[t])

JitInv == TypesPart /\ LockPart /\ StoresPart /\ LookupsPart

-----------------------------------------------------------------------------
(* The empty cache satisfies the invariant.                                *)
LEMMA JitInitInv == Ordered /\ J!Init => JitInv
<1> SUFFICES ASSUME Ordered, J!Init PROVE JitInv
  OBVIOUS
<1>1. J!Empty \in Entry
  BY DEF J!Empty, Entry
<1>2. TypesPart
  BY <1>1 DEF TypesPart, J!Init, Ordered, Calls, Fields
<1>3. LockPart /\ StoresPart
  BY DEF LockPart, StoresPart, J!Init, Quiet, Ordered, J!NoCall, Clearing
<1>4. J!Idle \in Lookup /\ LookupOK(J!Idle)
  BY <1>1 DEF J!Idle, LookupOK, Lookup, J!Empty, Ordered
<1> QED
  BY <1>2, <1>3, <1>4 DEF JitInv, LookupsPart, J!Init

(* A call begins: only the stores it is going to do are added.             *)
LEMMA BeginsInv ==
  ASSUME Ordered, JitInv, NEW call, NEW stores, J!Begins(call, stores),
         \/ call = Clearing /\ stores = {"active"}
         \/ call \in Calls \ {J!NoCall, Clearing} /\ stores = Fields
  PROVE  JitInv'
<1> USE DEF JitInv, J!Begins
<1>0. Clearing # J!NoCall
  BY DEF Clearing, J!NoCall, J!None
<1>1. TypesPart'
  BY DEF TypesPart, Calls, Fields, Ordered
<1>2. LockPart'
  BY <1>0 DEF LockPart, TypesPart, Ordered
<1>3. StoresPart'
  BY <1>0 DEF StoresPart, Quiet, LockPart, Fields
<1>4. LookupsPart'
  BY DEF LookupsPart, LookupOK, Copied, J!Holds
<1> QED
  BY <1>1, <1>2, <1>3, <1>4

(* jit_shm_insert starts a call when none is under way.                    *)
LEMMA InsertInv ==
  ASSUME Ordered, JitInv, NEW g \in Guests, NEW h \in Hosts, J!jit_shm_insert(g, h)
  PROVE  JitInv'
<1> DEFINE e == [guest |-> g, host |-> h, active |-> TRUE]
           call == [do |-> "insert", slot |-> idx[g], entry |-> e]
<1>1. e \in Entry /\ idx[g] \in Entries
  BY DEF Entry, JitInv, TypesPart
<1>2. call \in Calls \ {J!NoCall, Clearing}
  BY <1>1 DEF Calls, J!NoCall, Clearing, J!None
<1>3. J!Begins(call, Fields)
  BY DEF J!jit_shm_insert, Fields
<1> HIDE DEF call
<1> QED
  BY <1>2, <1>3, BeginsInv

(* jit_shm_clear too: both leave the entries alone.                        *)
LEMMA ClearInv == ASSUME Ordered, JitInv, J!jit_shm_clear PROVE JitInv'
  BY BeginsInv DEF J!jit_shm_clear, Clearing

(* One store of the call.  The first makes the lock odd, so no lookup that *)
(* began before can trust what it copies from then on.                     *)
LEMMA StoreInv ==
  ASSUME Ordered, JitInv, NEW f \in {"odd", "guest", "host", "active"}, J!Store(f)
  PROVE  JitInv'
<1> USE DEF JitInv
<1>0. writing # J!NoCall /\ writes > 0 /\ writes <= MaxWrites
  BY DEF J!Store, LockPart, TypesPart, Ordered
<1>1. CASE f = "odd"
  <2>1. seqlock = 2 * (writes - 1) /\ seqlock' = seqlock + 1
    <3>1. seqlock = 2 * (writes - 1)
      BY <1>0, <1>1 DEF J!Store, LockPart, TypesPart
    <3>2. seqlock + 1 < SeqMod /\ seqlock + 1 \in Nat
      BY <1>0, <3>1 DEF TypesPart, Ordered
    <3> QED BY <1>1, <3>1, <3>2 DEF J!Store, Ordered
  <2>2. TypesPart'
    BY <1>1 DEF TypesPart, J!Store
  <2>3. LockPart'
    BY <1>0, <1>1, <2>1 DEF LockPart, J!Store, TypesPart
  <2>4. StoresPart'
    <3>1. /\ "odd" \in pending /\ pending' = pending \ {"odd"}
          /\ UNCHANGED <<entries, current, writing>>
      BY <1>1 DEF J!Store
    <3>2. ~Quiet' /\ entries = current /\ "active" \in pending
      BY <1>0, <3>1 DEF StoresPart, Quiet
    <3>3. writing # Clearing => Fields \ pending' = {}
      BY <3>1 DEF StoresPart, Fields
    <3>4. \A i \in Entries : entries[i].active = (current[i].active /\ "active" \in pending')
      BY <3>1, <3>2 DEF TypesPart, Entry
    <3> QED
      BY <3>1, <3>2, <3>3, <3>4 DEF StoresPart
  <2>5. LookupsPart'
    <3>1. \A t \in Tracees : LookupOK(looking[t])'
      BY <1>1, <2>1 DEF LookupsPart, LookupOK, Copied, J!Holds, J!Store, LockPart
    <3> QED BY <3>1 DEF LookupsPart, J!Store
  <2> QED BY <2>2, <2>3, <2>4, <2>5
<1>2. CASE f # "odd"
  <2>1. "odd" \notin pending /\ f \in Fields
    BY <1>2 DEF J!Store, J!InOrder, J!Earlier, Ordered, Fields
  <2>2. /\ pending' = pending \ {f} /\ entries' = J!Stored(f)
        /\ UNCHANGED <<seqlock, idx, writing, looking, current, writes>>
    BY <1>2 DEF J!Store
  <2>3. LockPart'
    BY <1>0, <2>1, <2>2 DEF LockPart
  <2>4. CASE writing = Clearing
    <3>1. writing.do = "clear" /\ f = "active"
      BY <1>2, <2>4 DEF Clearing, J!NoCall, J!Store, StoresPart, Fields
    <3>2. entries' = [i \in Entries |-> [entries[i] EXCEPT !.active = FALSE]]
      BY <2>2, <3>1 DEF J!Stored
    <3>3. TypesPart'
      <4>1. ASSUME NEW e \in Entry PROVE [e EXCEPT !.active = FALSE] \in Entry
        BY DEF Entry
      <4> QED BY <2>2, <3>2, <4>1 DEF TypesPart
    <3>4. \A i \in Entries : /\ entries'[i].guest = current[i].guest
                              /\ entries'[i].host = current[i].host
                              /\ entries'[i].active = FALSE
      <4> SUFFICES ASSUME NEW i \in Entries
                   PROVE  /\ entries'[i].guest = current[i].guest
                          /\ entries'[i].host = current[i].host
                          /\ entries'[i].active = FALSE
        OBVIOUS
      <4>1. entries[i] \in Entry
        BY DEF TypesPart
      <4>2. entries[i].guest = current[i].guest /\ entries[i].host = current[i].host
        BY <1>0, <2>1, <2>4 DEF StoresPart, Quiet
      <4>3. entries'[i] = [entries[i] EXCEPT !.active = FALSE]
        BY <3>2
      <4> QED BY <4>1, <4>2, <4>3 DEF Entry
    <3>5. StoresPart'
      <4>1. ~Quiet'
        BY <1>0, <2>1, <2>2 DEF Quiet
      <4> QED BY <1>0, <2>1, <2>2, <2>4, <3>1, <3>4, <4>1 DEF StoresPart
    <3>6. LookupsPart'
      BY <2>2 DEF LookupsPart, LookupOK, Copied, J!Holds
    <3> QED BY <2>3, <3>3, <3>5, <3>6
  <2>5. CASE writing # Clearing
    <3>1. writing.do = "insert" /\ writing.slot \in Entries /\ writing.entry \in Entry
      BY <1>0, <2>5 DEF TypesPart, Calls
    <3>2. entries' = [entries EXCEPT ![writing.slot][f] = writing.entry[f]]
      BY <2>2, <3>1 DEF J!Stored
    <3>3. entries[writing.slot] \in Entry /\ entries \in [Entries -> Entry]
      BY <3>1 DEF TypesPart
    <3>4. [entries[writing.slot] EXCEPT ![f] = writing.entry[f]] \in Entry
      BY <2>1, <3>1, <3>3 DEF Entry, Fields
    <3>5. TypesPart'
      BY <2>2, <3>1, <3>2, <3>3, <3>4 DEF TypesPart
    <3>6. \A i \in Entries : IF i # writing.slot THEN entries'[i] = current[i]
                              ELSE \A k \in Fields \ (pending \ {f}) :
                                     entries'[i][k] = writing.entry[k]
      <4> SUFFICES ASSUME NEW i \in Entries
                   PROVE  IF i # writing.slot THEN entries'[i] = current[i]
                          ELSE \A k \in Fields \ (pending \ {f}) :
                                 entries'[i][k] = writing.entry[k]
        OBVIOUS
      <4>1. i # writing.slot => entries'[i] = current[i]
        BY <1>0, <2>1, <2>5, <3>2, <3>3 DEF StoresPart, Quiet
      <4>2. ASSUME i = writing.slot, NEW k \in Fields \ (pending \ {f})
            PROVE  entries'[i][k] = writing.entry[k]
        <5>1. entries'[i] = [entries[i] EXCEPT ![f] = writing.entry[f]]
          BY <3>2, <3>3, <4>2
        <5>2. k # f => entries[i][k] = writing.entry[k]
          BY <1>0, <2>1, <2>5, <4>2 DEF StoresPart, Quiet
        <5>3. k \in DOMAIN entries[i]
          BY <3>3, <4>2 DEF Entry, Fields
        <5> QED BY <5>1, <5>2, <5>3, <2>1
      <4> QED BY <4>1, <4>2
    <3>7. StoresPart'
      <4>1. ~Quiet'
        BY <1>0, <2>1, <2>2 DEF Quiet
      <4> QED BY <2>1, <2>2, <2>5, <3>6, <4>1 DEF StoresPart
    <3>8. LookupsPart'
      BY <2>2 DEF LookupsPart, LookupOK, Copied, J!Holds
    <3> QED BY <2>3, <3>5, <3>7, <3>8
  <2> QED BY <2>4, <2>5
<1> QED
  BY <1>1, <1>2

(* The end of a call: every store is done, so the entries are what the     *)
(* cache holds from now on; the lock has moved past every lookup's seq1.   *)
LEMMA EndsInv == ASSUME Ordered, JitInv, J!Ends PROVE JitInv'
<1> USE DEF JitInv
<1>0. writing # J!NoCall /\ pending = {} /\ writes > 0 /\ writes \in Nat /\ writes <= MaxWrites
  BY DEF J!Ends, LockPart, TypesPart, Ordered
<1>1. seqlock = 2 * (writes - 1) + 1 /\ seqlock' = 2 * writes
  <2>1. seqlock = 2 * (writes - 1) + 1
    BY <1>0 DEF LockPart
  <2>2. seqlock + 1 = 2 * writes /\ 2 * writes < SeqMod /\ 2 * writes \in Nat
    BY <1>0, <2>1 DEF Ordered
  <2> QED BY <2>1, <2>2 DEF J!Ends, Ordered
<1>2. entries = J!Effect /\ J!Effect \in [Entries -> Entry]
  <2>1. CASE writing = Clearing
    <3>1. J!Effect = [i \in Entries |-> [current[i] EXCEPT !.active = FALSE]]
      BY <2>1 DEF J!Effect, Clearing, J!NoCall
    <3>2. ASSUME NEW i \in Entries PROVE entries[i] = [current[i] EXCEPT !.active = FALSE]
      <4>1. current[i] \in Entry /\ entries[i] \in Entry
        BY DEF TypesPart
      <4>2. /\ entries[i].guest = current[i].guest /\ entries[i].host = current[i].host
            /\ entries[i].active = FALSE
        BY <1>0, <2>1 DEF StoresPart, Quiet
      <4> QED BY <4>1, <4>2 DEF Entry
    <3> QED BY <3>1, <3>2 DEF TypesPart
  <2>2. CASE writing # Clearing
    <3>1. writing.do = "insert" /\ writing.slot \in Entries /\ writing.entry \in Entry
      BY <1>0, <2>2 DEF TypesPart, Calls
    <3>2. J!Effect = [current EXCEPT ![writing.slot] = writing.entry]
      BY <3>1 DEF J!Effect
    <3>3. \A i \in Entries : i # writing.slot => entries[i] = current[i]
      BY <1>0, <2>2 DEF StoresPart, Quiet
    <3>4. entries[writing.slot] = writing.entry
      <4>1. entries[writing.slot] \in Entry
        BY <3>1 DEF TypesPart
      <4>2. \A f \in Fields : entries[writing.slot][f] = writing.entry[f]
        BY <1>0, <2>2, <3>1 DEF StoresPart, Quiet
      <4> QED BY <3>1, <4>1, <4>2 DEF Entry, Fields
    <3> QED BY <3>1, <3>2, <3>3, <3>4 DEF TypesPart
  <2> QED BY <2>1, <2>2
<1>3. TypesPart'
  BY <1>0, <1>2 DEF TypesPart, J!Ends, Calls
<1>4. LockPart' /\ StoresPart'
  BY <1>0, <1>1, <1>2 DEF J!Ends, LockPart, StoresPart, Quiet, Clearing, J!NoCall, J!None
<1>5. LookupsPart'
  <2> DEFINE now == J!Effect
  <2>0. now = J!Effect /\ current' = now /\ now \in [Entries -> Entry]
    BY <1>2 DEF J!Ends
  <2> HIDE DEF now
  <2>1. ASSUME NEW t \in Tracees PROVE looking'[t] \in Lookup /\ LookupOK(looking[t])'
    <3> DEFINE l == looking[t]
    <3>0. l \in Lookup /\ LookupOK(l)
      BY DEF LookupsPart
    <3>1. CASE l.guest = J!None
      <4>1. looking'[t] = l
        BY <3>1 DEF J!Ends
      <4>2. LookupOK(looking[t])'
        BY <3>0, <3>1, <4>1, <1>1, <1>0 DEF LookupOK, Ordered, Copied
      <4> QED BY <3>0, <4>1, <4>2
    <3>2. CASE l.guest # J!None
      <4>1. looking'[t] = [l EXCEPT !.seen = @ \cup J!Holds(now, l.guest)]
        BY <2>0, <3>2 DEF J!Ends
      <4>2. l.guest \in Guests /\ idx[l.guest] \in Entries
        BY <3>0, <3>2 DEF Lookup, TypesPart
      <4>3. J!Holds(now, l.guest) \subseteq Hosts \cup {J!None}
        BY <2>0, <4>2 DEF J!Holds, Entry
      <4>4. looking'[t] \in Lookup
        BY <3>0, <4>1, <4>3 DEF Lookup
      <4>6. /\ looking'[t].at = l.at /\ looking'[t].guest = l.guest /\ looking'[t].copy = l.copy
            /\ looking'[t].seq1 = l.seq1 /\ looking'[t].seq2 = l.seq2
            /\ looking'[t].left = l.left /\ looking'[t].seen = l.seen \cup J!Holds(now, l.guest)
        BY <3>0, <4>1 DEF Lookup
      <4>7. l.at = "copy" => l.seq1 < seqlock'
        BY <3>0, <1>1, <1>0 DEF LookupOK
      <4>8. J!Holds(current, looking[t].guest)' = J!Holds(now, l.guest)
        BY <2>0, <4>6 DEF J!Holds, J!Ends
      <4> HIDE DEF l
      <4>9. LookupOK(looking[t])'
        BY <3>0, <4>2, <4>6, <4>7, <4>8, <1>1, <1>0 DEF LookupOK, Copied
      <4> QED BY <4>4, <4>9
    <3> QED BY <3>1, <3>2
  <2>2. looking' = [t \in Tracees |-> looking'[t]]
    BY DEF J!Ends
  <2> QED BY <2>1, <2>2 DEF LookupsPart
<1> QED
  BY <1>3, <1>4, <1>5

(* A step of a lookup changes nothing else.                                *)
LEMMA LooksInv ==
  ASSUME JitInv, NEW t \in Tracees, NEW r \in Lookup, LookupOK(r), J!Looks(t, r)
  PROVE  JitInv'
<1> USE DEF JitInv, J!Looks
<1>1. TypesPart' /\ LockPart'
  BY DEF TypesPart, LockPart
<1>2. StoresPart'
  BY DEF StoresPart, Quiet
<1>3. looking' \in [Tracees -> Lookup]
  BY DEF LookupsPart
<1>4. ASSUME NEW u \in Tracees PROVE LookupOK(looking[u])'
  <2>1. looking'[u] = IF u = t THEN r ELSE looking[u]
    BY DEF LookupsPart
  <2>2. LookupOK(looking'[u])
    BY <2>1 DEF LookupsPart
  <2> QED BY <2>2 DEF LookupOK, Copied, J!Holds
<1> QED
  BY <1>1, <1>2, <1>3, <1>4 DEF LookupsPart

(* A syscall of the guest starts one look-up and holds nothing.            *)
LEMMA HookInv ==
  ASSUME Ordered, JitInv, NEW t \in Tracees, NEW g \in Guests, J!Hook(t, g)
  PROVE  JitInv'
<1> DEFINE r == [J!Idle EXCEPT !.at = "seq1", !.guest = g, !.seen = J!Holds(current, g)]
<1>1. /\ r.at = "seq1" /\ r.guest = g /\ r.seen = J!Holds(current, g) /\ r.copy = J!Empty
  BY DEF J!Idle, J!Empty
<1>2. J!Empty \in Entry
  BY DEF J!Empty, Entry
<1>3. J!Holds(current, g) \subseteq Hosts \cup {J!None}
  BY DEF J!Holds, JitInv, TypesPart, Entry
<1>4. r \in Lookup
  BY <1>2, <1>3 DEF J!Idle, Lookup, Ordered, J!Empty
<1>5. J!Looks(t, r)
  BY DEF J!Hook
<1> HIDE DEF r
<1>6. LookupOK(r)
  BY <1>1, <1>2 DEF LookupOK
<1> QED
  BY <1>4, <1>5, <1>6, LooksInv

(* A lookup that gives up or tries again keeps no copy it would trust.     *)
LEMMA RetryOK ==
  ASSUME Ordered, JitInv, NEW t \in Tracees, looking[t].at \in {"seq1", "copy"}
  PROVE  J!Retry(t) \in Lookup /\ LookupOK(J!Retry(t))
<1> DEFINE l == looking[t]
<1>1. l \in Lookup /\ LookupOK(l)
  BY DEF JitInv, LookupsPart
<1>2. CASE l.retries > MaxRetries
  <2> DEFINE r == [J!Idle EXCEPT !.at = "miss"]
  <2>1. J!Retry(t) = r
    BY <1>2 DEF J!Retry
  <2>2. J!Empty \in Entry
    BY DEF J!Empty, Entry
  <2>3. r \in Lookup /\ r.at = "miss" /\ r.copy = J!Empty /\ r.guest = J!None
    BY <2>2 DEF J!Idle, Lookup, Ordered, J!Empty
  <2> HIDE DEF r
  <2>4. LookupOK(r)
    BY <2>2, <2>3 DEF LookupOK
  <2> QED BY <2>1, <2>3, <2>4
<1>3. CASE ~(l.retries > MaxRetries)
  <2> DEFINE r == [l EXCEPT !.at = "seq1", !.retries = @ + 1]
  <2>1. J!Retry(t) = r
    BY <1>3 DEF J!Retry
  <2>2. l.retries + 1 \in Nat
    BY <1>1 DEF Lookup
  <2>3. /\ r \in Lookup /\ r.at = "seq1" /\ r.copy = l.copy /\ r.guest = l.guest
        /\ r.seen = l.seen
    BY <1>1, <2>2 DEF Lookup
  <2> HIDE DEF r
  <2>4. LookupOK(r)
    BY <1>1, <2>3 DEF LookupOK
  <2> QED BY <2>1, <2>3, <2>4
<1> QED
  BY <1>2, <1>3

(* The first load of the sequence number is the one the look-up is judged by. *)
LEMMA LoadSeq1Inv ==
  ASSUME Ordered, JitInv, NEW t \in Tracees, J!LoadSeq1(t)
  PROVE  JitInv'
<1> DEFINE l == looking[t]
           r == [l EXCEPT !.at = "copy", !.seq1 = seqlock,
                          !.left = {"guest", "host", "active", "seq2"}]
<1>1. l \in Lookup /\ LookupOK(l) /\ l.at = "seq1" /\ seqlock \in Nat
  BY DEF JitInv, LookupsPart, J!LoadSeq1, LockPart
<1>2. CASE seqlock % 2 = 1
  BY <1>1, <1>2, RetryOK, LooksInv DEF J!LoadSeq1
<1>3. CASE seqlock % 2 # 1
  <2>1. J!Looks(t, r)
    BY <1>3 DEF J!LoadSeq1
  <2>2. /\ r \in Lookup /\ r.at = "copy" /\ r.copy = l.copy /\ r.guest = l.guest
        /\ r.seen = l.seen /\ r.seq1 = seqlock /\ r.left = Fields \cup {"seq2"}
    BY <1>1 DEF Lookup, Fields
  <2>3. seqlock % 2 = 0
    BY <1>1, <1>3
  <2> HIDE DEF r
  <2>4. LookupOK(r)
    BY <1>1, <2>2, <2>3 DEF LookupOK
  <2> QED BY <2>1, <2>2, <2>4, LooksInv
<1> QED
  BY <1>2, <1>3

(* A field is copied: if the lock still stands at seq1, which is even, no  *)
(* call has stored anything, so the field is what the cache holds.         *)
LEMMA LoadInv ==
  ASSUME Ordered, JitInv, NEW t \in Tracees, NEW f \in {"guest", "host", "active", "seq2"}, J!Load(t, f)
  PROVE  JitInv'
<1> DEFINE l == looking[t]
<1>1. /\ l \in Lookup /\ LookupOK(l) /\ l.at = "copy" /\ f \in l.left
      /\ l.left \cap J!LaterLoads(f) = {}
  BY DEF JitInv, LookupsPart, J!Load, Ordered
<1>2. l.guest \in Guests /\ idx[l.guest] \in Entries
  BY <1>1 DEF LookupOK, JitInv, TypesPart
<1>3. l.seq1 = seqlock => entries = current
  <2>1. l.seq1 % 2 = 0
    BY <1>1 DEF LookupOK
  <2>2. ~Quiet => seqlock = 2 * (writes - 1) + 1 /\ writes \in Nat
    BY DEF JitInv, LockPart, Quiet, TypesPart, Ordered
  <2>3. ~Quiet => seqlock % 2 = 1
    BY <2>2
  <2> QED BY <2>1, <2>3 DEF JitInv, StoresPart
<1>4. CASE f = "seq2"
  <2> DEFINE r == [l EXCEPT !.left = @ \ {f}, !.seq2 = seqlock]
  <2>1. J!Looks(t, r)
    BY <1>4 DEF J!Load
  <2>2. /\ r \in Lookup /\ r.at = "copy" /\ r.copy = l.copy /\ r.guest = l.guest
        /\ r.seen = l.seen /\ r.seq1 = l.seq1 /\ r.left = l.left \ {f} /\ r.seq2 = seqlock
    BY <1>1 DEF Lookup, JitInv, LockPart
  <2>3. r.left = {} /\ Fields \cap l.left = {}
    BY <1>1, <1>4, <2>2 DEF J!LaterLoads, LookupOK, Fields
  <2>4. l.seq1 = seqlock => \A k \in Fields : l.copy[k] = current[idx[l.guest]][k]
    BY <1>1, <1>4, <2>3 DEF LookupOK
  <2>5. l.seq1 = seqlock => Copied(r)
    <3>1. ASSUME l.seq1 = seqlock, l.copy.active, l.copy.guest = l.guest
          PROVE  l.copy.host \in l.seen
      <4>1. /\ l.copy.active = current[idx[l.guest]].active
            /\ l.copy.guest = current[idx[l.guest]].guest
            /\ l.copy.host = current[idx[l.guest]].host
        BY <2>4, <3>1 DEF Fields
      <4>2. l.copy.host \in J!Holds(current, l.guest)
        BY <3>1, <4>1 DEF J!Holds
      <4> QED BY <1>1, <4>2 DEF LookupOK
    <3> HIDE DEF r
    <3> QED BY <3>1, <2>2 DEF Copied
  <2> HIDE DEF r
  <2>6. LookupOK(r)
    BY <1>1, <2>2, <2>3, <2>5 DEF LookupOK
  <2> QED BY <2>1, <2>2, <2>6, LooksInv
<1>5. CASE f # "seq2"
  <2> DEFINE v == entries[idx[l.guest]]
             r == [l EXCEPT !.left = @ \ {f}, !.copy[f] = v[f]]
  <2>0. f \in Fields /\ v \in Entry /\ l.copy \in Entry
    BY <1>1, <1>2, <1>5 DEF Fields, JitInv, TypesPart, Lookup
  <2>1. J!Looks(t, r)
    BY <1>5 DEF J!Load
  <2> HIDE DEF v
  <2>2. /\ r.at = "copy" /\ r.copy = [l.copy EXCEPT ![f] = v[f]] /\ r.guest = l.guest
        /\ r.seen = l.seen /\ r.seq1 = l.seq1 /\ r.left = l.left \ {f} /\ r.seq2 = l.seq2
    BY <1>1 DEF Lookup
  <2>3. r.copy \in Entry
    BY <2>0, <2>2 DEF Entry, Fields
  <2>4. r \in Lookup
    BY <1>1, <2>2, <2>3 DEF Lookup
  <2>5. "seq2" \in r.left
    BY <1>1, <1>5, <2>2 DEF LookupOK
  <2>6. ASSUME l.seq1 = seqlock, NEW k \in Fields \ r.left
        PROVE  r.copy[k] = current[idx[l.guest]][k]
    <3>1. CASE k = f
      <4>1. r.copy[k] = v[k]
        BY <2>0, <2>2, <3>1 DEF Entry, Fields
      <4> QED BY <1>3, <2>6, <4>1 DEF v
    <3>2. CASE k # f
      <4>1. r.copy[k] = l.copy[k]
        BY <2>0, <2>2, <2>6, <3>2 DEF Entry, Fields
      <4>2. k \in Fields \ l.left /\ "seq2" \in l.left
        BY <2>2, <2>5, <2>6, <3>2
      <4> QED BY <1>1, <2>6, <4>1, <4>2 DEF LookupOK
    <3> QED BY <3>1, <3>2
  <2> HIDE DEF r
  <2>7. LookupOK(r)
    BY <1>1, <2>2, <2>3, <2>5, <2>6 DEF LookupOK
  <2> QED BY <2>1, <2>4, <2>7, LooksInv
<1> QED
  BY <1>4, <1>5

(* A look-up whose two sequence numbers agree saw no store in between.     *)
LEMMA CompareInv ==
  ASSUME Ordered, JitInv, NEW t \in Tracees, J!Compare(t)
  PROVE  JitInv'
<1> DEFINE l == looking[t]
           hit == l.copy.active /\ l.copy.guest = l.guest
<1>1. l \in Lookup /\ LookupOK(l) /\ l.at = "copy" /\ l.left = {}
  BY DEF JitInv, LookupsPart, J!Compare
<1>2. J!Empty \in Entry
  BY DEF J!Empty, Entry
<1>3. CASE ~J!Unchanged(t)
  <2> DEFINE r == [J!Retry(t) EXCEPT !.copy = J!Empty]
  <2>1. J!Looks(t, r)
    BY <1>3 DEF J!Compare
  <2>2. J!Retry(t) \in Lookup /\ LookupOK(J!Retry(t)) /\ J!Retry(t).at \in {"miss", "seq1"}
    BY <1>1, RetryOK DEF J!Retry, J!Idle, Lookup
  <2>3. /\ r \in Lookup /\ r.at = J!Retry(t).at /\ r.copy = J!Empty
        /\ r.guest = J!Retry(t).guest /\ r.seen = J!Retry(t).seen
    BY <1>2, <2>2 DEF Lookup
  <2> HIDE DEF r
  <2>4. LookupOK(r)
    BY <1>2, <2>2, <2>3 DEF LookupOK
  <2> QED BY <2>1, <2>3, <2>4, LooksInv
<1>4. CASE J!Unchanged(t) /\ hit
  <2> DEFINE r == [l EXCEPT !.at = "hit"]
  <2>1. J!Looks(t, r)
    BY <1>4 DEF J!Compare
  <2>2. /\ r \in Lookup /\ r.at = "hit" /\ r.copy = l.copy
        /\ r.guest = l.guest /\ r.seen = l.seen
    BY <1>1 DEF Lookup
  <2>3. l.copy.host \in l.seen
    BY <1>1, <1>4 DEF LookupOK, Copied, J!Unchanged
  <2> HIDE DEF r
  <2>4. LookupOK(r)
    BY <1>1, <2>2, <2>3 DEF LookupOK
  <2> QED BY <2>1, <2>2, <2>4, LooksInv
<1>5. CASE J!Unchanged(t) /\ ~hit
  <2> DEFINE r == [J!Idle EXCEPT !.at = "miss"]
  <2>1. J!Looks(t, r)
    BY <1>5 DEF J!Compare
  <2>2. r \in Lookup /\ r.at = "miss" /\ r.copy = J!Empty /\ r.guest = J!None
    BY <1>2 DEF J!Idle, Lookup, Ordered, J!Empty
  <2> HIDE DEF r
  <2>3. LookupOK(r)
    BY <1>2, <2>2 DEF LookupOK
  <2> QED BY <2>1, <2>2, <2>3, LooksInv
<1> QED
  BY <1>3, <1>4, <1>5

-----------------------------------------------------------------------------
(* Every step keeps the invariant.                                         *)
LEMMA JitNextInv == Ordered /\ JitInv /\ [J!Next]_(J!vars) => JitInv'
<1> SUFFICES ASSUME Ordered, JitInv, [J!Next]_(J!vars) PROVE JitInv'
  OBVIOUS
<1>1. CASE UNCHANGED J!vars
  <2> USE <1>1 DEF J!vars, JitInv
  <2>1. TypesPart' /\ LockPart'
    BY DEF TypesPart, LockPart
  <2>2. StoresPart'
    BY DEF StoresPart, Quiet
  <2>3. LookupsPart'
    BY DEF LookupsPart, LookupOK, Copied, J!Holds
  <2> QED BY <2>1, <2>2, <2>3
<1>2. CASE J!Next
  BY <1>2, InsertInv, ClearInv, StoreInv, EndsInv, HookInv, LoadSeq1Inv, CompareInv, LoadInv
     DEF J!Next
<1> QED
  BY <1>1, <1>2

(* The path cache gives no wrong answer, for any number of tracees that    *)
(* look paths up while PRoot writes: a hit of local_jit_shm_lookup is a    *)
(* host path the cache held for that guest path since the lookup began.    *)
THEOREM HitsAreCurrent == ASSUME Ordered PROVE J!Spec => []J!HitIsCurrent
<1>1. J!Init => JitInv
  BY JitInitInv
<1>2. JitInv /\ [J!Next]_(J!vars) => JitInv'
  BY JitNextInv
<1>3. JitInv => J!HitIsCurrent
  BY DEF JitInv, LookupsPart, LookupOK, J!HitIsCurrent
<1> QED
  BY <1>1, <1>2, <1>3, PTL DEF J!Spec

-----------------------------------------------------------------------------
(* What the theorem about Ports asks: the known errors (Quirks) are left   *)
(* out, ports are numbers other than 0, the table has entries.             *)
PortsUsual ==
  /\ Quirks = {} /\ PORTMAP_SIZE \in Nat \ {0}
  /\ Asked \subseteq Nat \ {0} /\ Ephemeral \subseteq Nat \ {0}
  /\ Given \subseteq (Nat \ {0}) \X (Nat \ {0})
  /\ PORT_THRESHOLD \in Nat /\ PORT_ADDITION \in Nat

Slots == 0 .. PORTMAP_SIZE - 1
Tables == [Slots -> [port_in : Nat, port_out : Nat]]

(* Every entry is found where its port hashes to.                          *)
Findable(m) ==
  \A i \in Slots : m[i].port_in # 0 => m[i].port_out # 0 /\ P!get_index(m, m[i].port_in) = i

(* The host's port for the guest's.                                        *)
Lead(p) == P!Destination("connect", "inet", p)

Own(t) == <<t, calling[t].fd>>
SockType == [asked : Asked, bound : Nat \ {0}, listens : BOOLEAN, told : BOOLEAN]

PortTypes ==
  /\ mode \in {"map", "netcoop", "switch"} /\ map \in Tables /\ Findable(map)
  /\ DOMAIN socks \subseteq Tracees \X Fds
  /\ \A s \in DOMAIN socks : socks[s] \in SockType

(* The port that is pending is not in the table, which has room for it, and *)
(* its owner is a socket or about to be one.                               *)
PendingPart ==
  /\ ~pending.need => pending = P!Settled
  /\ pending.need => /\ mode = "netcoop" /\ pending.old_port \in Asked
                     /\ P!Unknown(pending.old_port) /\ ~P!Full
  /\ \A t \in Tracees, fd \in Fds : pending.owner = <<t, fd>> =>
       /\ pending.sockfd = fd
       /\ <<t, fd>> \in DOMAIN socks \/ (calling[t].name = "bind" /\ calling[t].fd = fd)

(* A bind on its way, and a listen.                                        *)
BindOK(t) ==
  calling[t].name = "bind" =>
    /\ calling[t].fd \in Fds /\ calling[t].asked \in Asked /\ calling[t].stage = "kernel"
    /\ Own(t) \notin DOMAIN socks
    /\ calling[t].port = IF pending.owner = Own(t) THEN 0 ELSE Lead(calling[t].asked)
    /\ pending.owner = Own(t) => calling[t].asked = pending.old_port
    /\ P!Unknown(calling[t].asked) => \A s \in DOMAIN socks : socks[s].asked # calling[t].asked
    /\ \A u \in Tracees : u # t => calling[u].asked # calling[t].asked
ListenOK(t) ==
  calling[t].name = "listen" =>
    /\ calling[t].fd \in Fds /\ calling[t].asked = 0 /\ Own(t) \in DOMAIN socks
    /\ calling[t].stage \in {"kernel", "chained"} /\ (calling[t].stage = "chained" => calling[t].chain)
    /\ calling[t].chain \in BOOLEAN /\ (calling[t].chain <=> pending.owner = Own(t))
CallPart ==
  /\ DOMAIN calling = Tracees
  /\ \A t \in Tracees : /\ calling[t].name \notin {"bind", "listen"} => calling[t] = P!Idle
                        /\ BindOK(t) /\ ListenOK(t)

(* A socket whose port is pending is not known to listen; every other one  *)
(* has the port that the guest's leads to.                                 *)
SockOK(s) ==
  /\ socks[s].told => socks[s].listens
  /\ IF pending.owner = s
     THEN socks[s].asked = pending.old_port /\ (socks[s].listens => P!InListen(s))
     ELSE socks[s].bound = Lead(socks[s].asked)
  /\ \A u \in DOMAIN socks : s # u => socks[s].asked # socks[u].asked
SockPart == \A s \in DOMAIN socks : SockOK(s)

PortInv ==
  /\ PortTypes /\ PendingPart /\ CallPart /\ SockPart
  /\ extension = "set" \/ (extension = "freed" /\ mode # "netcoop")

-----------------------------------------------------------------------------
(* The table of ports.  A key stops at the first slot that fits it.        *)
FirstStop(m, key, k) == k \in Slots /\ P!Stops(m, key, k) /\ \A j \in 0 .. k - 1 : ~P!Stops(m, key, j)

LEMMA ProbeIsSlot ==
  ASSUME PortsUsual, NEW key \in Nat, NEW i \in Slots
  PROVE  P!Probe(key, i) \in Slots
<1>1. PORTMAP_SIZE \in Nat \ {0} /\ key + i \in Nat
  BY DEF PortsUsual, Slots
<1>2. (key + i) % PORTMAP_SIZE \in 0 .. PORTMAP_SIZE - 1
  BY <1>1
<1> QED BY <1>2 DEF P!Probe, Slots

LEMMA IndexIs ==
  ASSUME PortsUsual, NEW m, NEW key, NEW k, FirstStop(m, key, k)
  PROVE  P!get_index(m, key) = P!Probe(key, k)
<1> DEFINE Fits(i) == P!Stops(m, key, i) /\ \A j \in 0 .. i - 1 : ~P!Stops(m, key, j)
<1> PORTMAP_SIZE \in Nat \ {0}
  BY DEF PortsUsual
<1>1. k \in Slots /\ Fits(k)
  BY DEF FirstStop
<1>2. \A i \in Slots : Fits(i) => i = k
  BY <1>1 DEF Slots
<1>3. (CHOOSE i \in Slots : Fits(i)) = k
  BY <1>1, <1>2
<1> QED BY <1>1, <1>3 DEF P!get_index, Slots

LEMMA IndexFound ==
  ASSUME PortsUsual, NEW m, NEW key, NEW i \in Slots, P!Stops(m, key, i)
  PROVE  \E k \in Slots : FirstStop(m, key, k)
<1> DEFINE T == {j \in Slots : P!Stops(m, key, j)}
<1> PORTMAP_SIZE \in Nat \ {0}
  BY DEF PortsUsual
<1>1. T \subseteq Nat /\ T # {}
  BY DEF Slots
<1>2. \E x \in T : \A y \in T : ~(<<y, x>> \in OpToRel(<, Nat))
  BY <1>1, NatLessThanWellFounded, WFMin
<1>3. PICK x \in T : \A y \in T : ~(<<y, x>> \in OpToRel(<, Nat))
  BY <1>2
<1>4. \A y \in T : ~(y < x)
  BY <1>1, <1>3 DEF OpToRel
<1>5. \A j \in 0 .. x - 1 : j \in Slots /\ j < x
  BY <1>1 DEF Slots
<1> QED BY <1>4, <1>5 DEF FirstStop

(* Where get_index leads: a slot that is empty or holds the key; nowhere   *)
(* if no slot on the way does.                                             *)
LEMMA IndexType ==
  ASSUME PortsUsual, NEW m, NEW key \in Nat
  PROVE  \/ /\ P!get_index(m, key) \in Slots
            /\ P!get_index(m, key) # PORTMAP_SIZE
            /\ m[P!get_index(m, key)].port_in \in {0, key}
            /\ \E k \in Slots : FirstStop(m, key, k)
         \/ /\ P!get_index(m, key) = PORTMAP_SIZE
            /\ \A i \in Slots : ~P!Stops(m, key, i)
<1>1. CASE \E i \in Slots : P!Stops(m, key, i)
  <2>1. PICK k \in Slots : FirstStop(m, key, k)
    BY <1>1, IndexFound
  <2>2. P!get_index(m, key) = P!Probe(key, k) /\ P!Probe(key, k) \in Slots
    BY <2>1, IndexIs, ProbeIsSlot
  <2>3. m[P!Probe(key, k)].port_in \in {0, key}
    BY <2>1 DEF FirstStop, P!Stops, P!PORTMAP_DEFAULT_VALUE
  <2>4. P!Probe(key, k) # PORTMAP_SIZE
    BY <2>2 DEF Slots, PortsUsual
  <2> QED BY <2>1, <2>2, <2>3, <2>4
<1>2. CASE ~\E i \in Slots : P!Stops(m, key, i)
  BY <1>2 DEF P!get_index, Slots
<1> QED BY <1>1, <1>2

(* Counting on from p, modulo S, comes by every number below S.            *)
LEMMA Multiple ==
  ASSUME NEW a \in Int, NEW S \in Nat \ {0}, a >= 1
  PROVE  a * S >= S
  OBVIOUS

LEMMA ModIs ==
  ASSUME NEW S \in Nat \ {0}, NEW d \in Int, NEW s \in 0 .. S - 1
  PROVE  (d * S + s) % S = s
<1> DEFINE n == d * S + s
           q == n \div S
           r == n % S
<1>1. n \in Int /\ q \in Int /\ r \in 0 .. S - 1
  OBVIOUS
<1>2. n = S * q + r
  OBVIOUS
<1>3. (q - d) * S = s - r
  BY <1>1, <1>2
<1>4. ~(q - d >= 1)
  BY <1>1, <1>3, Multiple
<1>5. ~(d - q >= 1)
  BY <1>1, <1>3, Multiple
<1> QED BY <1>1, <1>2, <1>4, <1>5

LEMMA ModAdd ==
  ASSUME NEW S \in Nat \ {0}, NEW p \in Nat, NEW s \in 0 .. S - 1
  PROVE  \E i \in 0 .. S - 1 : (p + i) % S = s
<1> DEFINE d == p \div S
           r == p % S
<1>1. d \in Int /\ r \in 0 .. S - 1 /\ p = d * S + r
  OBVIOUS
<1>2. CASE r <= s
  <2>1. s - r \in 0 .. S - 1 /\ p + (s - r) = d * S + s
    BY <1>1, <1>2
  <2>2. (d * S + s) % S = s
    BY <1>1, ModIs
  <2> QED BY <2>1, <2>2
<1>3. CASE s < r
  <2>1. s - r + S \in 0 .. S - 1 /\ p + (s - r + S) = (d + 1) * S + s
    BY <1>1, <1>3
  <2>2. \A e \in Int : (e * S + s) % S = s
    BY ModIs
  <2>3. d + 1 \in Int
    BY <1>1
  <2> HIDE DEF d, r
  <2>4. ((d + 1) * S + s) % S = s
    BY <2>2, <2>3
  <2> QED BY <2>1, <2>4
<1> QED BY <1>1, <1>2, <1>3

(* An entry added for a port that is in none leaves the others where they  *)
(* are found.                                                              *)
LEMMA EntryAdded ==
  ASSUME PortsUsual, NEW m \in Tables, Findable(m), NEW p \in Nat \ {0}, NEW h \in Nat \ {0},
         P!get_port(m, p) = 0, \E i \in Slots : m[i].port_in = 0
  PROVE  /\ P!add_entry(m, p, h) \in Tables /\ Findable(P!add_entry(m, p, h))
         /\ P!get_port(P!add_entry(m, p, h), p) = h
         /\ \A q \in Nat \ {0} : q # p => P!get_port(P!add_entry(m, p, h), q) = P!get_port(m, q)
<1> DEFINE x == P!get_index(m, p)
           n == P!add_entry(m, p, h)
<1> USE DEF P!PORTMAP_DEFAULT_VALUE
<1>1. x \in Slots /\ x # PORTMAP_SIZE /\ m[x].port_in = 0 /\ \E k \in Slots : FirstStop(m, p, k)
  <2>1. x \in Slots /\ x # PORTMAP_SIZE /\ m[x].port_in \in {0, p} /\ \E k \in Slots : FirstStop(m, p, k)
    <3> SUFFICES ASSUME \A i \in Slots : ~P!Stops(m, p, i) PROVE FALSE
      BY IndexType
    <3>1. PICK s \in Slots : m[s].port_in = 0
      OBVIOUS
    <3>2. \E i \in Slots : P!Probe(p, i) = s
      BY <3>1, ModAdd DEF PortsUsual, Slots, P!Probe
    <3> QED BY <3>1, <3>2 DEF P!Stops
  <2>2. m[x].port_in # p
    <3> SUFFICES ASSUME m[x].port_in = p PROVE FALSE
      OBVIOUS
    <3>1. m[x].port_out # 0
      BY <2>1 DEF Findable
    <3> QED BY <2>1, <3>1 DEF P!get_port
  <2> QED BY <2>1, <2>2
<1>2. n = [m EXCEPT ![x] = [port_in |-> p, port_out |-> h]]
  BY <1>1 DEF P!add_entry
<1>3. n \in Tables
  BY <1>1, <1>2 DEF Tables
<1>4. n[x] = [port_in |-> p, port_out |-> h] /\ \A y \in Slots : y # x => n[y] = m[y]
  BY <1>1, <1>2 DEF Tables
(* A key other than p that is in the table or does not come by x.          *)
<1>5. ASSUME NEW q \in Nat \ {0}, NEW k \in Slots, FirstStop(m, q, k), P!Probe(q, k) # x
      PROVE  P!get_index(n, q) = P!get_index(m, q)
  <2>1. \A j \in 0 .. k : j \in Slots /\ P!Probe(q, j) \in Slots
    <3>1. \A j \in 0 .. k : j \in Slots
      BY DEF Slots, PortsUsual
    <3> QED BY <3>1, ProbeIsSlot
  <2>2. P!Stops(n, q, k)
    BY <1>4, <1>5, <2>1 DEF FirstStop, P!Stops, Slots
  <2>3. ASSUME NEW j \in 0 .. k - 1 PROVE ~P!Stops(n, q, j)
    <3>1. ~P!Stops(m, q, j) /\ P!Probe(q, j) \in Slots
      BY <1>5, <2>1, <2>3 DEF FirstStop, Slots
    <3>2. P!Probe(q, j) # x
      BY <1>1, <3>1 DEF P!Stops
    <3> QED BY <1>4, <3>1, <3>2 DEF P!Stops
  <2>4. FirstStop(n, q, k)
    BY <2>2, <2>3 DEF FirstStop
  <2> QED BY <1>5, <2>4, IndexIs
<1>6. P!get_index(n, p) = x
  <2>1. PICK k \in Slots : FirstStop(m, p, k)
    BY <1>1
  <2>2. \A j \in 0 .. k : j \in Slots /\ P!Probe(p, j) \in Slots
    <3>1. \A j \in 0 .. k : j \in Slots
      BY <2>1 DEF FirstStop, Slots, PortsUsual
    <3> QED BY <3>1, ProbeIsSlot
  <2>3. P!Probe(p, k) = x
    BY <2>1, IndexIs
  <2>4. P!Stops(n, p, k)
    BY <1>4, <2>3 DEF P!Stops
  <2>5. ASSUME NEW j \in 0 .. k - 1 PROVE ~P!Stops(n, p, j)
    <3>1. ~P!Stops(m, p, j) /\ P!Probe(p, j) \in Slots
      BY <2>1, <2>2, <2>5 DEF FirstStop, Slots
    <3>2. P!Probe(p, j) # x
      BY <1>1, <3>1 DEF P!Stops
    <3> QED BY <1>4, <3>1, <3>2 DEF P!Stops
  <2>6. FirstStop(n, p, k)
    BY <2>4, <2>5 DEF FirstStop
  <2> QED BY <2>3, <2>6, IndexIs
<1>7. \A i \in Slots : m[i].port_in # 0 => m[i].port_in # p /\ m[i].port_in \in Nat
  <2> SUFFICES ASSUME NEW i \in Slots, m[i].port_in = p PROVE FALSE
    BY DEF Tables
  <2>1. x = i
    BY DEF Findable
  <2> QED BY <1>1, <2>1
<1>8. Findable(n)
  <2> SUFFICES ASSUME NEW i \in Slots, n[i].port_in # 0
               PROVE  n[i].port_out # 0 /\ P!get_index(n, n[i].port_in) = i
    BY DEF Findable
  <2>1. CASE i = x
    BY <1>4, <1>6, <2>1
  <2>2. CASE i # x
    <3> DEFINE q == m[i].port_in
    <3>1. n[i] = m[i] /\ q # 0 /\ q \in Nat /\ m[i].port_out # 0 /\ P!get_index(m, q) = i
      BY <1>4, <1>7, <2>2 DEF Findable
    <3>2. \E k \in Slots : FirstStop(m, q, k)
      BY <3>1, IndexType DEF Slots, PortsUsual
    <3>3. PICK k \in Slots : FirstStop(m, q, k)
      BY <3>2
    <3>4. P!Probe(q, k) = i
      BY <3>1, <3>3, IndexIs
    <3>5. P!get_index(n, q) = i
      BY <1>5, <2>2, <3>1, <3>3, <3>4
    <3> QED BY <3>1, <3>5
  <2> QED BY <2>1, <2>2
<1>9. P!get_port(n, p) = h
  BY <1>1, <1>4, <1>6 DEF P!get_port
<1>10. ASSUME NEW q \in Nat \ {0}, q # p PROVE P!get_port(n, q) = P!get_port(m, q)
  <2>1. CASE \E k \in Slots : FirstStop(m, q, k) /\ P!Probe(q, k) # x
    <3>1. PICK k \in Slots : FirstStop(m, q, k) /\ P!Probe(q, k) # x
      BY <2>1
    <3>2. P!get_index(n, q) = P!get_index(m, q) /\ P!get_index(m, q) = P!Probe(q, k) /\ P!Probe(q, k) \in Slots
      BY <1>5, <3>1, IndexIs, ProbeIsSlot
    <3> QED BY <1>4, <3>1, <3>2 DEF P!get_port
  <2>2. CASE \A k \in Slots : FirstStop(m, q, k) => P!Probe(q, k) = x
    (* It is in neither table.                                             *)
    <3>1. P!get_port(m, q) = 0
      BY <1>1, <2>2, IndexType, IndexIs DEF P!get_port
    <3>2. P!get_index(n, q) # PORTMAP_SIZE => P!get_index(n, q) \in Slots
      BY IndexType
    <3>3. ASSUME P!get_index(n, q) \in Slots, n[P!get_index(n, q)].port_in = q PROVE FALSE
      <4> DEFINE z == P!get_index(n, q)
      <4>1. z # x /\ m[z].port_in = q
        BY <1>4, <1>10, <3>3
      <4>2. P!get_index(m, q) = z
        BY <3>3, <4>1 DEF Findable
      <4>3. \E k \in Slots : FirstStop(m, q, k)
        BY <3>3, <4>2, IndexType DEF Slots, PortsUsual
      <4> QED BY <2>2, <4>1, <4>2, <4>3, IndexIs
    <3> QED BY <3>1, <3>2, <3>3 DEF P!get_port
  <2> QED BY <2>1, <2>2
<1> QED BY <1>3, <1>8, <1>9, <1>10

-----------------------------------------------------------------------------
(* The port of the host for one of the guest.                              *)
LEMMA LeadIs ==
  ASSUME NEW p, NEW f
  PROVE  /\ Lead(p) = IF mode = "switch" THEN P!mod_port(p) ELSE IF P!Unknown(p) THEN p ELSE P!get_port(map, p)
         /\ P!Destination("connect", f, p) = Lead(p)
         /\ P!Destination("sendto", "inet", p) = IF mode = "switch" THEN Lead(p) ELSE p
BY DEF Lead, P!Destination, P!Unknown, P!Written

LEMMA LeadType ==
  ASSUME PortsUsual, PortTypes, NEW p \in Asked
  PROVE  Lead(p) \in Nat \ {0}
<1>1. p \in Nat \ {0} /\ P!mod_port(p) \in Nat \ {0}
  BY DEF PortsUsual, P!mod_port
<1>2. ~P!Unknown(p) => P!get_port(map, p) \in Nat \ {0}
  BY <1>1, IndexType DEF P!Unknown, P!get_port, P!PORTMAP_DEFAULT_VALUE, PortTypes, Tables
<1> QED BY <1>1, <1>2, LeadIs

(* What depends on the table only.                                         *)
LEMMA SameTable ==
  ASSUME map' = map, mode' = mode
  PROVE  /\ \A p : Lead(p)' = Lead(p) /\ (P!Unknown(p)' <=> P!Unknown(p))
         /\ P!Full' <=> P!Full
         /\ Findable(map)' <=> Findable(map)
<1>1. \A p : P!get_port(map, p)' = P!get_port(map, p)
  BY DEF P!get_port, P!get_index, P!Stops, P!Probe
<1>2. \A p : P!mod_port(p)' = P!mod_port(p)
  BY DEF P!mod_port
<1>3. \A p : P!Unknown(p)' <=> P!Unknown(p)
  BY <1>1 DEF P!Unknown
<1>4. \A p : Lead(p)' = Lead(p)
  BY <1>1, <1>2 DEF Lead, P!Destination, P!Written
<1> QED BY <1>3, <1>4 DEF P!Full, Findable

LEMMA PortInitInv ==
  ASSUME PortsUsual, P!Init
  PROVE  PortInv
<1> USE DEF P!PORTMAP_DEFAULT_VALUE
<1>1. PICK g \in SUBSET Given :
        map = [i \in Slots |->
                 IF \E e \in g : e[1] % PORTMAP_SIZE = i
                 THEN LET e == CHOOSE e \in g : e[1] % PORTMAP_SIZE = i IN [port_in |-> e[1], port_out |-> e[2]]
                 ELSE P!Empty]
  BY DEF P!Init, Slots
<1>2. ASSUME NEW i \in Slots
      PROVE  \/ map[i] = [port_in |-> 0, port_out |-> 0]
             \/ \E a, b \in Nat \ {0} : map[i] = [port_in |-> a, port_out |-> b] /\ a % PORTMAP_SIZE = i
  <2>1. CASE \E e \in g : e[1] % PORTMAP_SIZE = i
    <3> DEFINE e == CHOOSE e \in g : e[1] % PORTMAP_SIZE = i
    <3>1. e \in g /\ e[1] % PORTMAP_SIZE = i
      BY <2>1
    <3>2. e \in (Nat \ {0}) \X (Nat \ {0})
      BY <3>1 DEF PortsUsual
    <3>3. map[i] = [port_in |-> e[1], port_out |-> e[2]]
      BY <1>1, <2>1
    <3> HIDE DEF e
    <3> QED BY <3>1, <3>2, <3>3
  <2>2. CASE ~\E e \in g : e[1] % PORTMAP_SIZE = i
    BY <1>1, <2>2 DEF P!Empty
  <2> QED BY <2>1, <2>2
<1>3. map \in Tables
  <2>1. ASSUME NEW i \in Slots PROVE map[i] \in [port_in : Nat, port_out : Nat]
    <3>1. CASE map[i] = [port_in |-> 0, port_out |-> 0]
      BY <3>1
    <3>2. ASSUME NEW a \in Nat \ {0}, NEW b \in Nat \ {0}, map[i] = [port_in |-> a, port_out |-> b]
          PROVE  map[i] \in [port_in : Nat, port_out : Nat]
      BY <3>2
    <3> QED BY <1>2, <3>1, <3>2
  <2>2. map = [i \in Slots |-> map[i]]
    BY <1>1
  <2> QED BY <2>1, <2>2 DEF Tables
<1>4. Findable(map)
  <2> SUFFICES ASSUME NEW i \in Slots, map[i].port_in # 0
               PROVE  map[i].port_out # 0 /\ P!get_index(map, map[i].port_in) = i
    BY DEF Findable
  <2>0. map[i] # [port_in |-> 0, port_out |-> 0]
    OBVIOUS
  <2>1. PICK a \in Nat \ {0}, b \in Nat \ {0} : map[i] = [port_in |-> a, port_out |-> b] /\ a % PORTMAP_SIZE = i
    BY <1>2, <2>0
  <2>2. P!Probe(a, 0) = i
    BY <2>1 DEF P!Probe
  <2>3. FirstStop(map, a, 0)
    BY <2>1, <2>2 DEF FirstStop, P!Stops, Slots, PortsUsual
  <2> QED BY <2>1, <2>2, <2>3, IndexIs
<1>5. DOMAIN socks = {} /\ mode \in {"map", "netcoop", "switch"} /\ extension = "set" /\ pending = P!Settled
      /\ calling = [t \in Tracees |-> P!Idle]
  BY DEF P!Init
<1>6. PortTypes
  BY <1>3, <1>4, <1>5 DEF PortTypes
<1>7. PendingPart
  BY <1>5 DEF PendingPart, P!Settled
<1>8. CallPart
  BY <1>5 DEF CallPart, BindOK, ListenOK, P!Idle
<1>9. SockPart
  BY <1>5 DEF SockPart
<1> QED BY <1>5, <1>6, <1>7, <1>8, <1>9 DEF PortInv

-----------------------------------------------------------------------------
LEMMA BindKeeps ==
  ASSUME PortsUsual, PortInv, NEW t \in Tracees, NEW fd \in Fds, NEW p \in Asked, P!Bind(t, fd, p)
  PROVE  PortInv'
<1> DEFINE s == <<t, fd>>
           owner == IF P!Cooperates(p) THEN s ELSE pending.owner
<1>1. /\ calling[t] = P!Idle /\ s \notin DOMAIN socks
      /\ P!Unknown(p) => \A u \in DOMAIN socks : socks[u].asked # p
      /\ \A u \in Tracees : u # t => calling[u].asked # p
      /\ P!Cooperates(p) => ~P!Full
      /\ calling' = [calling EXCEPT ![t] = [P!Idle EXCEPT !.name = "bind", !.fd = fd, !.asked = p, !.port = P!HostPort(p), !.stage = "kernel"]]
      /\ pending' = IF P!Cooperates(p) THEN [need |-> TRUE, old_port |-> p, sockfd |-> fd, owner |-> s] ELSE pending
      /\ mode' = mode /\ map' = map /\ extension' = extension /\ socks' = socks
  BY DEF P!Bind, PortsUsual
<1>2. /\ \A q : Lead(q)' = Lead(q) /\ (P!Unknown(q)' <=> P!Unknown(q))
      /\ P!Full' <=> P!Full
      /\ Findable(map)' <=> Findable(map)
  BY <1>1, SameTable
<1>3. P!Cooperates(p) => mode = "netcoop" /\ P!Unknown(p) /\ ~pending.need /\ pending = P!Settled
  BY DEF P!Cooperates, PortInv, PendingPart
<1>4. DOMAIN calling = Tracees /\ calling[t].name = "none" /\ calling[t].asked = 0
  BY <1>1 DEF PortInv, CallPart, P!Idle
<1>5. /\ calling'[t].name = "bind" /\ calling'[t].fd = fd /\ calling'[t].asked = p /\ calling'[t].stage = "kernel"
      /\ calling'[t].port = P!HostPort(p) /\ Own(t)' = s
      /\ \A u \in Tracees : u # t => calling'[u] = calling[u] /\ Own(u)' = Own(u) /\ Own(u) # s
      /\ DOMAIN calling' = Tracees
  BY <1>1, <1>4 DEF P!Idle, Own
<1>6. pending.owner # s
  BY <1>1, <1>4 DEF PortInv, PendingPart
<1>7. pending'.owner = owner /\ P!Settled.owner = <<>> /\ (P!Cooperates(p) => pending.owner = <<>>)
  BY <1>1, <1>3 DEF P!Settled
<1>8. P!HostPort(p) = IF pending'.owner = s THEN 0 ELSE Lead(p)
  BY <1>3, <1>6, <1>7, LeadIs DEF P!HostPort
<1>9. PortTypes'
  BY <1>1, <1>2 DEF PortInv, PortTypes
<1>10. PendingPart'
  <2>1. CASE P!Cooperates(p)
    <3>1. pending' = [need |-> TRUE, old_port |-> p, sockfd |-> fd, owner |-> s]
      BY <1>1, <2>1
    <3> QED BY <1>1, <1>2, <1>3, <1>5, <2>1, <3>1 DEF PendingPart
  <2>2. CASE ~P!Cooperates(p)
    <3>1. pending' = pending
      BY <1>1, <2>2
    <3> QED BY <1>1, <1>2, <1>4, <1>5, <3>1 DEF PortInv, PendingPart, P!Settled
  <2> QED BY <2>1, <2>2
<1>11. \A u \in Tracees : u # t => (pending'.owner = Own(u) <=> pending.owner = Own(u))
  <2> SUFFICES ASSUME NEW u \in Tracees, u # t PROVE pending'.owner = Own(u) <=> pending.owner = Own(u)
    OBVIOUS
  <2>1. Own(u) # s /\ Own(u) # <<>>
    BY <1>5 DEF Own
  <2> QED BY <1>7, <2>1
<1>12. CallPart'
  <2>1. BindOK(t)'
    <3>1. pending'.owner = s => p = pending'.old_port
      BY <1>1, <1>6
    <3> QED BY <1>1, <1>2, <1>5, <1>8, <3>1 DEF BindOK
  <2>2. ListenOK(t)' /\ calling'[t].name \in {"bind", "listen"}
    BY <1>5 DEF ListenOK
  <2>3. ASSUME NEW u \in Tracees, u # t PROVE BindOK(u)'
    <3> SUFFICES ASSUME calling[u].name = "bind" PROVE BindOK(u)'
      BY <1>5, <2>3 DEF BindOK
    <3>1. BindOK(u)
      BY DEF PortInv, CallPart
    <3>2. pending.owner = Own(u) => pending'.old_port = pending.old_port
      BY <1>1, <1>7 DEF Own
    <3>3. \A v \in Tracees : v # u => calling'[v].asked # calling[u].asked
      BY <1>1, <1>5, <2>3, <3>1 DEF BindOK
    <3> QED BY <1>1, <1>2, <1>5, <1>11, <2>3, <3>1, <3>2, <3>3 DEF BindOK
  <2>4. ASSUME NEW u \in Tracees, u # t PROVE ListenOK(u)'
    <3>1. ListenOK(u)
      BY DEF PortInv, CallPart
    <3> QED BY <1>1, <1>5, <1>11, <2>4, <3>1 DEF ListenOK
  <2>5. \A u \in Tracees : calling'[u].name \notin {"bind", "listen"} => calling'[u] = P!Idle
    BY <1>5 DEF PortInv, CallPart
  <2> QED BY <1>5, <2>1, <2>2, <2>3, <2>4, <2>5 DEF CallPart, P!Idle
<1>13. SockPart'
  <2> SUFFICES ASSUME NEW v \in DOMAIN socks PROVE SockOK(v)'
    BY <1>1 DEF SockPart
  <2>1. v # s /\ v \in Tracees \X Fds /\ v # <<>>
    BY <1>1 DEF PortInv, PortTypes
  <2>2. pending'.owner = v <=> pending.owner = v
    BY <1>7, <2>1
  <2>3. pending.owner = v => pending' = pending
    BY <1>1, <1>7, <2>1
  <2>4. P!InListen(v) => P!InListen(v)'
    BY <1>4, <1>5, <2>1 DEF P!InListen
  <2>5. SockOK(v)
    BY DEF PortInv, SockPart
  <2> QED BY <1>1, <1>2, <2>2, <2>3, <2>4, <2>5 DEF SockOK
<1> QED BY <1>1, <1>9, <1>10, <1>12, <1>13 DEF PortInv

LEMMA BindKernelKeeps ==
  ASSUME PortsUsual, PortInv, NEW t \in Tracees, P!BindKernel(t)
  PROVE  PortInv'
<1> DEFINE s == Own(t)
           p == calling[t].asked
<1>1. /\ calling[t].name = "bind" /\ calling' = [calling EXCEPT ![t] = P!Idle]
      /\ mode' = mode /\ map' = map /\ pending' = pending /\ extension' = extension
  BY DEF P!BindKernel
<1>2. /\ \A q : Lead(q)' = Lead(q) /\ (P!Unknown(q)' <=> P!Unknown(q))
      /\ P!Full' <=> P!Full
      /\ Findable(map)' <=> Findable(map)
  BY <1>1, SameTable
<1>3. /\ calling[t].fd \in Fds /\ p \in Asked /\ s \notin DOMAIN socks /\ s \in Tracees \X Fds /\ s # <<>>
      /\ calling[t].port = IF pending.owner = s THEN 0 ELSE Lead(p)
      /\ pending.owner = s => p = pending.old_port
      /\ P!Unknown(p) => \A u \in DOMAIN socks : socks[u].asked # p
      /\ \A u \in Tracees : u # t => calling[u].asked # p
      /\ Lead(p) \in Nat \ {0}
  BY <1>1, LeadType DEF PortInv, CallPart, BindOK, Own
<1>4. \/ socks' = socks /\ pending.owner # s
      \/ \E h \in Nat \ {0} :
           /\ \A u \in DOMAIN socks : socks[u].bound # h
           /\ pending.owner # s => h = Lead(p)
           /\ socks' = [u \in DOMAIN socks \cup {s} |->
                          IF u = s THEN [asked |-> p, bound |-> h, listens |-> FALSE, told |-> FALSE] ELSE socks[u]]
  <2> DEFINE ports == (IF calling[t].port = 0 THEN Ephemeral ELSE {calling[t].port}) \ P!Used
  <2>1. \/ socks' = socks /\ pending.owner # s
        \/ \E h \in ports :
             socks' = [u \in DOMAIN socks \cup {s} |->
                          IF u = s THEN [asked |-> p, bound |-> h, listens |-> FALSE, told |-> FALSE] ELSE socks[u]]
    BY DEF P!BindKernel, Own, PortsUsual
  <2>2. ASSUME NEW h \in ports
        PROVE  h \in Nat \ {0} /\ (\A u \in DOMAIN socks : socks[u].bound # h) /\ (pending.owner # s => h = Lead(p))
    BY <1>3, <2>2 DEF P!Used, PortsUsual
  <2> QED BY <2>1, <2>2
<1>5. /\ DOMAIN calling = Tracees /\ DOMAIN calling' = Tracees /\ calling'[t] = P!Idle
      /\ \A u \in Tracees : u # t => calling'[u] = calling[u] /\ Own(u)' = Own(u) /\ Own(u) # s
  BY <1>1 DEF PortInv, CallPart, Own
<1>6. DOMAIN socks \subseteq DOMAIN socks' /\ DOMAIN socks' \subseteq DOMAIN socks \cup {s}
      /\ \A v \in DOMAIN socks : socks'[v] = socks[v]
  BY <1>3, <1>4
<1>7. PortTypes'
  <2>1. ASSUME NEW v \in DOMAIN socks' PROVE socks'[v] \in SockType
    <3>1. CASE v \in DOMAIN socks
      BY <1>6, <3>1 DEF PortInv, PortTypes
    <3>2. CASE v \notin DOMAIN socks
      <4>1. PICK h \in Nat \ {0} : socks'[v] = [asked |-> p, bound |-> h, listens |-> FALSE, told |-> FALSE]
        BY <1>4, <1>6, <2>1, <3>2
      <4> HIDE DEF p
      <4> QED BY <1>3, <4>1 DEF SockType
    <3> QED BY <3>1, <3>2
  <2> QED BY <1>1, <1>2, <1>3, <1>6, <2>1 DEF PortInv, PortTypes
<1>8. PendingPart'
  <2>1. ASSUME NEW u \in Tracees, NEW fd \in Fds, pending.owner = <<u, fd>>
        PROVE  pending.sockfd = fd /\ (<<u, fd>> \in DOMAIN socks' \/ (calling'[u].name = "bind" /\ calling'[u].fd = fd))
    <3>1. pending.sockfd = fd /\ (<<u, fd>> \in DOMAIN socks \/ (calling[u].name = "bind" /\ calling[u].fd = fd))
      BY <2>1 DEF PortInv, PendingPart
    <3>2. CASE <<u, fd>> = s
      BY <1>4, <2>1, <3>1, <3>2
    <3>3. CASE <<u, fd>> # s /\ u = t
      BY <1>6, <3>1, <3>3 DEF Own
    <3>4. CASE u # t
      BY <1>5, <1>6, <3>1, <3>4
    <3> QED BY <3>2, <3>3, <3>4
  <2> QED BY <1>1, <1>2, <2>1 DEF PortInv, PendingPart, P!Settled
<1>9. CallPart'
  <2>1. ASSUME NEW u \in Tracees, u # t PROVE BindOK(u)'
    <3> SUFFICES ASSUME calling[u].name = "bind" PROVE BindOK(u)'
      BY <1>5, <2>1 DEF BindOK
    <3>1. BindOK(u)
      BY DEF PortInv, CallPart
    <3>2. Own(u) \notin DOMAIN socks'
      BY <1>5, <1>6, <2>1, <3>1 DEF BindOK
    <3>3. P!Unknown(calling[u].asked) => \A v \in DOMAIN socks' : socks'[v].asked # calling[u].asked
      BY <1>3, <1>4, <1>6, <2>1, <3>1 DEF BindOK
    <3>4. \A v \in Tracees : v # u => calling'[v].asked # calling[u].asked
      <4>1. calling[u].asked # 0
        BY <3>1 DEF BindOK, PortsUsual
      <4> QED BY <1>5, <3>1, <4>1 DEF BindOK, P!Idle
    <3> QED BY <1>1, <1>2, <1>5, <2>1, <3>1, <3>2, <3>3, <3>4 DEF BindOK
  <2>2. ASSUME NEW u \in Tracees, u # t PROVE ListenOK(u)'
    <3>1. ListenOK(u)
      BY DEF PortInv, CallPart
    <3> QED BY <1>1, <1>5, <1>6, <2>2, <3>1 DEF ListenOK
  <2>3. \A u \in Tracees : calling'[u].name \notin {"bind", "listen"} => calling'[u] = P!Idle
    BY <1>5 DEF PortInv, CallPart
  <2>4. BindOK(t)' /\ ListenOK(t)'
    BY <1>5 DEF BindOK, ListenOK, P!Idle
  <2> QED BY <1>5, <2>1, <2>2, <2>3, <2>4 DEF CallPart
<1>10. SockPart'
  <2>1. ASSUME NEW v \in DOMAIN socks PROVE SockOK(v) /\ (P!InListen(v) => P!InListen(v)')
    <3>1. v \in Tracees \X Fds
      BY DEF PortInv, PortTypes
    <3>2. P!InListen(v) => P!InListen(v)'
      BY <1>1, <1>5, <3>1 DEF P!InListen
    <3> QED BY <3>2 DEF PortInv, SockPart
  <2>2. CASE socks' = socks
    BY <1>1, <1>2, <2>1, <2>2 DEF SockPart, SockOK
  <2>3. ASSUME NEW h \in Nat \ {0},
               \A u \in DOMAIN socks : socks[u].bound # h,
               pending.owner # s => h = Lead(p),
               socks' = [u \in DOMAIN socks \cup {s} |->
                          IF u = s THEN [asked |-> p, bound |-> h, listens |-> FALSE, told |-> FALSE] ELSE socks[u]]
        PROVE  SockPart'
    <3>1. ASSUME NEW u \in DOMAIN socks PROVE socks[u].asked # p
      <4>1. CASE pending.owner = u
        <5>1. socks[u].asked = pending.old_port /\ pending.owner # <<>>
          BY <4>1 DEF PortInv, SockPart, SockOK, PortTypes
        <5>2. P!Unknown(pending.old_port)
          BY <5>1 DEF PortInv, PendingPart, P!Settled
        <5> QED BY <1>3, <5>1, <5>2
      <4>2. CASE pending.owner # u /\ pending.owner = s
        <5>1. p = pending.old_port /\ pending.owner # <<>>
          BY <1>3, <4>2
        <5>2. P!Unknown(p)
          BY <5>1 DEF PortInv, PendingPart, P!Settled
        <5> QED BY <1>3, <5>2
      <4>3. CASE pending.owner # u /\ pending.owner # s
        <5>1. socks[u].bound = Lead(socks[u].asked) /\ h = Lead(p)
          BY <2>3, <4>3 DEF PortInv, SockPart, SockOK
        <5> QED BY <2>3, <5>1
      <4> QED BY <4>1, <4>2, <4>3
    <3>2. \A v \in DOMAIN socks : v # s /\ socks'[v] = socks[v]
      BY <1>3, <2>3
    <3>3. socks'[s] = [asked |-> p, bound |-> h, listens |-> FALSE, told |-> FALSE]
      BY <2>3
    <3>4. DOMAIN socks' = DOMAIN socks \cup {s}
      BY <2>3
    <3>5. ASSUME NEW v \in DOMAIN socks PROVE SockOK(v)'
      <4>1. pending'.owner = v => socks[v].asked = pending'.old_port /\ (socks[v].listens => P!InListen(v)')
        BY <1>1, <2>1 DEF SockOK
      <4>2. pending'.owner # v => socks[v].bound = Lead(socks[v].asked)
        BY <1>1, <2>1 DEF SockOK
      <4>3. \A u \in DOMAIN socks' : v # u => socks'[v].asked # socks'[u].asked
        BY <2>1, <3>1, <3>2, <3>3, <3>4 DEF SockOK
      <4>4. socks'[v] = socks[v] /\ (socks[v].told => socks[v].listens)
        BY <2>1, <3>2 DEF SockOK
      <4> QED BY <1>2, <4>1, <4>2, <4>3, <4>4 DEF SockOK
    <3>6. PICK z, q : z = s /\ q = p
      OBVIOUS
    <3>7. SockOK(z)'
      <4>1. socks'[z].asked = q /\ socks'[z].bound = h /\ ~socks'[z].listens /\ ~socks'[z].told
        BY <3>3, <3>6
      <4>2. pending'.owner = z => q = pending'.old_port
        BY <1>1, <1>3, <3>6
      <4>3. pending'.owner # z => h = Lead(q)'
        BY <1>1, <1>2, <2>3, <3>6
      <4>4. \A u \in DOMAIN socks' : z # u => socks'[u].asked # q
        BY <3>1, <3>2, <3>4, <3>6
      <4> QED BY <4>1, <4>2, <4>3, <4>4 DEF SockOK
    <3>8. \A v \in DOMAIN socks' : v \in DOMAIN socks \/ v = z
      BY <3>4, <3>6
    <3> QED BY <3>5, <3>7, <3>8 DEF SockPart
  <2> QED BY <1>4, <2>2, <2>3
<1> QED BY <1>1, <1>7, <1>8, <1>9, <1>10 DEF PortInv

LEMMA ListenKeeps ==
  ASSUME PortsUsual, PortInv, NEW t \in Tracees, NEW fd \in Fds, P!Listen(t, fd)
  PROVE  PortInv'
<1> DEFINE chain == mode = "netcoop" /\ pending.need /\ fd = pending.sockfd
<1>1. /\ calling[t] = P!Idle /\ <<t, fd>> \in DOMAIN socks /\ ~socks[<<t, fd>>].listens
      /\ chain => pending.owner = <<t, fd>>
      /\ calling' = [calling EXCEPT ![t] = [P!Idle EXCEPT !.name = "listen", !.fd = fd, !.stage = "kernel", !.chain = chain]]
      /\ mode' = mode /\ map' = map /\ pending' = pending /\ extension' = extension /\ socks' = socks
  BY DEF P!Listen, PortsUsual
<1>2. /\ \A q : Lead(q)' = Lead(q) /\ (P!Unknown(q)' <=> P!Unknown(q))
      /\ P!Full' <=> P!Full
      /\ Findable(map)' <=> Findable(map)
  BY <1>1, SameTable
<1>3. DOMAIN calling = Tracees /\ calling[t].name = "none" /\ calling[t].asked = 0
  BY <1>1 DEF PortInv, CallPart, P!Idle
<1>4. /\ calling'[t].name = "listen" /\ calling'[t].fd = fd /\ calling'[t].asked = 0 /\ calling'[t].stage = "kernel"
      /\ calling'[t].chain = chain /\ Own(t)' = <<t, fd>>
      /\ \A u \in Tracees : u # t => calling'[u] = calling[u] /\ Own(u)' = Own(u)
      /\ DOMAIN calling' = Tracees
  BY <1>1, <1>3 DEF P!Idle, Own
<1>5. chain <=> pending.owner = <<t, fd>>
  BY <1>1 DEF PortInv, PendingPart, P!Settled
<1>6. PortTypes'
  BY <1>1, <1>2 DEF PortInv, PortTypes
<1>7. PendingPart'
  BY <1>1, <1>2, <1>3, <1>4 DEF PortInv, PendingPart, P!Settled
<1>8. CallPart'
  <2>1. BindOK(t)' /\ ListenOK(t)' /\ calling'[t].name = "listen"
    BY <1>1, <1>4, <1>5 DEF BindOK, ListenOK
  <2>2. ASSUME NEW u \in Tracees, u # t PROVE BindOK(u)' /\ ListenOK(u)'
    <3>1. BindOK(u) /\ ListenOK(u)
      BY DEF PortInv, CallPart
    <3>2. BindOK(u)'
      BY <1>1, <1>2, <1>3, <1>4, <2>2, <3>1 DEF BindOK
    <3>3. ListenOK(u)'
      BY <1>1, <1>4, <2>2, <3>1 DEF ListenOK
    <3> QED BY <3>2, <3>3
  <2>3. \A u \in Tracees : calling'[u].name \notin {"bind", "listen"} => calling'[u] = P!Idle
    BY <1>4 DEF PortInv, CallPart
  <2> QED BY <1>4, <2>1, <2>2, <2>3 DEF CallPart, P!Idle
<1>9. SockPart'
  <2> SUFFICES ASSUME NEW v \in DOMAIN socks PROVE SockOK(v)'
    BY <1>1 DEF SockPart
  <2>1. SockOK(v) /\ v \in Tracees \X Fds
    BY DEF PortInv, SockPart, PortTypes
  <2>2. P!InListen(v) => P!InListen(v)'
    BY <1>3, <1>4, <2>1 DEF P!InListen
  <2> QED BY <1>1, <1>2, <2>1, <2>2 DEF SockOK
<1> QED BY <1>1, <1>6, <1>7, <1>8, <1>9 DEF PortInv

LEMMA ListenKernelKeeps ==
  ASSUME PortsUsual, PortInv, NEW t \in Tracees, P!ListenKernel(t)
  PROVE  PortInv'
<1>0. PICK z : z = Own(t)
  OBVIOUS
<1>1. /\ calling[t].name = "listen" /\ calling[t].stage = "kernel"
      /\ socks' = [socks EXCEPT ![z] = [@ EXCEPT !.listens = TRUE, !.told = TRUE \/ calling[t].chain]]
      /\ calling' = [calling EXCEPT ![t] = IF @.chain THEN [@ EXCEPT !.stage = "chained"] ELSE P!Idle]
      /\ mode' = mode /\ map' = map /\ pending' = pending /\ extension' = extension
  BY <1>0 DEF P!ListenKernel, PortsUsual, Own
<1>2. /\ \A q : Lead(q)' = Lead(q) /\ (P!Unknown(q)' <=> P!Unknown(q))
      /\ P!Full' <=> P!Full
      /\ Findable(map)' <=> Findable(map)
  BY <1>1, SameTable
<1>3. /\ calling[t].fd \in Fds /\ calling[t].asked = 0 /\ z \in DOMAIN socks /\ z \in Tracees \X Fds /\ z[1] = t /\ z[2] = calling[t].fd
      /\ calling[t].chain \in BOOLEAN /\ (calling[t].chain <=> pending.owner = z)
      /\ DOMAIN calling = Tracees
  BY <1>0, <1>1 DEF PortInv, CallPart, ListenOK, Own
<1>4. /\ calling'[t] = IF calling[t].chain THEN [calling[t] EXCEPT !.stage = "chained"] ELSE P!Idle
      /\ \A u \in Tracees : u # t => calling'[u] = calling[u] /\ Own(u)' = Own(u)
      /\ DOMAIN calling' = Tracees
  BY <1>1, <1>3 DEF Own
<1>5. /\ DOMAIN socks' = DOMAIN socks
      /\ socks'[z] = [socks[z] EXCEPT !.listens = TRUE, !.told = TRUE \/ calling[t].chain]
      /\ \A v \in DOMAIN socks : v # z => socks'[v] = socks[v]
  BY <1>1, <1>3
<1>6. /\ socks[z] \in SockType /\ socks'[z] \in SockType
      /\ socks'[z].listens = TRUE /\ socks'[z].told = TRUE
      /\ socks'[z].asked = socks[z].asked /\ socks'[z].bound = socks[z].bound
  BY <1>3, <1>5 DEF PortInv, PortTypes, SockType
<1>7. /\ calling'[t].asked = 0 /\ calling'[t].name # "bind"
      /\ calling[t].chain => /\ calling'[t].name = "listen" /\ calling'[t].fd = calling[t].fd /\ calling'[t].chain = TRUE
                          /\ calling'[t].stage = "chained" /\ Own(t)' = z
  <2>1. CASE calling[t].chain
    BY <1>0, <1>1, <1>3, <1>4, <2>1 DEF Own
  <2>2. CASE ~calling[t].chain
    BY <1>4, <2>2 DEF P!Idle
  <2> QED BY <2>1, <2>2
<1>8. PortTypes'
  <2>1. ASSUME NEW v \in DOMAIN socks' PROVE socks'[v] \in SockType
    BY <1>5, <1>6, <2>1 DEF PortInv, PortTypes
  <2> QED BY <1>1, <1>2, <1>5, <2>1 DEF PortInv, PortTypes
<1>9. PendingPart'
  BY <1>1, <1>2, <1>4, <1>5 DEF PortInv, PendingPart, P!Settled
<1>10. \A v \in DOMAIN socks' : socks'[v].asked = socks[v].asked /\ v \in DOMAIN socks
  BY <1>5, <1>6
<1>11. CallPart'
  <2>1. BindOK(t)' /\ ListenOK(t)' /\ (calling'[t].name \notin {"bind", "listen"} => calling'[t] = P!Idle)
    BY <1>1, <1>3, <1>4, <1>5, <1>7 DEF BindOK, ListenOK, P!Idle
  <2>2. ASSUME NEW u \in Tracees, u # t PROVE BindOK(u)' /\ ListenOK(u)'
    <3>1. BindOK(u) /\ ListenOK(u)
      BY DEF PortInv, CallPart
    <3>2. BindOK(u)'
      BY <1>1, <1>2, <1>3, <1>4, <1>5, <1>7, <1>10, <2>2, <3>1 DEF BindOK
    <3>3. ListenOK(u)'
      BY <1>1, <1>4, <1>5, <2>2, <3>1 DEF ListenOK
    <3> QED BY <3>2, <3>3
  <2>3. \A u \in Tracees : u # t => (calling'[u].name \notin {"bind", "listen"} => calling'[u] = P!Idle)
    BY <1>4 DEF PortInv, CallPart
  <2> QED BY <1>4, <2>1, <2>2, <2>3 DEF CallPart, P!Idle
<1>12. SockPart'
  <2> SUFFICES ASSUME NEW v \in DOMAIN socks PROVE SockOK(v)'
    BY <1>5 DEF SockPart
  <2>1. SockOK(v) /\ v \in Tracees \X Fds
    BY DEF PortInv, SockPart, PortTypes
  <2>2. pending.owner = v => (P!InListen(v) \/ v = z => P!InListen(v)')
    <3>1. CASE v = z
      BY <1>3, <1>7, <3>1 DEF P!InListen
    <3>2. CASE v # z /\ P!InListen(v)
      <4>1. v[1] \in Tracees /\ v = <<v[1], v[2]>>
        BY <2>1
      <4>2. v[1] # t
        BY <1>0, <3>2, <4>1 DEF P!InListen, Own
      <4> QED BY <1>4, <3>2, <4>1, <4>2 DEF P!InListen
    <3> QED BY <3>1, <3>2
  <2>3. socks'[v].asked = socks[v].asked /\ socks'[v].bound = socks[v].bound
    BY <1>5, <1>6
  <2>4. (socks'[v].told => socks'[v].listens) /\ (socks'[v].listens => socks[v].listens \/ v = z)
    BY <1>5, <1>6, <2>1 DEF SockOK
  <2> QED BY <1>1, <1>2, <1>10, <2>1, <2>2, <2>3, <2>4 DEF SockOK
<1> QED BY <1>1, <1>8, <1>9, <1>11, <1>12 DEF PortInv

(* The entry that is added is that of the pending port's socket, which now *)
(* has the port the guest's leads to; no other socket and no bind on its   *)
(* way is about that port.                                                 *)
LEMMA ChainedExitKeeps ==
  ASSUME PortsUsual, PortInv, NEW t \in Tracees, P!ChainedExit(t)
  PROVE  PortInv'
<1>0. PICK z, old : z = Own(t) /\ old = pending.old_port
  OBVIOUS
<1>1. /\ calling[t].name = "listen" /\ calling[t].chain /\ z \in DOMAIN socks /\ z \in Tracees \X Fds /\ z # <<>>
      /\ pending.owner = z /\ calling[t].fd \in Fds
  <2>1. calling[t].stage = "chained"
    BY DEF P!ChainedExit
  <2>2. calling[t].name = "listen"
    BY <2>1 DEF PortInv, CallPart, BindOK, P!Idle
  <2> QED BY <1>0, <2>1, <2>2 DEF PortInv, CallPart, ListenOK, Own
<1>2. /\ pending.need /\ mode = "netcoop" /\ old \in Asked /\ P!Unknown(old) /\ ~P!Full
      /\ pending.sockfd = calling[t].fd /\ extension = "set"
  <2>1. pending.need
    BY <1>1 DEF PortInv, PendingPart, P!Settled
  <2> QED BY <1>0, <1>1, <2>1 DEF PortInv, PendingPart, Own
<1>3. /\ map' = P!add_entry(map, old, socks[z].bound)
      /\ pending' = P!Settled /\ extension' = extension /\ mode' = mode /\ socks' = socks
      /\ calling' = [calling EXCEPT ![t] = P!Idle]
  BY <1>0, <1>2 DEF P!ChainedExit, Own
<1>4. /\ socks[z].asked = old /\ socks[z].bound \in Nat \ {0}
      /\ \A v \in DOMAIN socks : v # z => socks[v].asked # old
      /\ map \in Tables /\ Findable(map) /\ old \in Nat \ {0}
      /\ \E i \in Slots : map[i].port_in = 0
  <2>1. SockOK(z)
    BY <1>1 DEF PortInv, SockPart
  <2>2. socks[z] \in SockType /\ map \in Tables /\ Findable(map) /\ old \in Nat \ {0}
    BY <1>1, <1>2 DEF PortInv, PortTypes, PortsUsual
  <2>3. \E i \in Slots : map[i].port_in = 0
    BY <1>2, <2>2 DEF P!Full, Tables, P!PORTMAP_DEFAULT_VALUE
  <2> QED BY <1>0, <1>1, <2>1, <2>2, <2>3 DEF SockOK, SockType
<1>5. /\ map' \in Tables /\ Findable(map') /\ P!get_port(map', old) = socks[z].bound
      /\ \A q \in Nat \ {0} : q # old => P!get_port(map', q) = P!get_port(map, q)
  BY <1>2, <1>3, <1>4, EntryAdded DEF P!Unknown, P!PORTMAP_DEFAULT_VALUE
<1>6. /\ Lead(old)' = socks[z].bound /\ ~P!Unknown(old)'
      /\ \A q \in Asked : q # old => Lead(q)' = Lead(q) /\ (P!Unknown(q)' <=> P!Unknown(q))
  <2>1. \A q : P!get_port(map, q)' = P!get_port(map', q)
    BY DEF P!get_port, P!get_index, P!Stops, P!Probe
  <2>2. \A q : /\ Lead(q) = IF P!get_port(map, q) = 0 THEN q ELSE P!get_port(map, q)
               /\ Lead(q)' = IF P!get_port(map', q) = 0 THEN q ELSE P!get_port(map', q)
               /\ P!Unknown(q) <=> P!get_port(map, q) = 0
               /\ P!Unknown(q)' <=> P!get_port(map', q) = 0
    BY <1>2, <1>3, <2>1 DEF Lead, P!Destination, P!Written, P!Unknown, P!PORTMAP_DEFAULT_VALUE
  <2>3. Asked \subseteq Nat \ {0}
    BY DEF PortsUsual
  <2> QED BY <1>2, <1>4, <1>5, <2>2, <2>3
<1>7. /\ DOMAIN calling = Tracees /\ calling'[t] = P!Idle /\ DOMAIN calling' = Tracees
      /\ \A u \in Tracees : u # t => calling'[u] = calling[u] /\ Own(u)' = Own(u) /\ Own(u) # z
  BY <1>0, <1>3 DEF PortInv, CallPart, Own
<1>8. PortTypes'
  BY <1>3, <1>5 DEF PortInv, PortTypes, Findable
<1>9. PendingPart'
  BY <1>3 DEF PendingPart, P!Settled
<1>10. CallPart'
  <2>1. BindOK(t)' /\ ListenOK(t)'
    BY <1>7 DEF BindOK, ListenOK, P!Idle
  <2>2. ASSUME NEW u \in Tracees, u # t PROVE BindOK(u)'
    <3> SUFFICES ASSUME calling[u].name = "bind" PROVE BindOK(u)'
      BY <1>7, <2>2 DEF BindOK
    <3>1. BindOK(u)
      BY DEF PortInv, CallPart
    <3>2. calling[u].asked # old /\ calling[u].asked \in Asked /\ calling[u].asked # 0
      BY <1>1, <1>2, <1>4, <3>1 DEF BindOK, PortsUsual
    <3>3. pending.owner # Own(u) /\ pending'.owner # Own(u)
      BY <1>1, <1>3, <1>7, <2>2 DEF P!Settled, Own
    <3>4. PICK q : q = calling[u].asked
      OBVIOUS
    <3>5. Lead(q)' = Lead(q) /\ (P!Unknown(q)' <=> P!Unknown(q))
      BY <1>6, <3>2, <3>4
    <3>6. \A v \in Tracees : v # u => calling'[v].asked # q
      BY <1>7, <3>1, <3>2, <3>4 DEF BindOK, P!Idle
    <3> QED BY <1>3, <1>7, <2>2, <3>1, <3>3, <3>4, <3>5, <3>6 DEF BindOK
  <2>3. ASSUME NEW u \in Tracees, u # t PROVE ListenOK(u)'
    <3>1. ListenOK(u)
      BY DEF PortInv, CallPart
    <3>2. pending.owner # Own(u) /\ pending'.owner # Own(u)
      BY <1>1, <1>3, <1>7, <2>3 DEF P!Settled, Own
    <3> QED BY <1>3, <1>7, <2>3, <3>1, <3>2 DEF ListenOK
  <2>4. \A u \in Tracees : calling'[u].name \notin {"bind", "listen"} => calling'[u] = P!Idle
    BY <1>7 DEF PortInv, CallPart
  <2> QED BY <1>7, <2>1, <2>2, <2>3, <2>4 DEF CallPart
<1>11. SockPart'
  <2> SUFFICES ASSUME NEW v \in DOMAIN socks PROVE SockOK(v)'
    BY <1>3 DEF SockPart
  <2>1. SockOK(v) /\ v # <<>> /\ socks[v].asked \in Asked
    <3>1. SockOK(v) /\ v \in Tracees \X Fds /\ socks[v] \in SockType
      BY DEF PortInv, SockPart, PortTypes
    <3>2. v # <<>>
      BY <3>1
    <3>3. socks[v].asked \in Asked
      BY <3>1 DEF SockType
    <3> QED BY <3>1, <3>2, <3>3
  <2>2. pending'.owner # v
    BY <1>3, <2>1 DEF P!Settled
  <2>3. PICK q : q = socks[v].asked
    OBVIOUS
  <2>4. socks[v].bound = Lead(q)'
    <3>1. CASE v = z
      BY <1>4, <1>6, <2>3, <3>1
    <3>2. CASE v # z
      BY <1>1, <1>4, <1>6, <2>1, <2>3, <3>2 DEF SockOK
    <3> QED BY <3>1, <3>2
  <2> QED BY <1>3, <2>1, <2>2, <2>3, <2>4 DEF SockOK
<1> QED BY <1>2, <1>3, <1>8, <1>9, <1>10, <1>11 DEF PortInv

LEMMA CloseKeeps ==
  ASSUME PortsUsual, PortInv, NEW t \in Tracees, NEW fd \in Fds, P!Close(t, fd)
  PROVE  PortInv'
<1> DEFINE s == <<t, fd>>
<1>1. /\ calling[t] = P!Idle /\ s \in DOMAIN socks
      /\ socks' = [u \in DOMAIN socks \ {s} |-> socks[u]]
      /\ pending' = IF pending.owner = s THEN [pending EXCEPT !.owner = <<>>] ELSE pending
      /\ mode' = mode /\ map' = map /\ extension' = extension /\ calling' = calling
  BY DEF P!Close
<1>2. /\ \A q : Lead(q)' = Lead(q) /\ (P!Unknown(q)' <=> P!Unknown(q))
      /\ P!Full' <=> P!Full
      /\ Findable(map)' <=> Findable(map)
  BY <1>1, SameTable
<1>3. /\ DOMAIN socks' = DOMAIN socks \ {s}
      /\ \A v \in DOMAIN socks' : v \in DOMAIN socks /\ v # s /\ socks'[v] = socks[v]
  BY <1>1
<1>4. s # <<>> /\ calling[t].name = "none" /\ \A u \in Tracees : Own(u)' = Own(u) /\ (u # t => Own(u) # s) /\ Own(u) # <<>>
  BY <1>1 DEF P!Idle, Own
<1>5. /\ pending'.need = pending.need /\ pending'.old_port = pending.old_port /\ pending'.sockfd = pending.sockfd
      /\ pending'.owner = (IF pending.owner = s THEN <<>> ELSE pending.owner)
      /\ pending.owner # s => pending' = pending
      /\ pending.owner = s => pending.need
  <2>1. pending.owner = s => pending.need
    BY <1>4 DEF PortInv, PendingPart, P!Settled
  <2> QED BY <1>1, <2>1
<1>6. PortTypes'
  BY <1>1, <1>2, <1>3 DEF PortInv, PortTypes
<1>7. PendingPart'
  <2>1. ASSUME NEW u \in Tracees, NEW gd \in Fds, pending'.owner = <<u, gd>>
        PROVE  pending'.sockfd = gd /\ (<<u, gd>> \in DOMAIN socks' \/ (calling'[u].name = "bind" /\ calling'[u].fd = gd))
    <3>1. pending.owner = <<u, gd>> /\ <<u, gd>> # s
      <4>1. <<u, gd>> # <<>>
        OBVIOUS
      <4>2. pending.owner # s
        BY <1>5, <2>1, <4>1
      <4> QED BY <1>5, <2>1, <4>2
    <3> QED BY <1>1, <1>3, <1>5, <3>1 DEF PortInv, PendingPart
  <2>2. ~pending'.need => pending' = P!Settled
    BY <1>5 DEF PortInv, PendingPart
  <2>3. pending'.need => /\ mode' = "netcoop" /\ pending'.old_port \in Asked
                        /\ P!Unknown(pending.old_port)' /\ ~P!Full'
    <3>1. PICK q : q = pending.old_port
      OBVIOUS
    <3> QED BY <1>1, <1>2, <1>5, <3>1 DEF PortInv, PendingPart
  <2> QED BY <2>1, <2>2, <2>3 DEF PendingPart
<1>8. CallPart'
  <2>1. ASSUME NEW u \in Tracees PROVE BindOK(u)' /\ ListenOK(u)'
    <3>1. BindOK(u) /\ ListenOK(u)
      BY DEF PortInv, CallPart
    <3>2. calling[u].name \in {"bind", "listen"} => (pending'.owner = Own(u) <=> pending.owner = Own(u)) /\ Own(u) # s
      BY <1>4, <1>5
    <3>3. BindOK(u)'
      BY <1>1, <1>2, <1>3, <1>4, <1>5, <3>1, <3>2 DEF BindOK
    <3>4. ListenOK(u)'
      BY <1>1, <1>3, <1>4, <1>5, <3>1, <3>2 DEF ListenOK
    <3> QED BY <3>3, <3>4
  <2> QED BY <1>1, <2>1 DEF PortInv, CallPart
<1>9. SockPart'
  <2> SUFFICES ASSUME NEW v \in DOMAIN socks' PROVE SockOK(v)'
    BY DEF SockPart
  <2>1. SockOK(v) /\ v \in DOMAIN socks /\ v # s /\ v # <<>> /\ socks'[v] = socks[v]
    BY <1>3 DEF PortInv, SockPart, PortTypes
  <2>2. pending'.owner = v <=> pending.owner = v
    BY <1>5, <2>1
  <2>3. P!InListen(v) => P!InListen(v)'
    BY <1>1 DEF P!InListen
  <2>4. \A u \in DOMAIN socks' : v # u => socks'[v].asked # socks'[u].asked
    BY <1>3, <2>1 DEF SockOK
  <2> QED BY <1>2, <1>5, <2>1, <2>2, <2>3, <2>4 DEF SockOK
<1> QED BY <1>1, <1>6, <1>7, <1>8, <1>9 DEF PortInv

LEMMA PortNextInv ==
  ASSUME PortsUsual, PortInv, [P!Next]_P!vars
  PROVE  PortInv'
<1>1. ASSUME NEW t \in Tracees, NEW fd \in Fds, NEW p \in Asked, P!Bind(t, fd, p) PROVE PortInv'
  BY <1>1, BindKeeps
<1>2. ASSUME NEW t \in Tracees, NEW fd \in Fds, P!Listen(t, fd) \/ P!Close(t, fd) PROVE PortInv'
  BY <1>2, ListenKeeps, CloseKeeps
<1>3. ASSUME NEW t \in Tracees, P!BindKernel(t) \/ P!ListenKernel(t) \/ P!ChainedExit(t) PROVE PortInv'
  BY <1>3, BindKernelKeeps, ListenKernelKeeps, ChainedExitKeeps
<1>4. CASE P!FirstEnds \/ UNCHANGED P!vars
  <2>1. /\ mode' = mode /\ map' = map /\ pending' = pending /\ socks' = socks /\ calling' = calling
        /\ extension' = extension \/ (extension' = "freed" /\ mode # "netcoop")
    BY <1>4 DEF P!FirstEnds, P!vars, PortsUsual
  <2>2. /\ \A q : Lead(q)' = Lead(q) /\ (P!Unknown(q)' <=> P!Unknown(q))
        /\ P!Full' <=> P!Full
        /\ Findable(map)' <=> Findable(map)
    BY <2>1, SameTable
  <2>3. PortTypes' /\ PendingPart'
    BY <2>1, <2>2 DEF PortInv, PortTypes, PendingPart, P!Settled
  <2>4. CallPart'
    BY <2>1, <2>2 DEF PortInv, CallPart, BindOK, ListenOK, Own, P!Idle
  <2>5. SockPart'
    BY <2>1, <2>2 DEF PortInv, SockPart, SockOK, P!InListen
  <2> QED BY <2>1, <2>3, <2>4, <2>5 DEF PortInv
<1> QED BY <1>1, <1>2, <1>3, <1>4 DEF P!Next, PortsUsual

(* portmap.c, port_switch.c.  A socket that listens is found at the port   *)
(* the guest bound it to, and no two have the same port, for every number  *)
(* of tracees, sockets and ports and every size of the table.              *)
THEOREM PortsFollow ==
  ASSUME PortsUsual
  PROVE  P!Spec => []P!PortsAreTheGuests
<1>1. P!Init => PortInv
  BY PortInitInv
<1>2. PortInv /\ [P!Next]_P!vars => PortInv'
  BY PortNextInv
<1>3. PortInv => P!PortsAreTheGuests
  <2> SUFFICES ASSUME PortInv PROVE P!PortsAreTheGuests
    OBVIOUS
  <2>1. ASSUME NEW s \in DOMAIN socks, socks[s].told, ~P!InListen(s), NEW f
        PROVE  socks[s].listens /\ P!Destination("connect", f, socks[s].asked) = socks[s].bound
    BY <2>1, LeadIs DEF PortInv, SockPart, SockOK
  <2>2. ASSUME mode = "switch", NEW s \in DOMAIN socks
        PROVE  P!Destination("sendto", "inet", socks[s].asked) = socks[s].bound
    <3>1. pending.owner # s
      BY <2>2 DEF PortInv, PortTypes, PendingPart, P!Settled
    <3> QED BY <2>2, <3>1, LeadIs DEF PortInv, SockPart, SockOK
  <2>3. \A s, u \in DOMAIN socks : s # u => socks[s].asked # socks[u].asked
    BY DEF PortInv, SockPart, SockOK
  <2>4. extension # "used"
    BY DEF PortInv
  <2> QED BY <2>1, <2>2, <2>3, <2>4 DEF P!PortsAreTheGuests, PortsUsual
<1> QED BY <1>1, <1>2, <1>3, PTL DEF P!Spec

-----------------------------------------------------------------------------
(* What the theorem about Netlink asks: there is a tracee to start with,   *)
(* sequence numbers are positive, descriptors are numbers.                 *)
NetUsual == Tracees # {} /\ Seqs \subseteq Nat \ {0} /\ Fds \subseteq Nat /\ MaxItems \in Nat

Errors == {"none", "ok", "ENODEV", "EINVAL"} \cup N!Refusals \cup {"EEXIST"}
Message == [kind : {"item", "done", "error"}, seq : Nat, err : Errors, pretend : BOOLEAN]
FileType == {N!Closed} \cup (Sockets \X {"fake", "real"})
Replies == Seq(Message)
TrackEntry == [fd : Fds, reply : Replies]
Tracking == Seq(TrackEntry)
Reader == [does : {"read"}, fd : Fds, seq : Seqs, style : {"first", "peek"}, peeked : BOOLEAN, until : {"done", "any"}]
NetTypes ==
  /\ host \in [blocked : BOOLEAN, filter : BOOLEAN] /\ alive \subseteq Tracees
  /\ files \in [Tracees -> [Fds -> FileType]]
  /\ queue \in [Sockets -> Seq(Message)]
  /\ fake \in [Tracees -> Tracking]
  /\ route \in [Tracees -> SUBSET Fds] /\ netns \in [Tracees -> BOOLEAN]
  /\ ack \in [Tracees -> [fd : Fds \cup {0}, seq : Seqs \cup {0}]]
  /\ guest \in [Tracees -> Reader \cup {N!Idle}]

(* Each tracked descriptor has one entry.  Where PRoot sees each close it  *)
(* is a substitute, and a recorded one is a real socket.                   *)
FdsIn(f) == {f[i].fd : i \in DOMAIN f}
Once(f) == \A i, j \in DOMAIN f : f[i].fd = f[j].fd => i = j
TrackedOK(f, open, known) ==
  /\ Once(f)
  /\ ~host.filter => /\ \A fd \in FdsIn(f) : open[fd][2] = "fake"
                     /\ \A fd \in known : open[fd][2] = "real"
TrackedPart == \A t \in Tracees : TrackedOK(fake[t], files[t], route[t])

(* A host either blocks netlink sockets or grants them, and an expected     *)
(* refusal is one on a recorded descriptor.                                *)
HostPart ==
  \A t \in Tracees :
    /\ host.blocked => \A fd \in Fds : files[t][fd][2] # "real"
    /\ ~host.blocked => FdsIn(fake[t]) = {}
    /\ ack[t] # N!NoAck => ack[t].fd \in route[t]

(* Whoever is not there yet asks for nothing, and who has the namespace of  *)
(* the host expects no refusal.                                            *)
QuietPart ==
  \A t \in Tracees : /\ t \notin alive => guest[t] = N!Idle /\ ack[t] = N!NoAck
                     /\ ~netns[t] => ack[t] = N!NoAck

(* t reads from the real socket s.                                         *)
Reads(t, s) == guest[t] # N!Idle /\ files[t][guest[t].fd] = <<s, "real">>

(* What waits for a reader g is the answer to its request; a status is     *)
(* alone, and a refusal of it expected (a) if the namespace is pretended   *)
(* and the socket recorded.                                                *)
AnswerTo(q, g, pretended, recorded, a) ==
  /\ \A i \in DOMAIN q : q[i].seq = g.seq
  /\ g.until = "done" => \/ Len(q) = 1 /\ q[1].kind = "done"
                         \/ Len(q) = 2 /\ q[1].kind = "item" /\ q[2].kind = "done"
  /\ g.until = "any" =>
       /\ Len(q) = 1
       /\ q[1].kind = "error" => /\ q[1].pretend = pretended
                                 /\ (pretended /\ recorded) => a = [fd |-> g.fd, seq |-> g.seq]
IsRecorded(t) == guest[t].fd \in route[t]
QueuePart ==
  \A s \in Sockets :
    /\ queue[s] # <<>> => \E t \in Tracees : Reads(t, s)
    /\ \A t \in Tracees : Reads(t, s) => /\ AnswerTo(queue[s], guest[t], netns[t], IsRecorded(t), ack[t])
                                         /\ \A u \in Tracees : Reads(u, s) => u = t

NetInv == NetTypes /\ TrackedPart /\ HostPart /\ QuietPart /\ QueuePart

-----------------------------------------------------------------------------
LEMMA ReplyType ==
  ASSUME NetUsual, NEW r \in N!Requests, NEW n \in Nat
  PROVE  N!build_fake_netlink_reply(r, n) \in Replies
<1>1. r.seq \in Nat /\ r.dump \in BOOLEAN
  BY DEF NetUsual, N!Requests
<1>0. \A kind \in {"item", "done", "error"}, seq \in Nat, e \in Errors : N!Msg(kind, seq, e) \in Message
  BY DEF N!Msg, Message
<1>2. ASSUME NEW k \in Nat PROVE N!Items(k, r.seq) \in Seq(Message)
  <2>1. N!Msg("item", r.seq, N!None) \in Message
    BY <1>0, <1>1 DEF N!None, Errors
  <2>2. N!Items(k, r.seq) = [i \in 1 .. k |-> N!Msg("item", r.seq, N!None)]
    BY DEF N!Items
  <2> QED BY <2>1, <2>2
<1>3. ASSUME NEW q \in Seq(Message) PROVE N!Terminated(q, r.seq) \in Seq(Message)
  <2>1. N!Msg("done", r.seq, N!None) \in Message
    BY <1>0, <1>1 DEF N!None, Errors
  <2> QED BY <2>1 DEF N!Terminated
<1>4. \A e \in Errors : N!Status(0, e) \in Seq(Message) /\ N!Status(r.seq, e) \in Seq(Message)
  <2> TAKE e \in Errors
  <2>1. N!Msg("error", 0, e) \in Message /\ N!Msg("error", r.seq, e) \in Message
    BY <1>0, <1>1
  <2> QED BY <2>1 DEF N!Status
<1>5. <<>> \in Seq(Message)
  OBVIOUS
<1>6. (IF n > MaxItems THEN MaxItems ELSE n) \in Nat
  BY DEF NetUsual
<1>7. \A k \in Nat : N!Terminated(N!Items(k, r.seq), r.seq) \in Seq(Message)
  BY <1>2, <1>3
<1>8. N!Terminated(<<>>, r.seq) \in Seq(Message)
  BY <1>3, <1>5
<1>9. N!Terminated(N!Items(IF n = 0 THEN 1 ELSE IF n > MaxItems THEN MaxItems ELSE n, r.seq), r.seq) \in Seq(Message)
  BY <1>6, <1>7
<1>10. N!Terminated(N!Items(IF n > MaxItems THEN MaxItems ELSE n, r.seq), r.seq) \in Seq(Message)
  BY <1>6, <1>7
<1>11. N!Items(1, r.seq) \in Seq(Message)
  BY <1>2
<1>12. {"ok", "ENODEV", "EINVAL"} \subseteq Errors
  BY DEF Errors
<1> QED BY <1>1, <1>4, <1>8, <1>9, <1>10, <1>11, <1>12 DEF N!build_fake_netlink_reply, Replies

LEMMA RestType ==
  ASSUME NEW q \in Seq(Message), q # <<>>
  PROVE  SubSeq(q, N!fake_netlink_datagram_len(q) + 1, Len(q)) \in Seq(Message)
<1> DEFINE d == {i \in DOMAIN q : q[i].kind = "done"}
           len == N!fake_netlink_datagram_len(q)
<1>1. len \in Nat
  <2>1. CASE d = {}
    BY <2>1 DEF N!fake_netlink_datagram_len
  <2>2. CASE d # {}
    <3>1. d \subseteq Nat \ {0}
      OBVIOUS
    <3>2. N!Min(d) = Min(d) /\ Min(d) \in d
      BY <2>2, <3>1, MinInSet DEF N!Min, Min
    <3> QED BY <3>1, <3>2 DEF N!fake_netlink_datagram_len
  <2> QED BY <2>1, <2>2
<1> HIDE DEF len
<1>2. SubSeq(q, len + 1, Len(q)) \in Seq(Message)
  BY <1>1
<1> QED BY <1>2 DEF len

(* Tracked entries.                                                        *)
LEMMA EntryIs ==
  ASSUME NEW t, NEW fd \in N!Tracked(t)
  PROVE  N!EntryOf(t, fd) \in DOMAIN fake[t] /\ fake[t][N!EntryOf(t, fd)].fd = fd
BY DEF N!Tracked, N!EntryOf

LEMMA ReplySet ==
  ASSUME NetTypes, NEW t \in Tracees, NEW fd \in N!Tracked(t), NEW q \in Seq(Message), N!SetReply(t, fd, q)
  PROVE  /\ fake' \in [Tracees -> Tracking]
         /\ \A u \in Tracees : DOMAIN fake'[u] = DOMAIN fake[u] /\ \A i \in DOMAIN fake[u] : fake'[u][i].fd = fake[u][i].fd
<1> DEFINE k == N!EntryOf(t, fd)
<1>1. k \in DOMAIN fake[t] /\ fake[t] \in Seq(TrackEntry) /\ DOMAIN fake[t] = 1 .. Len(fake[t]) /\ Len(fake[t]) \in Nat
  BY EntryIs DEF NetTypes, Tracking
<1>2. fake' = [fake EXCEPT ![t] = [fake[t] EXCEPT ![k] = [fake[t][k] EXCEPT !.reply = q]]]
  BY DEF N!SetReply
<1> HIDE DEF k
<1>3. [fake[t][k] EXCEPT !.reply = q] \in TrackEntry /\ [fake[t][k] EXCEPT !.reply = q].fd = fake[t][k].fd
  <2>1. fake[t][k] \in TrackEntry /\ q \in Replies
    BY <1>1 DEF Replies
  <2> QED BY <2>1 DEF TrackEntry
<1>4. fake'[t] = [fake[t] EXCEPT ![k] = [fake[t][k] EXCEPT !.reply = q]] /\ \A u \in Tracees \ {t} : fake'[u] = fake[u]
  BY <1>2 DEF NetTypes
<1>5. fake'[t] \in Seq(TrackEntry) /\ DOMAIN fake'[t] = DOMAIN fake[t]
  BY <1>1, <1>3, <1>4
<1>6. \A i \in DOMAIN fake[t] : fake'[t][i].fd = fake[t][i].fd
  BY <1>1, <1>3, <1>4
<1>7. DOMAIN fake' = Tracees /\ fake' = [u \in Tracees |-> fake'[u]]
  BY <1>2 DEF NetTypes
<1> QED BY <1>4, <1>5, <1>6, <1>7 DEF NetTypes, Tracking

LEMMA UnmarkedIs ==
  ASSUME NetTypes, NEW t \in Tracees, NEW fd, Once(fake[t])
  PROVE  N!Unmarked(t, fd) \in Tracking /\ Once(N!Unmarked(t, fd)) /\ FdsIn(N!Unmarked(t, fd)) = FdsIn(fake[t]) \ {fd}
<1> DEFINE f == fake[t]
           n == Len(f)
<1>1. f \in Seq(TrackEntry) /\ n \in Nat /\ DOMAIN f = 1 .. n
  BY DEF NetTypes, Tracking
<1>2. CASE fd \notin N!Tracked(t)
  BY <1>1, <1>2 DEF N!Unmarked, FdsIn, N!Tracked, Tracking
<1>3. CASE fd \in N!Tracked(t)
  <2> DEFINE k == N!EntryOf(t, fd)
             g == N!Unmarked(t, fd)
  <2>1. k \in 1 .. n /\ f[k].fd = fd
    BY <1>1, <1>3, EntryIs
  <2>2. g = SubSeq([f EXCEPT ![k] = f[n]], 1, n - 1)
    <3>1. Len([f EXCEPT ![k] = f[n]]) = n
      BY <1>1
    <3> QED BY <1>3, <3>1 DEF N!Unmarked, N!Front, N!Last
  <2> HIDE DEF k, g, f
  <2>3. [f EXCEPT ![k] = f[n]] \in Seq(TrackEntry) /\ Len([f EXCEPT ![k] = f[n]]) = n
    BY <1>1, <2>1
  <2>4. /\ g \in Seq(TrackEntry) /\ DOMAIN g = 1 .. (n - 1)
        /\ \A i \in 1 .. (n - 1) : g[i] = IF i = k THEN f[n] ELSE f[i]
    BY <1>1, <2>1, <2>2, <2>3
  <2>5. Once(f)
    BY DEF f
  <2>6. Once(g)
    BY <1>1, <2>1, <2>4, <2>5 DEF Once
  <2>7. ASSUME NEW x \in FdsIn(g) PROVE x \in FdsIn(f) \ {fd}
    BY <1>1, <2>1, <2>4, <2>5, <2>7 DEF Once, FdsIn
  <2>8. ASSUME NEW x \in FdsIn(f), x # fd PROVE x \in FdsIn(g)
    <3>1. PICK i \in 1 .. n : x = f[i].fd
      BY <1>1, <2>8 DEF FdsIn
    <3>2. CASE i # n
      <4>1. i # k /\ i \in 1 .. (n - 1)
        <5>1. i # k
          BY <2>1, <2>8, <3>1
        <5>2. n \in Nat /\ i \in 1 .. n
          BY <1>1, <3>1
        <5> HIDE DEF n
        <5> QED BY <3>2, <5>1, <5>2
      <4> QED BY <2>4, <3>1, <4>1 DEF FdsIn
    <3>3. CASE i = n
      <4>1. k \in 1 .. (n - 1)
        BY <1>1, <2>1, <2>8, <3>1, <3>3
      <4> QED BY <2>4, <3>1, <3>3, <4>1 DEF FdsIn
    <3> QED BY <3>2, <3>3
  <2>9. FdsIn(g) = FdsIn(f) \ {fd}
    BY <2>7, <2>8
  <2> QED BY <2>4, <2>6, <2>9 DEF Tracking, g, f
<1> QED BY <1>2, <1>3

-----------------------------------------------------------------------------
LEMMA ReaderIs == N!Idle \notin Reader /\ N!Idle.does = "idle" /\ \A g \in Reader : g.does = "read"
BY DEF Reader, N!Idle

LEMMA TrackedAreFds == ASSUME NetTypes, NEW t \in Tracees PROVE FdsIn(fake[t]) \subseteq Fds
<1>1. \A i \in DOMAIN fake[t] : fake[t][i] \in TrackEntry
  BY DEF NetTypes, Tracking
<1> QED BY <1>1 DEF FdsIn, TrackEntry

LEMMA EntryIsAdded ==
  ASSUME NEW f \in Tracking, NEW fd \in Fds, fd \notin FdsIn(f), Once(f)
  PROVE  LET g == Append(f, [fd |-> fd, reply |-> <<>>])
         IN  g \in Tracking /\ Once(g) /\ FdsIn(g) = FdsIn(f) \cup {fd}
<1> DEFINE e == [fd |-> fd, reply |-> <<>>]
           g == Append(f, e)
<1>1. e \in TrackEntry /\ e.fd = fd
  BY DEF TrackEntry, Replies
<1> HIDE DEF e
<1>2. /\ g \in Tracking /\ Len(f) \in Nat /\ DOMAIN f = 1 .. Len(f) /\ DOMAIN g = 1 .. Len(f) + 1
      /\ g[Len(f) + 1] = e /\ \A i \in DOMAIN f : g[i] = f[i]
  BY <1>1 DEF Tracking
<1> HIDE DEF g
<1>3. \A i \in DOMAIN f : f[i].fd \in FdsIn(f) /\ f[i].fd # fd
  BY DEF FdsIn
<1>4. Once(g)
  BY <1>1, <1>2, <1>3 DEF Once
<1>5. FdsIn(g) = FdsIn(f) \cup {fd}
  BY <1>1, <1>2 DEF FdsIn
<1> QED BY <1>2, <1>4, <1>5 DEF g, e

(* A step that leaves the queues and the readers of real sockets alone.    *)
LEMMA QueueSame ==
  ASSUME QueuePart, queue' = queue,
         \A u \in Tracees, s \in Sockets : Reads(u, s)' <=> Reads(u, s),
         \A u \in Tracees, s \in Sockets :
           Reads(u, s) => /\ guest'[u].fd = guest[u].fd /\ guest'[u].seq = guest[u].seq /\ guest'[u].until = guest[u].until
                          /\ netns'[u] = netns[u] /\ ack'[u] = ack[u] /\ route'[u] = route[u]
  PROVE  QueuePart'
<1> SUFFICES ASSUME NEW s \in Sockets
             PROVE  /\ queue'[s] # <<>> => \E t \in Tracees : Reads(t, s)'
                    /\ \A t \in Tracees : Reads(t, s)' =>
                         /\ AnswerTo(queue'[s], guest'[t], netns'[t], IsRecorded(t)', ack'[t])
                         /\ \A u \in Tracees : Reads(u, s)' => u = t
  BY DEF QueuePart
<1>1. queue'[s] # <<>> => \E t \in Tracees : Reads(t, s)'
  BY DEF QueuePart
<1>2. ASSUME NEW t \in Tracees, Reads(t, s)'
      PROVE  AnswerTo(queue'[s], guest'[t], netns'[t], IsRecorded(t)', ack'[t]) /\ \A u \in Tracees : Reads(u, s)' => u = t
  <2>1. Reads(t, s)
    BY <1>2
  <2>2. AnswerTo(queue[s], guest[t], netns[t], IsRecorded(t), ack[t]) /\ \A u \in Tracees : Reads(u, s) => u = t
    BY <2>1 DEF QueuePart
  <2>3. /\ guest'[t].fd = guest[t].fd /\ guest'[t].seq = guest[t].seq /\ guest'[t].until = guest[t].until
        /\ netns'[t] = netns[t] /\ ack'[t] = ack[t] /\ (IsRecorded(t)' <=> IsRecorded(t))
    BY <2>1 DEF IsRecorded
  <2> QED BY <2>2, <2>3 DEF AnswerTo
<1> QED BY <1>1, <1>2

LEMMA NetInit == ASSUME NetUsual, N!Init PROVE NetInv
<1>1. (CHOOSE t \in Tracees : TRUE) \in Tracees
  BY DEF NetUsual
<1>2. <<>> \in Seq(Message) /\ <<>> \in Tracking
  BY DEF Tracking
<1>3. [f \in Fds |-> N!Closed] \in [Fds -> FileType]
  BY DEF FileType
<1>4. N!NoAck \in [fd : Fds \cup {0}, seq : Seqs \cup {0}]
  BY DEF N!NoAck
<1>5. NetTypes
  BY <1>1, <1>2, <1>3, <1>4 DEF N!Init, NetTypes
<1>6. TrackedPart
  <2>1. Once(<<>>) /\ FdsIn(<<>>) = {}
    BY DEF Once, FdsIn
  <2> QED BY <2>1 DEF N!Init, TrackedPart, TrackedOK
<1>7. HostPart
  <2>1. FdsIn(<<>>) = {}
    BY DEF FdsIn
  <2>2. \A fd \in Fds : [f \in Fds |-> N!Closed][fd][2] # "real"
    BY DEF N!Closed, N!None
  <2> QED BY <2>1, <2>2 DEF N!Init, HostPart
<1>8. QuietPart
  BY DEF N!Init, QuietPart
<1>9. QueuePart
  BY DEF N!Init, QueuePart, Reads
<1> QED BY <1>5, <1>6, <1>7, <1>8, <1>9 DEF NetInv

LEMMA SocketKeeps ==
  ASSUME NetUsual, NetInv, NEW t \in Tracees, N!Socket(t)
  PROVE  NetInv'
<1> USE DEF NetInv
<1>1. PICK fd, s : fd = N!Lowest(t) /\ s = CHOOSE x \in {x \in Sockets : \A u \in alive, f \in Fds : files[u][f][1] # x} : TRUE
  OBVIOUS
<1>2. fd \in Fds /\ files[t][fd] = N!Closed
  <2> DEFINE S == {f \in Fds : files[t][f] = N!Closed}
  <2>1. S \subseteq Nat /\ S # {}
    BY DEF N!Socket, N!HasRoom, NetUsual
  <2>2. Min(S) \in S /\ \A g \in S : Min(S) <= g
    BY <2>1, MinInSet
  <2>3. \E f \in Fds : files[t][f] = N!Closed /\ \A g \in Fds : files[t][g] = N!Closed => f <= g
    BY <2>2
  <2> QED BY <1>1, <2>3 DEF N!Lowest
<1>3. s \in Sockets
  BY <1>1 DEF N!Socket
<1>4. PICK kind \in {"fake", "real"} : kind = IF host.blocked THEN "fake" ELSE "real"
  OBVIOUS
<1>5. /\ guest[t] = N!Idle /\ files' = [files EXCEPT ![t][fd] = <<s, kind>>]
      /\ UNCHANGED <<host, alive, queue, netns, ack, guest>>
  BY <1>1, <1>4 DEF N!Socket, N!Free
<1>6. host.blocked =>
        /\ route' = route
        /\ \/ fake' = fake
           \/ fd \notin FdsIn(fake[t]) /\ fake' = [fake EXCEPT ![t] = Append(fake[t], [fd |-> fd, reply |-> <<>>])]
  BY <1>1 DEF N!Socket, N!Recorded, N!Tracked, FdsIn
<1>7. ~host.blocked =>
        /\ fake' = fake
        /\ route' = route \/ route' = [route EXCEPT ![t] = route[t] \cup {fd}]
  BY <1>1 DEF N!Socket, N!Recorded
<1>8. /\ files' \in [Tracees -> [Fds -> FileType]] /\ files'[t][fd] = <<s, kind>>
      /\ \A f \in Fds \ {fd} : files'[t][f] = files[t][f]
      /\ \A u \in Tracees \ {t} : files'[u] = files[u]
  BY <1>2, <1>3, <1>5 DEF NetTypes, FileType
<1>9. Once(fake[t]) /\ fake[t] \in Tracking /\ FdsIn(fake[t]) \subseteq Fds
  BY TrackedAreFds DEF TrackedPart, TrackedOK, NetTypes
<1>10. /\ fake' \in [Tracees -> Tracking] /\ route' \in [Tracees -> SUBSET Fds]
       /\ \A u \in Tracees \ {t} : fake'[u] = fake[u] /\ route'[u] = route[u]
       /\ Once(fake'[t]) /\ FdsIn(fake'[t]) \subseteq FdsIn(fake[t]) \cup (IF host.blocked THEN {fd} ELSE {})
       /\ route[t] \subseteq route'[t] /\ route'[t] \subseteq route[t] \cup (IF host.blocked THEN {} ELSE {fd})
  <2>1. CASE host.blocked
    <3>1. CASE fake' = fake
      BY <1>6, <1>9, <2>1, <3>1 DEF NetTypes
    <3>2. CASE fake' # fake
      <4>1. fd \notin FdsIn(fake[t]) /\ fake' = [fake EXCEPT ![t] = Append(fake[t], [fd |-> fd, reply |-> <<>>])]
        BY <1>6, <2>1, <3>2
      <4>2. /\ Append(fake[t], [fd |-> fd, reply |-> <<>>]) \in Tracking
            /\ Once(Append(fake[t], [fd |-> fd, reply |-> <<>>]))
            /\ FdsIn(Append(fake[t], [fd |-> fd, reply |-> <<>>])) = FdsIn(fake[t]) \cup {fd}
        BY <1>2, <1>9, <4>1, EntryIsAdded
      <4> QED BY <1>6, <2>1, <4>1, <4>2 DEF NetTypes
    <3> QED BY <3>1, <3>2
  <2>2. CASE ~host.blocked
    <3>1. fake' = fake /\ (route' = route \/ route' = [route EXCEPT ![t] = route[t] \cup {fd}])
      BY <1>7, <2>2
    <3>2. fake' \in [Tracees -> Tracking] /\ fake'[t] = fake[t] /\ \A u \in Tracees \ {t} : fake'[u] = fake[u]
      BY <3>1 DEF NetTypes
    <3>3. route \in [Tracees -> SUBSET Fds]
      BY DEF NetTypes
    <3>4. /\ route' \in [Tracees -> SUBSET Fds] /\ \A u \in Tracees \ {t} : route'[u] = route[u]
          /\ route'[t] \in {route[t], route[t] \cup {fd}}
      BY <1>2, <3>1, <3>3
    <3> QED BY <1>9, <2>2, <3>2, <3>4
  <2> QED BY <2>1, <2>2
<1>11. NetTypes'
  BY <1>5, <1>8, <1>10 DEF NetTypes
<1>12. TrackedOK(fake[t], files[t], route[t])
  BY DEF TrackedPart
<1>13. ASSUME ~host.filter
       PROVE  /\ \A f \in FdsIn(fake'[t]) : files'[t][f][2] = "fake"
              /\ \A f \in route'[t] : files'[t][f][2] = "real"
  <2>1. /\ \A f \in FdsIn(fake[t]) : files[t][f][2] = "fake" /\ f # fd
        /\ \A f \in route[t] : files[t][f][2] = "real" /\ f # fd
    BY <1>2, <1>12, <1>13 DEF TrackedOK, N!Closed, N!None
  <2>2. files'[t][fd][2] = IF host.blocked THEN "fake" ELSE "real"
    BY <1>4, <1>8
  <2>3. route[t] \subseteq Fds
    BY DEF NetTypes
  <2>4. \A f \in FdsIn(fake'[t]) : files'[t][f][2] = "fake"
    BY <1>8, <1>9, <1>10, <2>1, <2>2
  <2>5. \A f \in route'[t] : files'[t][f][2] = "real"
    BY <1>8, <1>10, <2>1, <2>2, <2>3
  <2> QED BY <2>4, <2>5
<1>14. TrackedPart'
  BY <1>5, <1>8, <1>10, <1>13 DEF TrackedPart, TrackedOK
<1>15. HostPart'
  <2>1. \A f \in Fds : host.blocked => files'[t][f][2] # "real"
    <3>1. CASE host.blocked
      <4>1. kind = "fake"
        BY <1>4, <3>1
      <4> QED BY <1>8, <4>1 DEF HostPart
    <3> QED BY <3>1
  <2>2. ~host.blocked => FdsIn(fake'[t]) = {}
    BY <1>7 DEF HostPart
  <2>3. ack'[t] # N!NoAck => ack'[t].fd \in route'[t]
    BY <1>5, <1>10 DEF HostPart
  <2>4. \A u \in Tracees \ {t} : files'[u] = files[u] /\ fake'[u] = fake[u] /\ route'[u] = route[u] /\ ack'[u] = ack[u]
    BY <1>5, <1>8, <1>10
  <2> QED BY <1>5, <2>1, <2>2, <2>3, <2>4 DEF HostPart
<1>16. QuietPart'
  BY <1>5 DEF QuietPart
<1>17. QueuePart'
  <2>1. \A u \in Tracees, x \in Sockets : (Reads(u, x)' <=> Reads(u, x)) /\ (Reads(u, x) => u # t)
    BY <1>5, <1>8 DEF Reads
  <2> QED BY <1>5, <1>10, <2>1, QueueSame
<1> QED BY <1>11, <1>14, <1>15, <1>16, <1>17

LEMMA CloseKeepsTracking ==
  ASSUME NetUsual, NetInv, NEW t \in Tracees, NEW fd \in Fds, N!Close(t, fd)
  PROVE  NetInv'
<1> USE DEF NetInv
<1>1. /\ guest[t] = N!Idle /\ files' = [files EXCEPT ![t][fd] = N!Closed]
      /\ UNCHANGED <<host, alive, queue, netns, guest>>
  BY DEF N!Close, N!Free
<1>2. /\ files' \in [Tracees -> [Fds -> FileType]] /\ files'[t][fd] = N!Closed
      /\ \A f \in Fds \ {fd} : files'[t][f] = files[t][f]
      /\ \A u \in Tracees \ {t} : files'[u] = files[u]
  BY <1>1 DEF NetTypes, FileType
<1>3. TrackedOK(fake[t], files[t], route[t]) /\ FdsIn(fake[t]) \subseteq Fds /\ route[t] \subseteq Fds
  BY TrackedAreFds DEF TrackedPart, NetTypes
<1>4. /\ fake' \in [Tracees -> Tracking] /\ route' \in [Tracees -> SUBSET Fds]
      /\ ack' \in [Tracees -> [fd : Fds \cup {0}, seq : Seqs \cup {0}]]
      /\ \A u \in Tracees \ {t} : fake'[u] = fake[u] /\ route'[u] = route[u] /\ ack'[u] = ack[u]
      /\ Once(fake'[t]) /\ FdsIn(fake'[t]) \subseteq FdsIn(fake[t]) /\ route'[t] \subseteq route[t]
      /\ ack'[t] \in {ack[t], N!NoAck} /\ (ack'[t] # N!NoAck /\ ack'[t].fd \in route[t] => ack'[t].fd \in route'[t])
      /\ ~host.filter => fd \notin FdsIn(fake'[t]) /\ fd \notin route'[t]
  <2>1. CASE host.filter
    BY <1>3, <2>1 DEF N!Close, NetTypes, TrackedOK
  <2>2. CASE ~host.filter
    <3>1. /\ fake' = [fake EXCEPT ![t] = N!Unmarked(t, fd)] /\ route' = [route EXCEPT ![t] = route[t] \ {fd}]
          /\ ack' = [ack EXCEPT ![t] = IF ack[t].fd = fd THEN N!NoAck ELSE ack[t]]
      BY <2>2 DEF N!Close, N!PR_close
    <3>2. N!Unmarked(t, fd) \in Tracking /\ Once(N!Unmarked(t, fd)) /\ FdsIn(N!Unmarked(t, fd)) = FdsIn(fake[t]) \ {fd}
      BY <1>3, UnmarkedIs DEF TrackedOK
    <3>3. N!NoAck \in [fd : Fds \cup {0}, seq : Seqs \cup {0}]
      BY DEF N!NoAck
    <3>4. /\ fake'[t] = N!Unmarked(t, fd) /\ route'[t] = route[t] \ {fd}
          /\ ack'[t] = IF ack[t].fd = fd THEN N!NoAck ELSE ack[t]
      BY <3>1 DEF NetTypes
    <3>5. /\ fake' \in [Tracees -> Tracking] /\ route' \in [Tracees -> SUBSET Fds]
          /\ ack' \in [Tracees -> [fd : Fds \cup {0}, seq : Seqs \cup {0}]]
          /\ \A u \in Tracees \ {t} : fake'[u] = fake[u] /\ route'[u] = route[u] /\ ack'[u] = ack[u]
      BY <3>1, <3>2, <3>3 DEF NetTypes
    <3> QED BY <3>2, <3>4, <3>5
  <2> QED BY <2>1, <2>2
<1>5. NetTypes'
  BY <1>1, <1>2, <1>4 DEF NetTypes
<1>6. TrackedPart'
  <2>1. ASSUME ~host.filter
        PROVE  /\ \A f \in FdsIn(fake'[t]) : files'[t][f][2] = "fake"
               /\ \A f \in route'[t] : files'[t][f][2] = "real"
    <3>1. /\ FdsIn(fake'[t]) \subseteq FdsIn(fake[t]) /\ route'[t] \subseteq route[t]
          /\ fd \notin FdsIn(fake'[t]) /\ fd \notin route'[t]
      BY <1>4, <2>1
    <3>2. /\ \A f \in FdsIn(fake[t]) : files[t][f][2] = "fake"
          /\ \A f \in route[t] : files[t][f][2] = "real"
      BY <1>3, <2>1 DEF TrackedOK
    <3> QED BY <1>2, <1>3, <3>1, <3>2
  <2> QED BY <1>1, <1>2, <1>4, <2>1 DEF TrackedPart, TrackedOK
<1>7. HostPart'
  <2>1. host.blocked => \A f \in Fds : files'[t][f][2] # "real"
    BY <1>2 DEF HostPart, N!Closed, N!None
  <2>2. ~host.blocked => FdsIn(fake'[t]) = {}
    BY <1>4 DEF HostPart
  <2>3. ack'[t] # N!NoAck => ack'[t].fd \in route'[t]
    BY <1>4 DEF HostPart
  <2>4. \A u \in Tracees \ {t} : files'[u] = files[u] /\ fake'[u] = fake[u] /\ route'[u] = route[u] /\ ack'[u] = ack[u]
    BY <1>2, <1>4
  <2> QED BY <1>1, <2>1, <2>2, <2>3, <2>4 DEF HostPart
<1>8. QuietPart'
  BY <1>1, <1>4 DEF QuietPart
<1>9. QueuePart'
  <2>1. \A u \in Tracees, x \in Sockets : (Reads(u, x)' <=> Reads(u, x)) /\ (Reads(u, x) => u # t)
    BY <1>1, <1>2 DEF Reads
  <2> QED BY <1>1, <1>4, <2>1, QueueSame
<1> QED BY <1>5, <1>6, <1>7, <1>8, <1>9

LEMMA ChildKeeps ==
  ASSUME NetUsual, NetInv, NEW t \in Tracees, NEW c \in Tracees, NEW newnet \in BOOLEAN, N!new_child(t, c, newnet)
  PROVE  NetInv'
<1> USE DEF NetInv
<1> DEFINE f == [i \in DOMAIN fake[t] |-> [fd |-> fake[t][i].fd, reply |-> <<>>]]
<1>1. /\ c \notin alive /\ t \in alive /\ guest[c] = N!Idle /\ ack[c] = N!NoAck /\ alive' = alive \cup {c}
      /\ files' = [files EXCEPT ![c] = files[t]] /\ fake' = [fake EXCEPT ![c] = f]
      /\ route' = [route EXCEPT ![c] = route[t]] /\ netns' = [netns EXCEPT ![c] = netns[t] \/ newnet]
      /\ UNCHANGED <<host, queue, ack, guest>>
  BY DEF N!new_child, N!Free, QuietPart
<1>2. f \in Tracking /\ DOMAIN f = DOMAIN fake[t] /\ \A i \in DOMAIN f : f[i].fd = fake[t][i].fd
  <2>1. fake[t] \in Seq(TrackEntry) /\ \A i \in DOMAIN fake[t] : fake[t][i] \in TrackEntry
    BY DEF NetTypes, Tracking
  <2>2. \A i \in DOMAIN fake[t] : [fd |-> fake[t][i].fd, reply |-> <<>>] \in TrackEntry
    BY <2>1 DEF TrackEntry, Replies
  <2>3. f \in [1 .. Len(fake[t]) -> TrackEntry] /\ Len(fake[t]) \in Nat
    <3>1. DOMAIN fake[t] = 1 .. Len(fake[t]) /\ Len(fake[t]) \in Nat
      BY <2>1
    <3>2. f \in [DOMAIN fake[t] -> TrackEntry]
      BY <2>2, Zenon
    <3> QED BY <3>1, <3>2
  <2>4. DOMAIN f = DOMAIN fake[t] /\ \A i \in DOMAIN f : f[i].fd = fake[t][i].fd
    OBVIOUS
  <2> HIDE DEF f
  <2>5. f \in Seq(TrackEntry)
    BY <2>3
  <2> QED BY <2>4, <2>5 DEF Tracking
<1> HIDE DEF f
<1>3. FdsIn(f) = FdsIn(fake[t]) /\ TrackedOK(f, files[t], route[t])
  <2>1. TrackedOK(fake[t], files[t], route[t])
    BY DEF TrackedPart
  <2>2. FdsIn(f) = FdsIn(fake[t]) /\ Once(f)
    BY <1>2, <2>1 DEF FdsIn, Once, TrackedOK
  <2> QED BY <2>1, <2>2 DEF TrackedOK
<1>4. NetTypes'
  BY <1>1, <1>2 DEF NetTypes
<1>5. TrackedPart'
  <2>1. /\ fake'[c] = f /\ files'[c] = files[t] /\ route'[c] = route[t] /\ host' = host
        /\ \A u \in Tracees \ {c} : fake'[u] = fake[u] /\ files'[u] = files[u] /\ route'[u] = route[u]
    BY <1>1 DEF NetTypes
  <2> QED BY <1>3, <2>1 DEF TrackedPart, TrackedOK
<1>6. HostPart'
  <2>1. /\ fake'[c] = f /\ files'[c] = files[t] /\ ack'[c] = N!NoAck
        /\ \A u \in Tracees \ {c} : fake'[u] = fake[u] /\ files'[u] = files[u] /\ route'[u] = route[u] /\ ack'[u] = ack[u]
    BY <1>1 DEF NetTypes
  <2> QED BY <1>1, <1>3, <2>1 DEF HostPart
<1>7. QuietPart'
  BY <1>1 DEF QuietPart, NetTypes
<1>8. QueuePart'
  <2>1. \A u \in Tracees, x \in Sockets : Reads(u, x)' <=> Reads(u, x)
    BY <1>1 DEF Reads, NetTypes
  <2>2. \A u \in Tracees, x \in Sockets : Reads(u, x) => u # c /\ netns'[u] = netns[u] /\ route'[u] = route[u]
    BY <1>1 DEF Reads, NetTypes
  <2> QED BY <1>1, <2>1, <2>2, QueueSame
<1> QED BY <1>4, <1>5, <1>6, <1>7, <1>8

LEMMA PeekedIs ==
  ASSUME NEW g \in Reader, NEW b \in BOOLEAN
  PROVE  LET h == [g EXCEPT !.peeked = b]
         IN  h \in Reader /\ h.fd = g.fd /\ h.seq = g.seq /\ h.until = g.until /\ h # N!Idle
<1>1. [g EXCEPT !.peeked = b] \in Reader
  BY DEF Reader
<1> QED BY <1>1, ReaderIs DEF Reader

LEMMA WaitingIs ==
  ASSUME NEW r \in N!Requests
  PROVE  /\ N!Waiting(r) \in Reader /\ N!Waiting(r) # N!Idle
         /\ N!Waiting(r).fd = r.fd /\ N!Waiting(r).seq = r.seq /\ N!Waiting(r).until = IF r.dump THEN "done" ELSE "any"
<1>1. N!Waiting(r) \in Reader
  BY DEF N!Requests, N!Waiting, Reader
<1> QED BY <1>1, ReaderIs DEF N!Waiting

(* Replies are put and consumed in entries that stay.                      *)
LEMMA RepliesChange ==
  ASSUME NetTypes, TrackedPart, HostPart, files' = files, route' = route, host' = host, ack' = ack,
         \A u \in Tracees : DOMAIN fake'[u] = DOMAIN fake[u] /\ \A i \in DOMAIN fake[u] : fake'[u][i].fd = fake[u][i].fd
  PROVE  TrackedPart' /\ HostPart'
<1>1. \A u \in Tracees : FdsIn(fake'[u]) = FdsIn(fake[u])
  BY DEF FdsIn
<1>2. TrackedPart'
  <2> SUFFICES ASSUME NEW u \in Tracees
               PROVE  /\ Once(fake'[u])
                      /\ ~host.filter => /\ \A fd \in FdsIn(fake'[u]) : files[u][fd][2] = "fake"
                                         /\ \A fd \in route[u] : files[u][fd][2] = "real"
    BY DEF TrackedPart, TrackedOK
  <2>1. TrackedOK(fake[u], files[u], route[u])
    BY DEF TrackedPart
  <2> QED BY <1>1, <2>1 DEF TrackedOK, Once
<1>3. HostPart'
  BY <1>1 DEF HostPart
<1> QED BY <1>2, <1>3

LEMMA TrackedIsNotReal ==
  ASSUME NetTypes, HostPart, NEW t \in Tracees, NEW fd \in FdsIn(fake[t])
  PROVE  files[t][fd][2] # "real"
<1>1. host.blocked \in BOOLEAN /\ fd \in Fds
  BY TrackedAreFds DEF NetTypes
<1> QED BY <1>1 DEF HostPart

LEMMA SendFakeKeeps ==
  ASSUME NetUsual, NetInv, NEW t \in Tracees, NEW r \in N!Requests, NEW n \in Nat,
         N!Free(t), N!SendFake(t, r, n), UNCHANGED <<host, alive, files, route, netns>>
  PROVE  NetInv'
<1> USE DEF NetInv
<1>1. /\ r.fd \in N!Tracked(t) /\ N!SetReply(t, r.fd, N!build_fake_netlink_reply(r, n))
      /\ guest' = [guest EXCEPT ![t] = N!Waiting(r)] /\ queue' = queue /\ ack' = ack
      /\ guest[t] = N!Idle /\ t \in alive
  BY DEF N!SendFake, N!Free
<1>2. N!build_fake_netlink_reply(r, n) \in Seq(Message)
  BY ReplyType DEF Replies
<1>3. /\ fake' \in [Tracees -> Tracking]
      /\ \A u \in Tracees : DOMAIN fake'[u] = DOMAIN fake[u] /\ \A i \in DOMAIN fake[u] : fake'[u][i].fd = fake[u][i].fd
  BY <1>1, <1>2, ReplySet
<1>4. guest'[t] \in Reader /\ guest'[t].fd = r.fd /\ \A u \in Tracees \ {t} : guest'[u] = guest[u]
  BY <1>1, WaitingIs DEF NetTypes
<1>5. NetTypes'
  BY <1>1, <1>3, WaitingIs DEF NetTypes
<1>6. TrackedPart' /\ HostPart'
  BY <1>1, <1>3, RepliesChange
<1>7. QuietPart'
  BY <1>1, <1>4 DEF QuietPart
<1>8. QueuePart'
  <2>1. files[t][r.fd][2] # "real"
    BY <1>1, TrackedIsNotReal DEF N!Tracked, FdsIn
  <2>2. \A x \in Sockets : ~Reads(t, x)' /\ ~Reads(t, x)
    BY <1>1, <1>4, <2>1 DEF Reads
  <2>3. \A u \in Tracees, x \in Sockets : Reads(u, x)' <=> Reads(u, x)
    BY <1>4, <2>2 DEF Reads
  <2> QED BY <1>1, <1>4, <2>2, <2>3, QueueSame
<1> QED BY <1>5, <1>6, <1>7, <1>8

(* The answer of the kernel is one the reader waits for.                   *)
LEMMA KernelAnswerIs ==
  ASSUME NetUsual, NEW r \in N!Requests, NEW pretend \in BOOLEAN, NEW e \in {"EPERM", "EEXIST"}, NEW ns \in BOOLEAN, NEW a,
         NEW known \in BOOLEAN,
         N!nl_type_reconfigures(r) => pretend = ns /\ ((ns /\ known) => a = [fd |-> r.fd, seq |-> r.seq])
  PROVE  /\ N!KernelAnswer(r, pretend, e) \in Seq(Message)
         /\ AnswerTo(N!KernelAnswer(r, pretend, e), N!Waiting(r), ns, known, a)
<1> DEFINE q == N!KernelAnswer(r, pretend, e)
           g == N!Waiting(r)
           item == N!Msg("item", r.seq, N!None)
           done == N!Msg("done", r.seq, N!None)
           single == [N!Msg(IF N!nl_type_reconfigures(r) THEN "error" ELSE "item", r.seq, e) EXCEPT !.pretend = pretend]
<1>1. r.seq \in Nat /\ r.dump \in BOOLEAN /\ g.fd = r.fd /\ g.seq = r.seq /\ g.until = IF r.dump THEN "done" ELSE "any"
  BY WaitingIs DEF NetUsual, N!Requests
<1>2. /\ item \in Message /\ item.seq = r.seq /\ item.kind = "item"
      /\ done \in Message /\ done.seq = r.seq /\ done.kind = "done"
  BY <1>1 DEF N!Msg, N!None, Message, Errors
<1>3. /\ single \in Message /\ single.seq = r.seq /\ single.pretend = pretend
      /\ single.kind = IF N!nl_type_reconfigures(r) THEN "error" ELSE "item"
  BY <1>1 DEF N!Msg, Message, Errors, N!Refusals
<1> HIDE DEF item, done, single
<1>4. CASE r.dump
  <2>1. q = Append(N!Items(1, r.seq), done)
    BY <1>4 DEF N!KernelAnswer, N!Terminated, done
  <2>2. N!Items(1, r.seq) = [i \in 1 .. 1 |-> item]
    BY DEF N!Items, item
  <2>3. N!Items(1, r.seq) \in Seq(Message) /\ Len(N!Items(1, r.seq)) = 1 /\ N!Items(1, r.seq)[1] = item
    <3> DEFINE p == [i \in 1 .. 1 |-> item]
    <3>1. p \in Seq(Message)
      BY <1>2
    <3>2. DOMAIN p = 1 .. 1 /\ p[1] = item
      OBVIOUS
    <3> HIDE DEF p
    <3>3. Len(p) = 1
      BY <3>1, <3>2
    <3> QED BY <2>2, <3>1, <3>2, <3>3 DEF p
  <2>4. q \in Seq(Message) /\ Len(q) = 2 /\ DOMAIN q = {1, 2} /\ q[1] = item /\ q[2] = done
    <3> HIDE DEF q
    <3> QED BY <1>2, <2>1, <2>3
  <2> HIDE DEF q, g
  <2>5. AnswerTo(q, g, ns, known, a)
    BY <1>1, <1>2, <1>4, <2>4 DEF AnswerTo
  <2> QED BY <2>4, <2>5 DEF q, g
<1>5. CASE ~r.dump
  <2>1. q = <<single>>
    BY <1>5 DEF N!KernelAnswer, single
  <2>2. q \in Seq(Message) /\ Len(q) = 1 /\ DOMAIN q = {1} /\ q[1] = single
    <3> HIDE DEF q
    <3> QED BY <1>3, <2>1
  <2> HIDE DEF q, g
  <2>3. AnswerTo(q, g, ns, known, a)
    BY <1>1, <1>3, <1>5, <2>2 DEF AnswerTo
  <2> QED BY <2>2, <2>3 DEF q, g
<1> QED BY <1>1, <1>4, <1>5

LEMMA SendRealKeeps ==
  ASSUME NetUsual, NetInv, NEW t \in Tracees, NEW r \in N!Requests, NEW e \in {"EPERM", "EEXIST"},
         N!Free(t), N!SendReal(t, r, e), UNCHANGED <<host, alive, files, route, netns>>
  PROVE  NetInv'
<1> USE DEF NetInv
<1> DEFINE pretend == netns[t] /\ N!nl_type_reconfigures(r)
           known == r.fd \in route[t]
           asked == [fd |-> r.fd, seq |-> r.seq]
<1>1. /\ guest[t] = N!Idle /\ t \in alive /\ files[t][r.fd][2] = "real" /\ fake' = fake
      /\ \A u \in alive : guest[u].does = "read" => files[u][guest[u].fd] # files[t][r.fd]
      /\ ack' = [ack EXCEPT ![t] = IF N!is_netns_netlink_fd(t, r.fd) /\ N!nl_type_reconfigures(r) THEN asked ELSE ack[t]]
  BY DEF N!SendReal, N!Free, N!Is
<1>2. r.fd \in Fds /\ r.seq \in Seqs
  BY DEF N!Requests
<1>4. /\ ack' \in [Tracees -> [fd : Fds \cup {0}, seq : Seqs \cup {0}]]
      /\ ack'[t] = IF pretend /\ known THEN asked ELSE ack[t]
      /\ \A u \in Tracees \ {t} : ack'[u] = ack[u]
  BY <1>1, <1>2 DEF NetTypes, N!is_netns_netlink_fd
<1>5. PICK s \in Sockets : files[t][r.fd] = <<s, "real">>
  <2>1. files[t][r.fd] \in FileType
    BY <1>2 DEF NetTypes
  <2> QED BY <1>1, <2>1 DEF FileType, N!Closed, N!None
<1>6. \A u \in Tracees : ~Reads(u, s)
  <2>1. \A u \in Tracees : guest[u] # N!Idle => u \in alive /\ guest[u].does = "read"
    BY ReaderIs DEF QuietPart, NetTypes
  <2> QED BY <1>1, <1>5, <2>1 DEF Reads
<1>7. queue[s] = <<>>
  BY <1>6 DEF QueuePart
<1>8. QuietPart'
  <2>1. ~netns[t] => ~pretend
    OBVIOUS
  <2>2. \A u \in Tracees \ {t} : guest'[u] = guest[u]
    BY <1>1 DEF N!SendReal, NetTypes
  <2> QED BY <1>1, <1>4, <2>1, <2>2 DEF QuietPart
<1>9. TrackedPart' /\ HostPart'
  <2>1. TrackedPart'
    BY <1>1 DEF TrackedPart, TrackedOK
  <2>2. ack'[t] # N!NoAck => ack'[t].fd \in route[t]
    BY <1>4 DEF HostPart
  <2> QED BY <1>1, <1>4, <2>1, <2>2 DEF HostPart
<1>10. CASE UNCHANGED <<queue, guest>>
  <2>1. NetTypes'
    BY <1>1, <1>4, <1>10 DEF NetTypes
  <2>2. \A u \in Tracees, x \in Sockets : (Reads(u, x)' <=> Reads(u, x)) /\ (Reads(u, x) => u # t)
    BY <1>1, <1>10 DEF Reads
  <2>3. QueuePart'
    BY <1>4, <1>10, <2>2, QueueSame
  <2> QED BY <1>8, <1>9, <2>1, <2>3
<1>11. CASE /\ queue' = [queue EXCEPT ![files[t][r.fd][1]] = queue[files[t][r.fd][1]] \o N!KernelAnswer(r, pretend, e)]
            /\ guest' = [guest EXCEPT ![t] = N!Waiting(r)]
  <2>1. /\ N!KernelAnswer(r, pretend, e) \in Seq(Message)
        /\ AnswerTo(N!KernelAnswer(r, pretend, e), N!Waiting(r), netns[t], known, ack'[t])
    <3>1. netns[t] \in BOOLEAN /\ pretend \in BOOLEAN /\ known \in BOOLEAN
      BY DEF NetTypes, N!nl_type_reconfigures
    <3>2. N!nl_type_reconfigures(r) => pretend = netns[t] /\ ((netns[t] /\ known) => ack'[t] = asked)
      BY <1>4, <3>1
    <3> HIDE DEF pretend, known
    <3> QED BY <3>1, <3>2, KernelAnswerIs
  <2> DEFINE q == N!KernelAnswer(r, pretend, e)
  <2> HIDE DEF q
  <2>2. queue' = [queue EXCEPT ![s] = q]
    <3>1. <<>> \o q = q
      BY <2>1 DEF q
    <3>2. files[t][r.fd][1] = s
      BY <1>5
    <3> QED BY <1>7, <1>11, <3>1, <3>2 DEF q
  <2>3. queue' \in [Sockets -> Seq(Message)] /\ queue'[s] = q /\ \A x \in Sockets \ {s} : queue'[x] = queue[x]
    BY <2>1, <2>2 DEF NetTypes, q
  <2>4. /\ guest' \in [Tracees -> Reader \cup {N!Idle}] /\ guest'[t] = N!Waiting(r)
        /\ \A u \in Tracees \ {t} : guest'[u] = guest[u]
    BY <1>11, WaitingIs DEF NetTypes
  <2>5. NetTypes'
    BY <1>1, <1>4, <2>3, <2>4 DEF NetTypes
  <2>6. /\ Reads(t, s)' /\ \A x \in Sockets : Reads(t, x)' => x = s
        /\ \A u \in Tracees \ {t}, x \in Sockets : Reads(u, x)' <=> Reads(u, x)
        /\ \A x \in Sockets : ~Reads(t, x)
    BY <1>1, <1>5, <2>4, WaitingIs DEF Reads
  <2>7. ASSUME NEW x \in Sockets
        PROVE  /\ queue'[x] # <<>> => \E u \in Tracees : Reads(u, x)'
               /\ \A u \in Tracees : Reads(u, x)' =>
                    /\ AnswerTo(queue'[x], guest'[u], netns'[u], IsRecorded(u)', ack'[u])
                    /\ \A v \in Tracees : Reads(v, x)' => v = u
    <3>1. CASE x = s
      <4>1. \A u \in Tracees : Reads(u, s)' => u = t
        BY <1>6, <2>6
      <4>2. AnswerTo(queue'[s], guest'[t], netns'[t], IsRecorded(t)', ack'[t])
        <5>1. IsRecorded(t)' <=> known
          BY <2>4, WaitingIs DEF IsRecorded
        <5> QED BY <2>1, <2>3, <2>4, <5>1 DEF q, AnswerTo
      <4> QED BY <2>6, <3>1, <4>1, <4>2
    <3>2. CASE x # s
      <4>1. \A u \in Tracees : Reads(u, x)' <=> Reads(u, x)
        BY <2>6, <3>2
      <4>2. \A u \in Tracees : Reads(u, x) => /\ u # t /\ guest'[u] = guest[u] /\ netns'[u] = netns[u] /\ ack'[u] = ack[u]
                                              /\ (IsRecorded(u)' <=> IsRecorded(u))
        BY <1>4, <2>4, <2>6 DEF IsRecorded
      <4>3. queue'[x] = queue[x]
        BY <2>3, <3>2
      <4> QED BY <4>1, <4>2, <4>3 DEF QueuePart, AnswerTo
    <3> QED BY <3>1, <3>2
  <2>8. QueuePart'
    BY <2>7 DEF QueuePart
  <2> QED BY <1>8, <1>9, <2>5, <2>8
<1> QED BY <1>10, <1>11 DEF N!SendReal

LEMMA RecvFakeKeeps ==
  ASSUME NetUsual, NetInv, NEW t \in Tracees, NEW fd \in Fds, NEW peek \in BOOLEAN, N!RecvFake(t, fd, peek)
  PROVE  NetInv'
<1> USE DEF NetInv
<1>1. /\ t \in alive /\ guest[t].does = "read" /\ guest[t].fd = fd /\ fd \in N!Tracked(t) /\ N!Reply(t, fd) # <<>>
      /\ UNCHANGED <<host, alive, files, queue, route, netns, ack>>
  BY DEF N!RecvFake, N!Reading, N!kernel
<1>2. guest[t] \in Reader
  BY <1>1, ReaderIs DEF NetTypes
<1>3. N!Reply(t, fd) \in Seq(Message)
  <2>1. fake[t] \in Seq(TrackEntry) /\ N!EntryOf(t, fd) \in DOMAIN fake[t]
    BY <1>1, EntryIs DEF NetTypes, Tracking
  <2>2. fake[t][N!EntryOf(t, fd)] \in TrackEntry
    BY <2>1
  <2> QED BY <2>2 DEF N!Reply, TrackEntry, Replies
<1>4. /\ fake' \in [Tracees -> Tracking]
      /\ \A u \in Tracees : DOMAIN fake'[u] = DOMAIN fake[u] /\ \A i \in DOMAIN fake[u] : fake'[u][i].fd = fake[u][i].fd
  <2>1. CASE fake' = fake
    BY <2>1 DEF NetTypes
  <2>2. CASE fake' # fake
    <3> DEFINE rest == SubSeq(N!Reply(t, fd), N!fake_netlink_datagram_len(N!Reply(t, fd)) + 1, Len(N!Reply(t, fd)))
    <3>1. N!SetReply(t, fd, rest)
      BY <2>2 DEF N!RecvFake
    <3>2. rest \in Seq(Message)
      BY <1>1, <1>3, RestType
    <3> HIDE DEF rest
    <3> QED BY <1>1, <3>1, <3>2, ReplySet
  <2> QED BY <2>1, <2>2
<1>5. PICK g : /\ guest' = [guest EXCEPT ![t] = g]
               /\ g = N!Idle \/ (g \in Reader /\ g.fd = fd)
  <2>1. CASE peek
    <3>1. guest' = [guest EXCEPT ![t] = [guest[t] EXCEPT !.peeked = TRUE]]
      BY <2>1 DEF N!RecvFake
    <3> QED BY <1>1, <1>2, <3>1, PeekedIs
  <2>2. CASE ~peek
    <3>1. PICK d : N!Goes(t, d)
      BY <2>2 DEF N!RecvFake
    <3>2. guest' = [guest EXCEPT ![t] = IF N!Ends(guest[t], d) THEN N!Idle ELSE [guest[t] EXCEPT !.peeked = FALSE]]
      BY <3>1 DEF N!Goes
    <3> QED BY <1>1, <1>2, <3>2, PeekedIs
  <2> QED BY <2>1, <2>2
<1>6. guest' \in [Tracees -> Reader \cup {N!Idle}] /\ guest'[t] = g /\ \A u \in Tracees \ {t} : guest'[u] = guest[u]
  BY <1>5 DEF NetTypes
<1>7. NetTypes'
  BY <1>1, <1>4, <1>6 DEF NetTypes
<1>8. TrackedPart' /\ HostPart'
  BY <1>1, <1>4, RepliesChange
<1>9. QuietPart'
  BY <1>1, <1>6 DEF QuietPart
<1>10. QueuePart'
  <2>1. files[t][fd][2] # "real"
    BY <1>1, TrackedIsNotReal DEF N!Tracked, FdsIn
  <2>2. \A x \in Sockets : ~Reads(t, x)' /\ ~Reads(t, x)
    BY <1>1, <1>5, <1>6, <2>1 DEF Reads
  <2>3. \A u \in Tracees, x \in Sockets : Reads(u, x)' <=> Reads(u, x)
    BY <1>1, <1>6, <2>2 DEF Reads
  <2> QED BY <1>1, <1>6, <2>2, <2>3, QueueSame
<1> QED BY <1>7, <1>8, <1>9, <1>10

LEMMA ShortTail ==
  ASSUME NEW q \in Seq(Message)
  PROVE  /\ Len(q) = 1 => Tail(q) = <<>>
         /\ Len(q) = 2 => Len(Tail(q)) = 1 /\ DOMAIN Tail(q) = {1} /\ Tail(q)[1] = q[2]
<1>1. ASSUME q # <<>>
      PROVE  /\ Tail(q) \in Seq(Message) /\ Len(Tail(q)) = Len(q) - 1
             /\ \A i \in 1 .. Len(Tail(q)) : Tail(q)[i] = q[i + 1]
  BY <1>1, HeadTailProperties
<1>2. <<>> \in Seq(Message) /\ Len(<<>>) = 0
  OBVIOUS
<1>3. ASSUME Len(q) = 1 PROVE Tail(q) = <<>>
  <2>1. Tail(q) \in Seq(Message) /\ Len(Tail(q)) = 0
    BY <1>1, <1>2, <1>3
  <2> QED BY <2>1, EmptySeq
<1>4. ASSUME Len(q) = 2 PROVE Len(Tail(q)) = 1 /\ DOMAIN Tail(q) = {1} /\ Tail(q)[1] = q[2]
  <2>1. /\ Tail(q) \in Seq(Message) /\ Len(Tail(q)) = 1
        /\ \A i \in 1 .. Len(Tail(q)) : Tail(q)[i] = q[i + 1]
    BY <1>1, <1>2, <1>4
  <2>2. DOMAIN Tail(q) = 1 .. Len(Tail(q))
    BY <2>1, LenProperties
  <2>3. DOMAIN Tail(q) = {1}
    <3>1. \A n : n = 1 => 1 .. n = {1}
      OBVIOUS
    <3>2. PICK n : n = Len(Tail(q))
      OBVIOUS
    <3> QED BY <2>1, <2>2, <3>1, <3>2
  <2>4. Tail(q)[1] = q[2]
    <3>1. PICK n, r : n = Len(Tail(q)) /\ r = Tail(q)
      OBVIOUS
    <3>2. n = 1 /\ \A i \in 1 .. n : r[i] = q[i + 1]
      BY <2>1, <3>1
    <3>3. r[1] = q[2]
      <4>1. 1 \in 1 .. 1 /\ 1 + 1 = 2
        OBVIOUS
      <4> QED BY <3>2, <4>1
    <3> QED BY <3>1, <3>3
  <2> QED BY <2>1, <2>3, <2>4
<1> QED BY <1>3, <1>4

(* Who reads, and what waits for it.                                       *)
LEMMA RecvRealIs ==
  ASSUME NetInv, NEW t \in Tracees, NEW fd \in Fds, NEW peek \in BOOLEAN, N!RecvReal(t, fd, peek)
  PROVE  \E s \in Sockets :
           /\ files[t][fd] = <<s, "real">> /\ Reads(t, s) /\ t \in alive
           /\ guest[t] \in Reader /\ guest[t].fd = fd
           /\ queue[s] \in Seq(Message) /\ queue[s] # <<>> /\ Head(queue[s]) = queue[s][1] /\ 1 \in DOMAIN queue[s]
           /\ AnswerTo(queue[s], guest[t], netns[t], IsRecorded(t), ack[t])
<1> USE DEF NetInv
<1>1. /\ t \in alive /\ guest[t].does = "read" /\ guest[t].fd = fd /\ files[t][fd][2] = "real"
      /\ queue[files[t][fd][1]] # <<>>
  BY DEF N!RecvReal, N!Reading, N!Is
<1>2. guest[t] \in Reader /\ guest[t] # N!Idle
  BY <1>1, ReaderIs DEF NetTypes
<1>3. PICK s \in Sockets : files[t][fd] = <<s, "real">>
  <2>1. files[t][fd] \in FileType
    BY DEF NetTypes
  <2> QED BY <1>1, <2>1 DEF FileType, N!Closed, N!None
<1>4. Reads(t, s)
  BY <1>1, <1>2, <1>3 DEF Reads
<1>5. queue[s] \in Seq(Message) /\ queue[s] # <<>>
  BY <1>1, <1>3 DEF NetTypes
<1>6. Head(queue[s]) = queue[s][1] /\ 1 \in DOMAIN queue[s]
  BY <1>5
<1>7. AnswerTo(queue[s], guest[t], netns[t], IsRecorded(t), ack[t])
  BY <1>4 DEF QueuePart
<1> QED BY <1>1, <1>2, <1>3, <1>4, <1>5, <1>6, <1>7

LEMMA AckHonest ==
  ASSUME NetUsual, NetInv, NEW t \in Tracees, NEW fd \in Fds, NEW peek \in BOOLEAN, N!RecvReal(t, fd, peek)
  PROVE  LET m == Head(queue[files[t][fd][1]])
         IN  m.kind = "error" /\ m.seq = guest[t].seq =>
               N!handle_netlink_reply_exit(t, fd, m) =
                 IF (m.pretend /\ m.err \in N!Refusals) /\ fd \in route[t] THEN "ok" ELSE m.err
<1>1. PICK s \in Sockets :
           /\ files[t][fd] = <<s, "real">> /\ Reads(t, s) /\ t \in alive
           /\ guest[t] \in Reader /\ guest[t].fd = fd
           /\ queue[s] \in Seq(Message) /\ queue[s] # <<>> /\ Head(queue[s]) = queue[s][1] /\ 1 \in DOMAIN queue[s]
           /\ AnswerTo(queue[s], guest[t], netns[t], IsRecorded(t), ack[t])
  BY RecvRealIs
<1>2. PICK m : m = queue[s][1]
  OBVIOUS
<1>3. Head(queue[files[t][fd][1]]) = m
  BY <1>1, <1>2
<1>4. SUFFICES ASSUME m.kind = "error" /\ m.seq = guest[t].seq
               PROVE  (ack[t].fd = fd /\ m.seq = ack[t].seq) <=> (m.pretend /\ fd \in route[t])
  <2>1. m \in Message
    BY <1>1, <1>2
  <2> QED BY <1>3, <2>1 DEF N!handle_netlink_reply_exit, Message
<1>5. m.pretend = netns[t] /\ ((netns[t] /\ fd \in route[t]) => ack[t] = [fd |-> fd, seq |-> guest[t].seq])
  <2>1. guest[t].until \in {"done", "any"} /\ (IsRecorded(t) <=> fd \in route[t])
    BY <1>1 DEF Reader, IsRecorded
  <2> QED BY <1>1, <1>2, <1>4, <2>1 DEF AnswerTo
<1>6. netns[t] \in BOOLEAN /\ (~netns[t] => ack[t] = N!NoAck) /\ (ack[t] = N!NoAck \/ ack[t].fd \in route[t])
  BY DEF NetInv, NetTypes, QuietPart, HostPart
<1>7. guest[t].seq # 0
  BY <1>1 DEF Reader, NetUsual
<1>8. CASE netns[t]
  <2>1. CASE fd \in route[t]
    BY <1>4, <1>5, <1>8, <2>1
  <2>2. CASE fd \notin route[t]
    BY <1>4, <1>6, <1>7, <2>2 DEF N!NoAck
  <2> QED BY <2>1, <2>2
<1>9. CASE ~netns[t]
  BY <1>4, <1>5, <1>6, <1>7, <1>9 DEF N!NoAck
<1> QED BY <1>6, <1>8, <1>9

LEMMA RecvRealKeeps ==
  ASSUME NetUsual, NetInv, NEW t \in Tracees, NEW fd \in Fds, NEW peek \in BOOLEAN, N!RecvReal(t, fd, peek)
  PROVE  NetInv'
<1> USE DEF NetInv
<1>1. PICK s \in Sockets :
           /\ files[t][fd] = <<s, "real">> /\ Reads(t, s) /\ t \in alive
           /\ guest[t] \in Reader /\ guest[t].fd = fd
           /\ queue[s] \in Seq(Message) /\ queue[s] # <<>> /\ Head(queue[s]) = queue[s][1] /\ 1 \in DOMAIN queue[s]
           /\ AnswerTo(queue[s], guest[t], netns[t], IsRecorded(t), ack[t])
  BY RecvRealIs
<1>2. UNCHANGED <<host, alive, files, fake, route, netns>>
  BY DEF N!RecvReal
<1>3. TrackedPart'
  BY <1>2 DEF TrackedPart, TrackedOK
<1>4. CASE peek
  <2>1. guest' = [guest EXCEPT ![t] = [guest[t] EXCEPT !.peeked = TRUE]] /\ UNCHANGED <<queue, ack>>
    BY <1>4 DEF N!RecvReal
  <2>2. /\ guest' \in [Tracees -> Reader \cup {N!Idle}] /\ guest'[t] \in Reader /\ guest'[t] # N!Idle
        /\ guest'[t].fd = guest[t].fd /\ guest'[t].seq = guest[t].seq /\ guest'[t].until = guest[t].until
        /\ \A u \in Tracees \ {t} : guest'[u] = guest[u]
    BY <1>1, <2>1, PeekedIs DEF NetTypes
  <2>3. NetTypes'
    BY <1>2, <2>1, <2>2 DEF NetTypes
  <2>4. QuietPart'
    BY <1>1, <1>2, <2>1, <2>2 DEF QuietPart
  <2>5. \A u \in Tracees, x \in Sockets : Reads(u, x)' <=> Reads(u, x)
    BY <1>1, <1>2, <2>2 DEF Reads
  <2>6. QueuePart'
    BY <1>2, <2>1, <2>2, <2>5, QueueSame
  <2>7. HostPart'
    BY <1>2, <2>1 DEF HostPart
  <2> QED BY <1>3, <2>3, <2>4, <2>6, <2>7
<1>5. CASE ~peek
  <2>1. PICK q, g, m : q = queue[s] /\ g = guest[t] /\ m = queue[s][1]
    OBVIOUS
  <2>2. m.seq = g.seq
    BY <1>1, <2>1 DEF AnswerTo
  <2>3. /\ queue' = [queue EXCEPT ![s] = Tail(q)]
        /\ ack' = [ack EXCEPT ![t] = IF ack[t].fd = fd THEN N!NoAck ELSE ack[t]]
        /\ N!Goes(t, <<m>>)
    BY <1>1, <1>5, <2>1, <2>2 DEF N!RecvReal
  <2>4. N!Ends(g, <<m>>) <=> g.until = "any" \/ m.kind = "done"
    <3>1. N!Walked(g.style, <<m>>) = <<m>>
      BY DEF N!Walked
    <3>2. N!ToSet(<<m>>) = {m}
      BY DEF N!ToSet
    <3> QED BY <3>1, <3>2 DEF N!Ends
  <2>5. PICK h : h = IF N!Ends(g, <<m>>) THEN N!Idle ELSE [g EXCEPT !.peeked = FALSE]
    OBVIOUS
  <2>6. guest' = [guest EXCEPT ![t] = h]
    BY <2>1, <2>3, <2>5 DEF N!Goes
  <2>7. h \in Reader \cup {N!Idle}
    BY <1>1, <2>1, <2>5, PeekedIs
  <2>8. /\ guest' \in [Tracees -> Reader \cup {N!Idle}] /\ guest'[t] = h
        /\ \A u \in Tracees \ {t} : guest'[u] = guest[u]
    BY <2>6, <2>7 DEF NetTypes
  <2>9. Tail(q) \in Seq(Message)
    BY <1>1, <2>1
  <2>10. queue' \in [Sockets -> Seq(Message)] /\ queue'[s] = Tail(q) /\ \A x \in Sockets \ {s} : queue'[x] = queue[x]
    BY <2>3, <2>9 DEF NetTypes
  <2>11. /\ ack' \in [Tracees -> [fd : Fds \cup {0}, seq : Seqs \cup {0}]]
         /\ ack'[t] \in {N!NoAck, ack[t]} /\ \A u \in Tracees \ {t} : ack'[u] = ack[u]
    <3>1. N!NoAck \in [fd : Fds \cup {0}, seq : Seqs \cup {0}]
      BY DEF N!NoAck
    <3> QED BY <2>3, <3>1 DEF NetTypes
  <2>12. NetTypes'
    BY <1>2, <2>8, <2>10, <2>11 DEF NetTypes
  <2>13. QuietPart'
    BY <1>1, <1>2, <2>8, <2>11 DEF QuietPart
  <2>14. \/ h = N!Idle /\ Tail(q) = <<>>
         \/ /\ h \in Reader /\ h # N!Idle /\ h.fd = fd
            /\ AnswerTo(Tail(q), h, netns[t], fd \in route[t], ack'[t])
    <3>1. /\ q \in Seq(Message) /\ g \in Reader /\ g.fd = fd /\ AnswerTo(q, g, netns[t], IsRecorded(t), ack[t]) /\ m = q[1]
          /\ g.until \in {"done", "any"}
      BY <1>1, <2>1 DEF Reader
    <3>2. CASE Len(q) = 1 /\ (g.until = "any" \/ q[1].kind = "done")
      <4>1. Tail(q) = <<>>
        BY <3>1, <3>2, ShortTail
      <4> QED BY <2>4, <2>5, <3>1, <3>2, <4>1
    <3>3. CASE g.until = "done" /\ Len(q) = 2 /\ q[1].kind = "item" /\ q[2].kind = "done"
      <4>1. Len(Tail(q)) = 1 /\ DOMAIN Tail(q) = {1} /\ Tail(q)[1] = q[2]
        BY <3>1, <3>3, ShortTail
      <4>2. h = [g EXCEPT !.peeked = FALSE]
        BY <2>4, <2>5, <3>1, <3>3
      <4>3. h \in Reader /\ h.fd = fd /\ h.seq = g.seq /\ h.until = "done" /\ h # N!Idle
        BY <3>1, <3>3, <4>2, PeekedIs
      <4>4. q[2].seq = g.seq
        BY <3>1, <3>3 DEF AnswerTo
      <4>5. AnswerTo(Tail(q), h, netns[t], fd \in route[t], ack'[t])
        BY <3>3, <4>1, <4>3, <4>4 DEF AnswerTo
      <4> QED BY <4>3, <4>5
    <3> QED BY <3>1, <3>2, <3>3 DEF AnswerTo
  <2>15. ASSUME NEW x \in Sockets
         PROVE  /\ queue'[x] # <<>> => \E u \in Tracees : Reads(u, x)'
                /\ \A u \in Tracees : Reads(u, x)' =>
                     /\ AnswerTo(queue'[x], guest'[u], netns'[u], IsRecorded(u)', ack'[u])
                     /\ \A v \in Tracees : Reads(v, x)' => v = u
    <3>1. \A u \in Tracees \ {t} : Reads(u, x)' <=> Reads(u, x)
      BY <1>2, <2>8 DEF Reads
    <3>2. Reads(t, x)' => x = s /\ h # N!Idle
      BY <1>1, <1>2, <2>8, <2>14 DEF Reads
    <3>3. CASE x = s
      <4>1. \A u \in Tracees : Reads(u, s)' => u = t
        BY <1>1, <3>1, <3>3 DEF QueuePart
      <4>2. h # N!Idle => Reads(t, s)' /\ AnswerTo(queue'[s], guest'[t], netns'[t], IsRecorded(t)', ack'[t])
        <5>1. h # N!Idle => (IsRecorded(t)' <=> fd \in route[t])
          BY <1>2, <2>8, <2>14 DEF IsRecorded
        <5> QED BY <1>1, <1>2, <2>8, <2>10, <2>14, <5>1 DEF Reads, AnswerTo
      <4> QED BY <2>10, <2>14, <3>2, <3>3, <4>1, <4>2
    <3>4. CASE x # s
      <4>1. \A u \in Tracees : Reads(u, x)' <=> Reads(u, x) /\ u # t
        BY <1>1, <3>1, <3>2, <3>4 DEF Reads
      <4>2. \A u \in Tracees : Reads(u, x) => u # t
        BY <1>1, <3>4 DEF Reads
      <4>3. queue'[x] = queue[x] /\ \A u \in Tracees \ {t} : guest'[u] = guest[u] /\ netns'[u] = netns[u] /\ ack'[u] = ack[u]
        BY <1>2, <2>8, <2>10, <2>11, <3>4
      <4>4. \A u \in Tracees \ {t} : IsRecorded(u)' <=> IsRecorded(u)
        BY <1>2, <2>8 DEF IsRecorded
      <4> QED BY <4>1, <4>2, <4>3, <4>4 DEF QueuePart, AnswerTo
    <3> QED BY <3>3, <3>4
  <2>16. QueuePart'
    BY <2>15 DEF QueuePart
  <2>17. HostPart'
    BY <1>2, <2>11 DEF HostPart
  <2> QED BY <1>3, <2>12, <2>13, <2>16, <2>17
<1> QED BY <1>4, <1>5

LEMMA NetNext == ASSUME NetUsual, NetInv, [N!Next]_(N!vars) PROVE NetInv'
<1>1. CASE UNCHANGED N!vars
  <2>1. UNCHANGED <<host, alive, files, queue, fake, route, netns, ack, guest>>
    BY <1>1 DEF N!vars
  <2>2. NetTypes'
    BY <2>1 DEF NetInv, NetTypes
  <2>3. TrackedPart'
    BY <2>1 DEF NetInv, TrackedPart, TrackedOK
  <2>4. HostPart' /\ QuietPart'
    BY <2>1 DEF NetInv, HostPart, QuietPart
  <2>5. \A u \in Tracees, s \in Sockets : Reads(u, s)' <=> Reads(u, s)
    BY <2>1 DEF Reads
  <2>6. QueuePart'
    BY <2>1, <2>5, QueueSame DEF NetInv
  <2> QED BY <2>2, <2>3, <2>4, <2>6 DEF NetInv
<1>2. ASSUME NEW t \in Tracees, N!Socket(t) PROVE NetInv'
  BY <1>2, SocketKeeps
<1>3. ASSUME NEW t \in Tracees, N!Read(t) PROVE NetInv'
  BY <1>3, RecvFakeKeeps, RecvRealKeeps DEF N!Read
<1>4. ASSUME NEW t \in Tracees, NEW c \in Tracees, NEW newnet \in BOOLEAN, N!new_child(t, c, newnet) PROVE NetInv'
  BY <1>4, ChildKeeps
<1>5. ASSUME NEW t \in Tracees, NEW fd \in Fds, N!Close(t, fd) PROVE NetInv'
  BY <1>5, CloseKeepsTracking
<1>6. ASSUME NEW t \in Tracees, NEW r \in N!Sent, NEW n \in {0, MaxItems + 1}, NEW e \in {"EPERM", "EEXIST"},
             N!Free(t), N!Send(t, r, n, e)
      PROVE  NetInv'
  <2>1. r \in N!Requests /\ n \in Nat
    BY DEF N!Sent, NetUsual
  <2>2. UNCHANGED <<host, alive, files, route, netns>> /\ (N!SendFake(t, r, n) \/ N!SendReal(t, r, e))
    BY <1>6 DEF N!Send
  <2> QED BY <1>6, <2>1, <2>2, SendFakeKeeps, SendRealKeeps
<1> QED BY <1>1, <1>2, <1>3, <1>4, <1>5, <1>6 DEF N!Next

LEMMA NetStepIsHonest == ASSUME NetUsual, NetInv, NetInv' PROVE N!HonestStep
<1>1. N!TrackedIsSubstitute'
  <2> SUFFICES ASSUME ~host'.filter, NEW t \in alive', NEW fd \in Fds
               PROVE  /\ (fd \in N!Tracked(t) => N!Is(t, fd, "fake"))'
                      /\ (fd \in route[t] => N!Is(t, fd, "real"))'
    BY DEF N!TrackedIsSubstitute
  <2>1. t \in Tracees
    BY DEF NetInv, NetTypes
  <2>2. TrackedOK(fake[t], files[t], route[t])'
    BY <2>1 DEF NetInv, TrackedPart
  <2> QED BY <2>2 DEF TrackedOK, FdsIn, N!Tracked, N!Is
<1>2. N!AckIsHonest
  BY AckHonest DEF N!AckIsHonest, NetInv, NetTypes
<1> QED BY <1>1, <1>2 DEF N!HonestStep

(* enter.c and exit.c, NETLINK_ROUTE: where each close(2) is a stop, PRoot  *)
(* answers only on sockets it substituted, in children as well; and, with   *)
(* the seccomp filter or without, it turns the refusal of exactly the       *)
(* requests that reconfigure a pretended namespace, on a socket it has      *)
(* recorded, into a success.                                                *)
THEOREM NetlinkStaysHonest == ASSUME NetUsual PROVE N!Spec => N!NetlinkIsHonest
<1>1. N!Init => NetInv
  BY NetInit
<1>2. NetInv /\ [N!Next]_(N!vars) => NetInv'
  BY NetNext
<1>3. NetInv /\ NetInv' /\ [N!Next]_(N!vars) => [N!HonestStep]_(N!vars)
  BY NetStepIsHonest
<1> QED BY <1>1, <1>2, <1>3, PTL DEF N!Spec, N!NetlinkIsHonest
=============================================================================
