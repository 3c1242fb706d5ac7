--------------------------- MODULE SysVShmProofs ---------------------------
(***************************************************************************)
(* SysVShm keeps segments as long as they are used, and its waits          *)
(* coherent, for every number of tracees, processes, slots and mappings.   *)
(*                                                                         *)
(* Neither property is inductive.  That the helper still holds a valid     *)
(* segment depends on the FREE requests that are in its pipe and not yet   *)
(* served: none of them may name the descriptor of a valid segment         *)
(* (FreedNotHeld), although descriptors are reused.  That fork maps only   *)
(* valid segments, and drops none, depends on a process that is still to   *)
(* be forked mapping nothing (UnbornUnmapped).  That a chain step finds    *)
(* its segment depends on the index a waiting or chained tracee carries.   *)
(* Inv adds these three.                                                   *)
(***************************************************************************)
EXTENDS SysVShm, TLAPS, FiniteSetTheorems, WellFoundedInduction, SequenceTheorems

Reasons == {"WR_NOT_WAITING", "WR_WAIT_SHMAT_HELPER_BUSY"}
WaitType ==
  [wait_reason : Reasons, wait_state : WaitStates, chain_state : Chained \cup {"NOT_CHAINED"},
   status_after_wait : Int, waiting_object_index : 0 .. MaxShms]
Cell == [pending : Nat, done : Nat]
ShmType == [valid : BOOLEAN, generation : Nat, rmid_pending : BOOLEAN, fd : 0 .. MaxShms]
Request == [op : {"FREE", "DISTRIBUTE"}, fds : SUBSET (0 .. MaxShms)]

TypesPart ==
  /\ shms \in [Slots -> ShmType]
  /\ maps \in [Procs -> [Slots -> Cell]]
  /\ fds \in [Fds -> Nat \X Nat]
  /\ requests \in Seq(Request)
  /\ life \in [Tracees -> {"unborn", "running", "killed", "freed"}]

(* A request to close a descriptor that is still in the pipe never names   *)
(* the one of a valid segment.                                             *)
FreedNotHeld ==
  \A i \in DOMAIN requests : requests[i].op = "FREE" =>
    \A s \in Slots : shms[s].valid => shms[s].fd \notin requests[i].fds

(* PRoot knows the descriptor of a valid segment.                          *)
FdKnown == \A s \in Slots : shms[s].valid => shms[s].fd \in Fds

(* A process that is still to be forked maps nothing.                      *)
Unmapped(cells) == \A s \in Slots : cells[s].pending + cells[s].done = 0
UnbornUnmapped ==
  \A u \in Tracees : life[u] = "unborn" => u \in Newborn /\ Unmapped(maps[ProcOf[u]])

SegmentsInv == /\ TypesPart /\ MappedIsValid /\ DeferredRemovalHasUser /\ HelperHoldsSegments
               /\ FreedNotHeld /\ FdKnown /\ UnbornUnmapped

(* A tracee that waits for the helper or runs its chain has a segment.     *)
RecordOK(c) ==
  /\ c \in WaitType /\ WaitCoherent(c)
  /\ c.chain_state \in Chained =>
       c.wait_state \in {"NOT_WAITING", "SIGNALED_PPOLL", "RESTARTED_INTO_PPOLL_CANCELED"}
  /\ c.chain_state \in Chained \/ c.wait_reason # "WR_NOT_WAITING" =>
       c.waiting_object_index \in Slots
RecordsOK(c) == c \in [Tracees -> WaitType] /\ \A t \in Tracees : RecordOK(c[t])

Inv == SegmentsInv /\ RecordsOK(config)

-----------------------------------------------------------------------------
(* The tracees list is finite: the search for a tracee that waits for the  *)
(* helper ends at one of them.                                             *)
LEMMA FirstInListInSet ==
  ASSUME NEW S \in SUBSET Nat, IsFiniteSet(S), S # {}
  PROVE  FirstInList(S) \in S /\ \A u \in S : u <= FirstInList(S)
<1> DEFINE HasLast(T) == \E t \in T : \A u \in T : u <= t
           Bad == {T \in FiniteSubsetsOf(Nat) : T # {} /\ ~HasLast(T)}
<1>1. Bad = {}
  <2>1. SUFFICES ASSUME Bad # {} PROVE FALSE
    OBVIOUS
  <2>2. Bad \subseteq FiniteSubsetsOf(Nat)
    OBVIOUS
  <2> HIDE DEF Bad
  <2>3. \E T \in Bad : \A U \in Bad : ~(<<U, T>> \in StrictSubsetOrdering(Nat))
    BY <2>1, <2>2, FS_StrictSubsetOrderingWellFounded, WFMin
  <2>4. PICK T \in Bad : \A U \in Bad : ~(<<U, T>> \in StrictSubsetOrdering(Nat))
    BY <2>3
  <2>5. T \in SUBSET Nat /\ IsFiniteSet(T) /\ T # {} /\ ~HasLast(T)
    BY <2>4 DEF Bad, FiniteSubsetsOf
  <2>6. PICK x \in T : TRUE
    BY <2>5
  <2>7. IsFiniteSet(T \ {x})
    BY <2>5, FS_RemoveElement
  <2>8. <<T \ {x}, T>> \in StrictSubsetOrdering(Nat)
    BY <2>5, <2>6 DEF StrictSubsetOrdering
  <2>9. T \ {x} \notin Bad
    BY <2>4, <2>8
  <2>10. T \ {x} = {} \/ HasLast(T \ {x})
    BY <2>5, <2>7, <2>9 DEF Bad, FiniteSubsetsOf
  <2>11. HasLast(T)
    <3>1. CASE T \ {x} = {}
      BY <3>1, <2>5, <2>6
    <3>2. CASE HasLast(T \ {x})
      <4>1. PICK y \in T \ {x} : \A u \in T \ {x} : u <= y
        BY <3>2
      <4>2. CASE x <= y
        BY <4>1, <4>2, <2>5, <2>6
      <4>3. CASE ~(x <= y)
        <5>1. \A u \in T : u <= x
          BY <4>1, <4>3, <2>5, <2>6
        <5> QED BY <5>1, <2>6
      <4> QED BY <4>2, <4>3
    <3> QED BY <3>1, <3>2, <2>10
  <2> QED BY <2>5, <2>11
<1>2. HasLast(S)
  BY <1>1 DEF FiniteSubsetsOf
<1> QED
  BY <1>2 DEF FirstInList

-----------------------------------------------------------------------------
(* The wait records.                                                       *)

(* Replacing one record by one that is in order keeps all in order.        *)
LEMMA RecordReplaced ==
  ASSUME NEW c, RecordsOK(c), NEW t \in Tracees, NEW r, RecordOK(r)
  PROVE  RecordsOK([c EXCEPT ![t] = r])
  BY DEF RecordsOK, RecordOK

(* sysvipc_wake_tracee on a tracee that waits for the helper: its chain    *)
(* begins once its ppoll is over.                                          *)
LEMMA WakeOK ==
  ASSUME NEW c, RecordOK(c), c.wait_reason = "WR_WAIT_SHMAT_HELPER_BUSY"
  PROVE  RecordOK([sysvipc_wake_tracee(c, 0) EXCEPT !.chain_state = "SHMAT_SOCKET"])
<1> DEFINE ws == IF c.wait_state = "ENTERED_PPOLL" THEN "SIGNALED_PPOLL"
                 ELSE "RESTARTED_INTO_PPOLL_CANCELED"
           w == sysvipc_wake_tracee(c, 0)
           r == [w EXCEPT !.chain_state = "SHMAT_SOCKET"]
<1>1. c \in WaitType /\ c.waiting_object_index \in Slots
  BY DEF RecordOK
<1>2. w = [c EXCEPT !.wait_reason = "WR_NOT_WAITING", !.status_after_wait = 0, !.wait_state = ws]
  BY DEF sysvipc_wake_tracee
<1>3. ws \in {"SIGNALED_PPOLL", "RESTARTED_INTO_PPOLL_CANCELED"}
  OBVIOUS
<1> HIDE DEF ws, w
<1>4. w \in WaitType /\ w.wait_reason = "WR_NOT_WAITING" /\ w.wait_state = ws
      /\ w.waiting_object_index = c.waiting_object_index
  <2>1. ws \in WaitStates /\ "WR_NOT_WAITING" \in Reasons /\ 0 \in Int
    BY <1>3 DEF WaitStates, Reasons
  <2> QED BY <1>1, <1>2, <2>1 DEF WaitType
<1>5. r \in WaitType /\ r.wait_reason = "WR_NOT_WAITING" /\ r.wait_state = ws
      /\ r.waiting_object_index = c.waiting_object_index /\ r.chain_state = "SHMAT_SOCKET"
  BY <1>4 DEF WaitType, Chained
<1> HIDE DEF r
<1>6. RecordOK(r)
  BY <1>1, <1>3, <1>5 DEF RecordOK, WaitCoherent, Chained
<1> QED BY <1>6 DEF r, w

(* sysvipc_shm_wake_pending_shmat wakes a tracee that waits, or nobody.    *)
LEMMA WakePendingOK ==
  ASSUME NEW c, RecordsOK(c)
  PROVE  RecordsOK(sysvipc_shm_wake_pending_shmat(c))
<1> DEFINE W == {t \in InList : c[t].wait_reason = "WR_WAIT_SHMAT_HELPER_BUSY"}
           u == FirstInList(W)
           r == [sysvipc_wake_tracee(c[u], 0) EXCEPT !.chain_state = "SHMAT_SOCKET"]
<1>1. CASE W = {}
  BY <1>1 DEF sysvipc_shm_wake_pending_shmat
<1>2. CASE W # {}
  <2>1. W \subseteq Tracees /\ W \in SUBSET Nat
    BY ShmAssumption DEF InList
  <2>2. IsFiniteSet(W)
    BY <2>1, ShmAssumption, FS_Subset
  <2>3. u \in W
    BY <1>2, <2>1, <2>2, FirstInListInSet
  <2>4. RecordOK(r)
    BY <2>1, <2>3, WakeOK DEF RecordsOK
  <2>5. sysvipc_shm_wake_pending_shmat(c) = [c EXCEPT ![u] = r]
    BY <1>2 DEF sysvipc_shm_wake_pending_shmat
  <2>6. u \in Tracees
    BY <2>1, <2>3
  <2> HIDE DEF r, u
  <2>7. RecordsOK([c EXCEPT ![u] = r])
    BY <2>4, <2>6, RecordReplaced
  <2> QED BY <2>5, <2>7
<1> QED BY <1>1, <1>2

-----------------------------------------------------------------------------
(* The segments.                                                           *)

(* Two valid segments have different descriptors.                          *)
LEMMA FdsDiffer ==
  ASSUME SegmentsInv, NEW s \in Slots, NEW u \in Slots, shms[s].valid, shms[u].valid,
         shms[s].fd = shms[u].fd
  PROVE  s = u
  BY DEF SegmentsInv, HelperHoldsSegments

(* A step that maps at least as much as before, and only valid segments.   *)
LEMMA MapsGrow ==
  ASSUME SegmentsInv, UNCHANGED <<shms, fds, requests>>,
         life' \in [Tracees -> {"unborn", "running", "killed", "freed"}],
         maps' \in [Procs -> [Slots -> Cell]],
         \A s \in Slots : Mapped(maps', s) => shms[s].valid,
         \A s \in Slots : Mapped(maps, s) => Mapped(maps', s),
         UnbornUnmapped'
  PROVE  SegmentsInv'
  BY DEF SegmentsInv, TypesPart, MappedIsValid, DeferredRemovalHasUser, HelperHoldsSegments,
     FreedNotHeld, FdKnown

(* sysvipc_do_rmid of valid slots that nothing maps any more: their        *)
(* descriptors are freed, and only theirs.                                 *)
LEMMA RmidMoves ==
  ASSUME SegmentsInv, NEW R \in SUBSET Slots, \A s \in R : shms[s].valid,
         shms' = sysvipc_do_rmid(shms, R),
         requests' = Append(requests, FreeRequests(R)) \/ (R = {} /\ requests' = requests),
         fds' = fds
  PROVE  /\ shms' \in [Slots -> ShmType] /\ requests' \in Seq(Request)
         /\ HelperHoldsSegments' /\ FreedNotHeld' /\ FdKnown'
         /\ \A s \in Slots \ R : shms'[s] = shms[s]
         /\ \A s \in R : shms'[s].valid = FALSE /\ shms'[s].rmid_pending = FALSE
<1> DEFINE fr(s) == [FreeShm EXCEPT !.generation = shms[s].generation + 1]
           q == FreeRequests(R)
<1>1. shms \in [Slots -> ShmType] /\ requests \in Seq(Request) /\ HelperHoldsSegments
      /\ FreedNotHeld /\ FdKnown
  BY DEF SegmentsInv, TypesPart
<1>2. shms' = [s \in Slots |-> IF s \in R THEN fr(s) ELSE shms[s]]
  BY DEF sysvipc_do_rmid
<1>3. ASSUME NEW s \in Slots
      PROVE  fr(s) \in ShmType /\ fr(s).valid = FALSE /\ fr(s).rmid_pending = FALSE
  <2>1. shms[s].generation + 1 \in Nat
    BY <1>1 DEF ShmType
  <2>2. 0 \in 0 .. MaxShms
    BY ShmAssumption
  <2> QED BY <2>1, <2>2 DEF FreeShm, ShmType, NoFd
<1> HIDE DEF fr
<1>4. shms' \in [Slots -> ShmType]
  BY <1>1, <1>2, <1>3
<1>5. /\ \A s \in Slots \ R : shms'[s] = shms[s]
      /\ \A s \in R : shms'[s].valid = FALSE /\ shms'[s].rmid_pending = FALSE
  BY <1>2, <1>3
<1>6. q \in Request /\ q.op = "FREE" /\ q.fds = {shms[s].fd : s \in R}
  <2>1. \A s \in R : shms[s].fd \in 0 .. MaxShms
    BY <1>1 DEF ShmType
  <2>2. {shms[s].fd : s \in R} \in SUBSET (0 .. MaxShms)
    BY <2>1
  <2> QED BY <2>2 DEF FreeRequests, Request
<1>7. HelperHoldsSegments' /\ FdKnown'
  BY <1>1, <1>5 DEF HelperHoldsSegments, FdKnown
<1>8. ASSUME NEW s \in Slots, shms'[s].valid
      PROVE  s \notin R /\ shms[s].valid /\ shms'[s].fd = shms[s].fd /\ shms[s].fd \notin q.fds
  <2>1. s \notin R /\ shms'[s] = shms[s]
    BY <1>5, <1>8
  <2>2. ASSUME NEW u \in R PROVE shms[u].fd # shms[s].fd
    BY <1>8, <2>1, <2>2, FdsDiffer
  <2> QED BY <1>6, <1>8, <2>1, <2>2
<1>9. CASE requests' = Append(requests, q)
  <2> HIDE DEF q
  <2>1. requests' \in Seq(Request)
    BY <1>1, <1>6, <1>9, AppendProperties
  <2>2. /\ Len(requests) \in Nat /\ DOMAIN requests = 1 .. Len(requests)
        /\ DOMAIN requests' = 1 .. (Len(requests) + 1)
        /\ \A i \in 1 .. Len(requests) : requests'[i] = requests[i]
        /\ requests'[Len(requests) + 1] = q
    BY <1>1, <1>6, <1>9, AppendProperties, LenProperties
  <2>3. ASSUME NEW i \in DOMAIN requests', requests'[i].op = "FREE",
               NEW s \in Slots, shms'[s].valid
        PROVE  shms'[s].fd \notin requests'[i].fds
    <3>1. CASE i \in 1 .. Len(requests)
      <4>1. requests'[i] = requests[i] /\ i \in DOMAIN requests
        BY <2>2, <3>1
      <4> QED BY <1>1, <1>8, <2>3, <4>1 DEF FreedNotHeld
    <3>2. CASE i = Len(requests) + 1
      BY <1>8, <2>2, <2>3, <3>2
    <3> QED BY <2>2, <3>1, <3>2
  <2>4. FreedNotHeld'
    BY <2>3 DEF FreedNotHeld
  <2> QED BY <1>4, <1>5, <1>7, <2>1, <2>4
<1>10. CASE requests' = requests
  <2>1. FreedNotHeld'
    BY <1>1, <1>8, <1>10 DEF FreedNotHeld
  <2> QED BY <1>1, <1>4, <1>5, <1>7, <1>10, <2>1
<1> QED BY <1>9, <1>10

(* sysvipc_shm_memmap_destructor: mappings go, and with the last one of a  *)
(* segment to remove the segment.                                          *)
LEMMA DropMapsInv ==
  ASSUME SegmentsInv, NEW mp \in [Procs -> [Slots -> Cell]], DropMaps(mp), fds' = fds,
         \A s \in Slots : Mapped(mp, s) => Mapped(maps, s),
         life' \in [Tracees -> {"unborn", "running", "killed", "freed"}],
         UnbornUnmapped'
  PROVE  SegmentsInv'
<1> DEFINE R == LastUnmapped(mp)
<1>1. maps' = mp /\ shms' = sysvipc_do_rmid(shms, R)
      /\ requests' = IF R = {} THEN requests ELSE Append(requests, FreeRequests(R))
  BY DEF DropMaps
<1>2. MappedIsValid /\ DeferredRemovalHasUser /\ TypesPart
  BY DEF SegmentsInv
<1>3. R \in SUBSET Slots /\ \A s \in R : shms[s].valid /\ ~Mapped(mp, s)
  BY <1>2 DEF LastUnmapped, MappedIsValid
<1>4. \A s \in Slots \ R : shms[s].rmid_pending => Mapped(mp, s)
  BY <1>2 DEF LastUnmapped, DeferredRemovalHasUser
<1> HIDE DEF R
<1>5. /\ shms' \in [Slots -> ShmType] /\ requests' \in Seq(Request)
      /\ HelperHoldsSegments' /\ FreedNotHeld' /\ FdKnown'
      /\ \A s \in Slots \ R : shms'[s] = shms[s]
      /\ \A s \in R : shms'[s].valid = FALSE /\ shms'[s].rmid_pending = FALSE
  BY <1>1, <1>3, RmidMoves
<1>6. MappedIsValid' /\ DeferredRemovalHasUser'
  BY <1>1, <1>2, <1>3, <1>4, <1>5 DEF MappedIsValid, DeferredRemovalHasUser
<1> QED BY <1>1, <1>2, <1>5, <1>6 DEF SegmentsInv, TypesPart

(* A step after which no process has more mappings of a segment, and no    *)
(* tracee is unborn that was not.                                          *)
LEMMA Lowered ==
  ASSUME SegmentsInv, NEW mp \in [Procs -> [Slots -> Cell]], DropMaps(mp), fds' = fds,
         \A p \in Procs, s \in Slots :
            mp[p][s].pending + mp[p][s].done <= maps[p][s].pending + maps[p][s].done,
         life' \in [Tracees -> {"unborn", "running", "killed", "freed"}],
         \A u \in Tracees : life'[u] = "unborn" => life[u] = "unborn"
  PROVE  SegmentsInv'
<1>1. maps \in [Procs -> [Slots -> Cell]] /\ UnbornUnmapped /\ maps' = mp
  BY DEF SegmentsInv, TypesPart, DropMaps
<1>2. \A p \in Procs, s \in Slots :
        /\ mp[p][s].pending + mp[p][s].done \in Nat
        /\ maps[p][s].pending + maps[p][s].done \in Nat
  BY <1>1 DEF Cell
<1>3. \A s \in Slots : Mapped(mp, s) => Mapped(maps, s)
  BY <1>2 DEF Mapped
<1>4. UnbornUnmapped'
  <2> SUFFICES ASSUME NEW u \in Tracees, life'[u] = "unborn"
               PROVE  u \in Newborn /\ \A s \in Slots : mp[ProcOf[u]][s].pending + mp[ProcOf[u]][s].done = 0
    BY <1>1 DEF UnbornUnmapped, Unmapped
  <2>1. life[u] = "unborn" /\ ProcOf[u] \in Procs
    BY ShmAssumption
  <2>2. u \in Newborn /\ \A s \in Slots : maps[ProcOf[u]][s].pending + maps[ProcOf[u]][s].done = 0
    BY <1>1, <2>1 DEF UnbornUnmapped, Unmapped
  <2> QED BY <1>2, <2>1, <2>2
<1> QED BY <1>3, <1>4, DropMapsInv

(* One mapping less of one kind.                                           *)
LEMMA OneLess ==
  ASSUME SegmentsInv, NEW p \in Procs, NEW s \in Slots, UNCHANGED <<fds, life>>,
         \/ maps[p][s].pending > 0 /\ DropMaps([maps EXCEPT ![p][s].pending = @ - 1])
         \/ maps[p][s].done > 0 /\ DropMaps([maps EXCEPT ![p][s].done = @ - 1])
  PROVE  SegmentsInv'
<1>1. maps \in [Procs -> [Slots -> Cell]] /\ life' = life
      /\ life \in [Tracees -> {"unborn", "running", "killed", "freed"}]
  BY DEF SegmentsInv, TypesPart
<1> DEFINE cell == maps[p][s]
           lp == cell.pending - 1
           ld == cell.done - 1
           cp == [cell EXCEPT !.pending = lp]
           cd == [cell EXCEPT !.done = ld]
<1>2. cell \in Cell
  BY <1>1
<1>3. ASSUME NEW c \in Cell, c.pending + c.done <= cell.pending + cell.done,
             DropMaps([maps EXCEPT ![p] = [maps[p] EXCEPT ![s] = c]])
      PROVE  SegmentsInv'
  <2> DEFINE mp == [maps EXCEPT ![p] = [maps[p] EXCEPT ![s] = c]]
  <2>1. mp \in [Procs -> [Slots -> Cell]]
    BY <1>1, <1>3
  <2>2. \A q \in Procs, u \in Slots : mp[q][u] = IF q = p /\ u = s THEN c ELSE maps[q][u]
    BY <1>1
  <2>3. \A q \in Procs, u \in Slots :
          /\ maps[q][u].pending \in Nat /\ maps[q][u].done \in Nat
    BY <1>1 DEF Cell
  <2> HIDE DEF mp
  <2>4. \A q \in Procs, u \in Slots :
          mp[q][u].pending + mp[q][u].done <= maps[q][u].pending + maps[q][u].done
    <3> TAKE q \in Procs, u \in Slots
    <3>1. CASE q = p /\ u = s
      BY <1>3, <2>2, <3>1
    <3>2. CASE ~(q = p /\ u = s)
      <4>1. mp[q][u] = maps[q][u]
        BY <2>2, <3>2
      <4>2. maps[q][u].pending + maps[q][u].done <= maps[q][u].pending + maps[q][u].done
        BY <2>3
      <4> QED BY <4>1, <4>2
    <3> QED BY <3>1, <3>2
  <2> QED BY <1>1, <1>3, <2>1, <2>4, Lowered DEF mp
<1>4. CASE maps[p][s].pending > 0 /\ DropMaps([maps EXCEPT ![p][s].pending = @ - 1])
  <2>1. DropMaps([maps EXCEPT ![p] = [maps[p] EXCEPT ![s] = cp]])
    BY <1>1, <1>4
  <2> HIDE DEF cell
  <2>2. lp \in Nat /\ cell.done \in Nat /\ cell.pending \in Nat
    BY <1>2, <1>4 DEF Cell, cell
  <2>3. lp + cell.done <= cell.pending + cell.done
    BY <2>2
  <2> HIDE DEF lp
  <2>4. cp \in Cell /\ cp.pending = lp /\ cp.done = cell.done
    BY <1>2, <2>2 DEF Cell
  <2> HIDE DEF cp
  <2> QED BY <1>3, <2>1, <2>3, <2>4
<1>5. CASE maps[p][s].done > 0 /\ DropMaps([maps EXCEPT ![p][s].done = @ - 1])
  <2>1. DropMaps([maps EXCEPT ![p] = [maps[p] EXCEPT ![s] = cd]])
    BY <1>1, <1>5
  <2> HIDE DEF cell
  <2>2. ld \in Nat /\ cell.done \in Nat /\ cell.pending \in Nat
    BY <1>2, <1>5 DEF Cell, cell
  <2>3. cell.pending + ld <= cell.pending + cell.done
    BY <2>2
  <2> HIDE DEF ld
  <2>4. cd \in Cell /\ cd.done = ld /\ cd.pending = cell.pending
    BY <1>2, <2>2 DEF Cell
  <2> HIDE DEF cd
  <2> QED BY <1>3, <2>1, <2>3, <2>4
<1> QED BY <1>4, <1>5

(* All the mappings of a process go.                                       *)
LEMMA NoneLeft ==
  ASSUME SegmentsInv, NEW p \in Procs, fds' = fds,
         life' \in [Tracees -> {"unborn", "running", "killed", "freed"}],
         \A u \in Tracees : life'[u] = "unborn" => life[u] = "unborn",
         DropMaps([maps EXCEPT ![p] = [s \in Slots |-> [pending |-> 0, done |-> 0]]])
  PROVE  SegmentsInv'
<1> DEFINE none == [s \in Slots |-> [pending |-> 0, done |-> 0]]
           mp == [maps EXCEPT ![p] = none]
<1>1. maps \in [Procs -> [Slots -> Cell]]
  BY DEF SegmentsInv, TypesPart
<1>2. none \in [Slots -> Cell] /\ \A s \in Slots : none[s].pending = 0 /\ none[s].done = 0
  BY DEF Cell
<1>0. DropMaps(mp)
  OBVIOUS
<1> HIDE DEF none
<1>3. mp \in [Procs -> [Slots -> Cell]] /\ mp[p] = none /\ \A q \in Procs \ {p} : mp[q] = maps[q]
  BY <1>1, <1>2
<1> HIDE DEF mp
<1>4. \A q \in Procs, s \in Slots :
        mp[q][s].pending + mp[q][s].done <= maps[q][s].pending + maps[q][s].done
  <2> TAKE q \in Procs, s \in Slots
  <2>1. maps[q][s].pending \in Nat /\ maps[q][s].done \in Nat
    BY <1>1 DEF Cell
  <2>2. CASE q = p
    BY <1>2, <1>3, <2>1, <2>2
  <2>3. CASE q # p
    <3>1. mp[q][s] = maps[q][s]
      BY <1>3, <2>3
    <3> QED BY <2>1, <3>1
  <2> QED BY <2>2, <2>3
<1> QED BY <1>0, <1>3, <1>4, Lowered

(* A step that touches no segment, mapping or request.                     *)
LEMMA SegmentsSame ==
  ASSUME SegmentsInv, UNCHANGED <<shms, maps, fds, requests>>,
         life' \in [Tracees -> {"unborn", "running", "killed", "freed"}],
         \A u \in Tracees : life'[u] = "unborn" => life[u] = "unborn"
  PROVE  SegmentsInv'
  BY DEF SegmentsInv, TypesPart, MappedIsValid, DeferredRemovalHasUser, HelperHoldsSegments,
     FreedNotHeld, FdKnown, UnbornUnmapped

-----------------------------------------------------------------------------
(* One lemma per action.                                                   *)

(* shmget takes a descriptor no valid segment has, since the helper has    *)
(* served all requests.                                                    *)
LEMMA ShmGetInv ==
  ASSUME Inv, NEW t \in Tracees, ShmGet(t) PROVE Inv'
<1>1. SegmentsInv /\ RecordsOK(config) /\ config' = config /\ maps' = maps /\ life' = life
      /\ requests' = requests /\ requests = <<>>
  BY DEF Inv, ShmGet
<1>2. PICK s \in Slots, f \in Fds :
        /\ ~shms[s].valid /\ fds[f] = NoSegment
        /\ fds' = [fds EXCEPT ![f] = <<s, shms[s].generation>>]
        /\ shms' = [shms EXCEPT ![s] = [@ EXCEPT !.valid = TRUE, !.fd = f]]
  BY DEF ShmGet
<1> DEFINE r == [shms[s] EXCEPT !.valid = TRUE, !.fd = f]
<1>3. shms \in [Slots -> ShmType] /\ fds \in [Fds -> Nat \X Nat]
  BY <1>1 DEF SegmentsInv, TypesPart
<1>4. r \in ShmType /\ r.valid = TRUE /\ r.fd = f /\ r.generation = shms[s].generation
      /\ r.rmid_pending = shms[s].rmid_pending /\ shms[s].generation \in Nat /\ s \in Nat
  <2>1. f \in 0 .. MaxShms /\ s \in Nat
    BY ShmAssumption DEF Fds, Slots
  <2>2. shms[s] \in ShmType
    BY <1>3
  <2> QED BY <2>1, <2>2 DEF ShmType
<1>5. shms' = [shms EXCEPT ![s] = r]
  BY <1>2
<1> HIDE DEF r
<1>6. /\ shms' \in [Slots -> ShmType] /\ fds' \in [Fds -> Nat \X Nat]
      /\ shms'[s] = r /\ \A u \in Slots \ {s} : shms'[u] = shms[u]
      /\ fds'[f] = <<s, shms[s].generation>> /\ \A g \in Fds \ {f} : fds'[g] = fds[g]
  BY <1>2, <1>3, <1>4, <1>5
<1>7. ASSUME NEW u \in Slots \ {s}, shms[u].valid PROVE shms[u].fd \in Fds \ {f}
  <2>1. shms[u].fd \in Fds /\ fds[shms[u].fd] = <<u, shms[u].generation>>
    BY <1>1, <1>7 DEF SegmentsInv, FdKnown, HelperHoldsSegments
  <2>2. <<u, shms[u].generation>> # <<0, 0>>
    BY <1>7, ShmAssumption DEF Slots
  <2> QED BY <1>2, <2>1, <2>2 DEF NoSegment
<1>8. HelperHoldsSegments' /\ FdKnown'
  BY <1>1, <1>4, <1>6, <1>7 DEF SegmentsInv, HelperHoldsSegments, FdKnown
<1>9. MappedIsValid' /\ DeferredRemovalHasUser'
  BY <1>1, <1>4, <1>6 DEF SegmentsInv, MappedIsValid, DeferredRemovalHasUser
<1>10. FreedNotHeld'
  <2>1. DOMAIN requests' = {}
    BY <1>1
  <2> QED BY <2>1 DEF FreedNotHeld
<1>11. UnbornUnmapped' /\ TypesPart'
  BY <1>1, <1>6 DEF SegmentsInv, UnbornUnmapped, TypesPart
<1> QED BY <1>1, <1>8, <1>9, <1>10, <1>11 DEF Inv, SegmentsInv

(* IPC_RMID frees what nothing maps, and only marks the rest.              *)
LEMMA ShmRmidInv ==
  ASSUME Inv, NEW t \in Tracees, NEW id \in Ids, ShmRmid(t, id) PROVE Inv'
<1> DEFINE s == id[1]
<1>1. SegmentsInv /\ RecordsOK(config) /\ config' = config /\ maps' = maps /\ life' = life
      /\ fds' = fds
  BY DEF Inv, ShmRmid
<1>2. s \in Slots /\ shms[s].valid
  BY DEF ShmRmid, LookupOk, Ids
<1>3. CASE Mapped(maps, s)
  <2> DEFINE r == [shms[s] EXCEPT !.rmid_pending = TRUE]
  <2>1. shms' = [shms EXCEPT ![s] = r] /\ requests' = requests
    BY <1>3 DEF ShmRmid
  <2>2. shms \in [Slots -> ShmType] /\ shms[s] \in ShmType
    BY <1>1, <1>2 DEF SegmentsInv, TypesPart
  <2>3. r \in ShmType /\ r.valid = shms[s].valid /\ r.fd = shms[s].fd
        /\ r.generation = shms[s].generation
    BY <2>2 DEF ShmType
  <2> HIDE DEF r, s
  <2>4. shms' \in [Slots -> ShmType] /\ shms'[s] = r /\ \A u \in Slots \ {s} : shms'[u] = shms[u]
    BY <1>2, <2>1, <2>2, <2>3
  <2>5. \A u \in Slots : /\ shms'[u].valid = shms[u].valid /\ shms'[u].fd = shms[u].fd
                          /\ shms'[u].generation = shms[u].generation
    BY <2>3, <2>4
  <2> QED BY <1>1, <1>3, <2>1, <2>4, <2>5 DEF Inv, SegmentsInv, TypesPart, MappedIsValid,
          DeferredRemovalHasUser, HelperHoldsSegments, FreedNotHeld, FdKnown, UnbornUnmapped
<1>4. CASE ~Mapped(maps, s)
  <2>1. shms' = sysvipc_do_rmid(shms, {s}) /\ requests' = Append(requests, FreeRequests({s}))
    BY <1>4 DEF ShmRmid
  <2> HIDE DEF s
  <2>2. /\ shms' \in [Slots -> ShmType] /\ requests' \in Seq(Request)
        /\ HelperHoldsSegments' /\ FreedNotHeld' /\ FdKnown'
        /\ \A u \in Slots \ {s} : shms'[u] = shms[u]
        /\ \A u \in {s} : shms'[u].valid = FALSE /\ shms'[u].rmid_pending = FALSE
    <3>1. {s} \in SUBSET Slots /\ \A u \in {s} : shms[u].valid
      BY <1>2
    <3> QED BY <1>1, <2>1, <3>1, RmidMoves
  <2>3. MappedIsValid' /\ DeferredRemovalHasUser'
    BY <1>1, <1>4, <2>2 DEF SegmentsInv, MappedIsValid, DeferredRemovalHasUser
  <2> QED BY <1>1, <2>2, <2>3 DEF Inv, SegmentsInv, TypesPart, UnbornUnmapped
<1> QED BY <1>3, <1>4

(* shmat registers a mapping of a valid segment before its chain starts.   *)
LEMMA ShmAtInv ==
  ASSUME Inv, NEW t \in Tracees, NEW id \in Ids, ShmAt(t, id) PROVE Inv'
<1> DEFINE s == id[1]
           p == ProcOf[t]
           c == [config[t] EXCEPT !.waiting_object_index = s]
           b == [c EXCEPT !.wait_reason = "WR_WAIT_SHMAT_HELPER_BUSY"]
<1>1. SegmentsInv /\ RecordsOK(config) /\ shms' = shms /\ life' = life /\ fds' = fds
      /\ requests' = requests
  BY DEF Inv, ShmAt, helper
<1>2. s \in Slots /\ shms[s].valid /\ p \in Procs /\ life[t] = "running"
  BY ShmAssumption DEF ShmAt, LookupOk, Ids, Ready, Running
<1>3. SegmentsInv'
  <2> DEFINE np == maps[p][s].pending + 1
             cell == [maps[p][s] EXCEPT !.pending = np]
  <2>1. maps \in [Procs -> [Slots -> Cell]]
        /\ life \in [Tracees -> {"unborn", "running", "killed", "freed"}] /\ UnbornUnmapped
    BY <1>1 DEF SegmentsInv, TypesPart
  <2>2. maps' = [maps EXCEPT ![p] = [maps[p] EXCEPT ![s] = cell]]
    BY <1>2, <2>1 DEF ShmAt
  <2>3. maps[p][s] \in Cell /\ maps[p][s].done \in Nat /\ np \in Nat /\ np > 0
    BY <1>2, <2>1 DEF Cell
  <2> HIDE DEF s, p
  <2>4. cell \in Cell /\ cell.pending = np /\ cell.done = maps[p][s].done
    BY <2>3 DEF Cell
  <2> HIDE DEF np, cell
  <2>5. /\ maps' \in [Procs -> [Slots -> Cell]] /\ maps'[p][s] = cell
        /\ \A q \in Procs \ {p} : maps'[q] = maps[q]
        /\ \A u \in Slots \ {s} : maps'[p][u] = maps[p][u]
    BY <1>2, <2>1, <2>2, <2>4
  <2>6. \A u \in Slots : Mapped(maps', u) => Mapped(maps, u) \/ u = s
    BY <1>2, <2>5 DEF Mapped
  <2>7. Mapped(maps', s)
    <3>1. maps'[p][s].pending + maps'[p][s].done > 0
      BY <2>3, <2>4, <2>5
    <3> QED BY <1>2, <3>1 DEF Mapped
  <2>8. \A u \in Slots : Mapped(maps, u) => Mapped(maps', u)
    <3> TAKE u \in Slots
    <3>1. CASE u = s
      BY <2>7, <3>1
    <3>2. CASE u # s
      <4>1. \A q \in Procs : maps'[q][u] = maps[q][u]
        BY <2>5, <3>2
      <4> QED BY <4>1 DEF Mapped
    <3> QED BY <3>1, <3>2
  <2>9. \A u \in Slots : Mapped(maps', u) => shms[u].valid
    BY <1>1, <1>2, <2>6 DEF SegmentsInv, MappedIsValid
  <2>10. UnbornUnmapped'
    <3> SUFFICES ASSUME NEW u \in Tracees, life[u] = "unborn"
                 PROVE  u \in Newborn /\ maps'[ProcOf[u]] = maps[ProcOf[u]]
      BY <1>1, <2>1 DEF UnbornUnmapped, Unmapped
    <3>1. u \in Newborn /\ ProcOf[u] \in Procs /\ u # t
      BY <1>2, <2>1, ShmAssumption DEF UnbornUnmapped
    <3>2. ProcOf[u] # p
      BY <3>1, ForkAssumption DEF p
    <3> QED BY <2>5, <3>1, <3>2
  <2> QED BY <1>1, <2>1, <2>5, <2>8, <2>9, <2>10, MapsGrow
<1>4. RecordsOK(config')
  <2> DEFINE w == config[t]
  <2>1. w \in WaitType /\ w.chain_state = "NOT_CHAINED" /\ w.wait_state = "NOT_WAITING"
        /\ w.wait_reason = "WR_NOT_WAITING"
    BY <1>1 DEF RecordsOK, RecordOK, WaitCoherent, ShmAt, Ready, InUserCode
  <2>2. s \in 0 .. MaxShms
    BY <1>2, ShmAssumption DEF Slots
  <2>3. PICK fs \in BOOLEAN :
          config' = [config EXCEPT ![t] =
             IF sysvipc_shmat_busy THEN sysvipc_syscall_common(b, 0, fs)
             ELSE [c EXCEPT !.chain_state = "SHMAT_SOCKET"]]
    BY DEF ShmAt
  <2>9. s \in Slots
    BY <1>2
  <2> HIDE DEF s, w
  <2>4. c = [w EXCEPT !.waiting_object_index = s]
    BY DEF w
  <2> HIDE DEF c
  <2>5. c \in WaitType /\ c.chain_state = "NOT_CHAINED" /\ c.wait_state = "NOT_WAITING"
        /\ c.wait_reason = "WR_NOT_WAITING" /\ c.waiting_object_index = s
    BY <2>1, <2>2, <2>4 DEF WaitType
  <2>6. RecordOK([c EXCEPT !.chain_state = "SHMAT_SOCKET"])
    <3> DEFINE r == [c EXCEPT !.chain_state = "SHMAT_SOCKET"]
    <3>1. r \in WaitType /\ r.chain_state = "SHMAT_SOCKET" /\ r.wait_state = "NOT_WAITING"
          /\ r.wait_reason = "WR_NOT_WAITING" /\ r.waiting_object_index = s
      BY <2>5 DEF WaitType, Chained
    <3> HIDE DEF r
    <3>2. RecordOK(r)
      BY <2>9, <3>1 DEF RecordOK, WaitCoherent
    <3> QED BY <3>2 DEF r
  <2>7. RecordOK(sysvipc_syscall_common(b, 0, fs))
    <3> DEFINE ws == IF fs THEN "RESTARTED_INTO_PPOLL" ELSE "ENTERED_PPOLL"
               r == [b EXCEPT !.wait_state = ws]
    <3>1. b \in WaitType /\ b.chain_state = "NOT_CHAINED"
          /\ b.wait_reason = "WR_WAIT_SHMAT_HELPER_BUSY" /\ b.waiting_object_index = s
      BY <2>5 DEF WaitType, Reasons
    <3>2. sysvipc_syscall_common(b, 0, fs) = r
      BY <3>1 DEF sysvipc_syscall_common
    <3>3. ws \in WaitStates /\ ws \in {"RESTARTED_INTO_PPOLL", "ENTERED_PPOLL"}
      BY DEF WaitStates
    <3> HIDE DEF b, ws
    <3>4. r \in WaitType /\ r.chain_state = "NOT_CHAINED" /\ r.wait_state = ws
          /\ r.wait_reason = "WR_WAIT_SHMAT_HELPER_BUSY" /\ r.waiting_object_index = s
      BY <3>1, <3>3 DEF WaitType
    <3> HIDE DEF r
    <3>5. RecordOK(r)
      BY <2>9, <3>3, <3>4 DEF RecordOK, WaitCoherent, Chained
    <3> QED BY <3>2, <3>5 DEF b
  <2> DEFINE n == IF sysvipc_shmat_busy THEN sysvipc_syscall_common(b, 0, fs)
                  ELSE [c EXCEPT !.chain_state = "SHMAT_SOCKET"]
  <2>8. RecordOK(n) /\ config' = [config EXCEPT ![t] = n]
    BY <2>3, <2>6, <2>7
  <2> HIDE DEF n
  <2>10. RecordsOK([config EXCEPT ![t] = n])
    BY <1>1, <2>8, RecordReplaced
  <2> QED BY <2>8, <2>10
<1> QED BY <1>3, <1>4 DEF Inv, RecordsOK

(* At a step of the chain the tracee has a valid segment and waits for     *)
(* nothing.                                                                *)
LEMMA ChainKnows ==
  ASSUME Inv, NEW t \in Tracees, NEW cs \in Chained, AtChain(t, cs)
  PROVE  /\ config[t] \in WaitType /\ config[t].waiting_object_index \in Slots
         /\ config[t].wait_state = "NOT_WAITING" /\ config[t].wait_reason = "WR_NOT_WAITING"
         /\ shms[config[t].waiting_object_index].valid /\ ProcOf[t] \in Procs
         /\ life[t] = "running"
  BY ShmAssumption DEF Inv, RecordsOK, RecordOK, WaitCoherent, AtChain, Running

(* The chain goes on.                                                      *)
LEMMA ChainToOK ==
  ASSUME Inv, NEW t \in Tracees, NEW cs \in Chained, AtChain(t, cs), NEW to \in Chained, ChainTo(t, to)
  PROVE  RecordsOK(config')
<1> DEFINE w == config[t]
           r == [w EXCEPT !.chain_state = to]
<1>1. /\ w \in WaitType /\ w.waiting_object_index \in Slots
      /\ w.wait_state = "NOT_WAITING" /\ w.wait_reason = "WR_NOT_WAITING"
  BY ChainKnows
<1>2. config' = [config EXCEPT ![t] = r]
  BY DEF ChainTo
<1> HIDE DEF w
<1>3. /\ r \in WaitType /\ r.waiting_object_index = w.waiting_object_index
      /\ r.wait_state = "NOT_WAITING" /\ r.wait_reason = "WR_NOT_WAITING"
  BY <1>1 DEF WaitType
<1> HIDE DEF r
<1>4. RecordOK(r)
  BY <1>1, <1>3 DEF RecordOK, WaitCoherent
<1>5. RecordsOK([config EXCEPT ![t] = r])
  BY <1>4, RecordReplaced DEF Inv
<1> QED BY <1>2, <1>5

(* The chain is over, and a tracee that waits for the helper is woken.     *)
LEMMA ChainOverOK ==
  ASSUME Inv, NEW t \in Tracees, NEW cs \in Chained, AtChain(t, cs),
         config' = sysvipc_shm_wake_pending_shmat(ChainOver(t))
  PROVE  RecordsOK(config')
<1> DEFINE w == config[t]
           r == [w EXCEPT !.chain_state = "NOT_CHAINED", !.waiting_object_index = 0]
<1>1. w \in WaitType /\ w.wait_state = "NOT_WAITING" /\ w.wait_reason = "WR_NOT_WAITING"
  BY ChainKnows
<1>2. ChainOver(t) = [config EXCEPT ![t] = r]
  BY DEF ChainOver
<1> HIDE DEF w
<1>3. /\ r \in WaitType /\ r.chain_state = "NOT_CHAINED"
      /\ r.wait_state = "NOT_WAITING" /\ r.wait_reason = "WR_NOT_WAITING"
  <2>1. 0 \in 0 .. MaxShms
    BY ShmAssumption
  <2> QED BY <1>1, <2>1 DEF WaitType
<1> HIDE DEF r
<1>4. RecordOK(r)
  BY <1>3 DEF RecordOK, WaitCoherent, Chained
<1>0. RecordsOK([config EXCEPT ![t] = r])
  BY <1>4, RecordReplaced DEF Inv
<1>5. RecordsOK(ChainOver(t))
  BY <1>0, <1>2
<1>6. RecordsOK(sysvipc_shm_wake_pending_shmat(ChainOver(t)))
  BY <1>5, WakePendingOK
<1> QED BY <1>6

(* A step in which no tracee is born or dies.                              *)
LEMMA LifeSame ==
  ASSUME SegmentsInv, life' = life
  PROVE  /\ life' \in [Tracees -> {"unborn", "running", "killed", "freed"}]
         /\ \A u \in Tracees : life'[u] = "unborn" => life[u] = "unborn"
  BY DEF SegmentsInv, TypesPart

(* A chain that fails takes its own pending mapping back.                  *)
LEMMA ShmAtFailsInv ==
  ASSUME Inv, NEW t \in Tracees, ShmAtFails(t) PROVE Inv'
<1> DEFINE p == ProcOf[t]
           s == config[t].waiting_object_index
<1>1. PICK cs \in Chained : AtChain(t, cs)
  BY DEF ShmAtFails, Chained
<1>2. s \in Slots /\ p \in Procs
  BY <1>1, ChainKnows
<1>3. RecordsOK(config')
  BY <1>1, ChainOverOK DEF ShmAtFails
<1>4. SegmentsInv /\ fds' = fds /\ life' = life /\ maps[p][s].pending > 0
      /\ DropMaps([maps EXCEPT ![p][s].pending = @ - 1])
  BY DEF Inv, ShmAtFails, HasPending
<1> HIDE DEF p, s
<1>5. SegmentsInv'
  BY <1>2, <1>4, OneLess
<1> QED BY <1>3, <1>5 DEF Inv, RecordsOK

(* The chain goes from socket to connect.                                  *)
LEMMA SocketExitInv ==
  ASSUME Inv, NEW t \in Tracees, SocketExit(t) PROVE Inv'
<1>1. RecordsOK(config')
  BY ChainToOK DEF SocketExit, Chained
<1>2. SegmentsInv /\ UNCHANGED <<shms, maps, fds, requests, life>>
  BY DEF Inv, SocketExit, helper
<1>3. SegmentsInv'
  BY <1>2, LifeSame, SegmentsSame
<1> QED BY <1>1, <1>3 DEF Inv, RecordsOK

(* A connection in the backlog touches no segment.                         *)
LEMMA KernelConnectInv ==
  ASSUME Inv, NEW t \in Tracees, KernelConnect(t) PROVE Inv'
<1>1. SegmentsInv /\ RecordsOK(config) /\ UNCHANGED <<shms, maps, fds, requests, life, config>>
  BY DEF Inv, KernelConnect
<1>2. SegmentsInv'
  BY <1>1, LifeSame, SegmentsSame
<1> QED BY <1>1, <1>2 DEF Inv, RecordsOK

(* A request to send a descriptor is queued: nothing is freed by it.       *)
LEMMA ConnectExitInv ==
  ASSUME Inv, NEW t \in Tracees, ConnectExit(t) PROVE Inv'
<1> DEFINE q == [op |-> "DISTRIBUTE", fds |-> {ShmOf(t).fd}]
<1>1. AtChain(t, "SHMAT_CONNECT") /\ "SHMAT_CONNECT" \in Chained /\ "SHMAT_RECVMSG" \in Chained
  BY DEF ConnectExit, Chained
<1>2. RecordsOK(config')
  BY <1>1, ChainToOK DEF ConnectExit
<1>3. SegmentsInv /\ UNCHANGED <<shms, maps, fds, life>> /\ requests' = Append(requests, q)
  BY DEF Inv, ConnectExit
<1>4. q \in Request /\ q.op = "DISTRIBUTE" /\ requests \in Seq(Request)
  <2>1. ShmOf(t) \in ShmType /\ requests \in Seq(Request)
    BY <1>1, <1>3, ChainKnows DEF ShmOf, SegmentsInv, TypesPart
  <2>2. {ShmOf(t).fd} \in SUBSET (0 .. MaxShms)
    BY <2>1 DEF ShmType
  <2> QED BY <2>1, <2>2 DEF Request
<1> HIDE DEF q
<1>5. requests' \in Seq(Request) /\ Len(requests) \in Nat /\ DOMAIN requests = 1 .. Len(requests)
      /\ DOMAIN requests' = 1 .. (Len(requests) + 1)
      /\ (\A i \in 1 .. Len(requests) : requests'[i] = requests[i])
      /\ requests'[Len(requests) + 1] = q
  BY <1>3, <1>4, AppendProperties, LenProperties
<1>6. ASSUME NEW i \in DOMAIN requests', requests'[i].op = "FREE"
      PROVE  i \in DOMAIN requests /\ requests'[i] = requests[i]
  BY <1>4, <1>5, <1>6
<1>7. FreedNotHeld'
  BY <1>3, <1>6 DEF SegmentsInv, FreedNotHeld
<1>8. SegmentsInv'
  BY <1>3, <1>5, <1>7 DEF SegmentsInv, TypesPart, MappedIsValid, DeferredRemovalHasUser,
     HelperHoldsSegments, FdKnown, UnbornUnmapped
<1> QED BY <1>2, <1>8 DEF Inv, RecordsOK

(* The chain goes from recvmsg to mmap.                                    *)
LEMMA RecvmsgExitInv ==
  ASSUME Inv, NEW t \in Tracees, RecvmsgExit(t) PROVE Inv'
<1>1. RecordsOK(config')
  BY ChainToOK DEF RecvmsgExit, Chained
<1>2. SegmentsInv /\ UNCHANGED <<shms, maps, fds, requests, life>>
  BY DEF Inv, RecvmsgExit, helper
<1>3. SegmentsInv'
  BY <1>2, LifeSame, SegmentsSame
<1> QED BY <1>1, <1>3 DEF Inv, RecordsOK

(* An assertion that stops PRoot leaves everything as it was.              *)
LEMMA ChainAssertsInv ==
  ASSUME Inv, NEW t \in Tracees, ChainAsserts(t) PROVE Inv'
<1>1. SegmentsInv /\ RecordsOK(config) /\ UNCHANGED <<shms, maps, fds, requests, life, config>>
  BY DEF Inv, ChainAsserts, helper
<1>2. SegmentsInv'
  BY <1>1, LifeSame, SegmentsSame
<1> QED BY <1>1, <1>2 DEF Inv, RecordsOK

(* The pending mapping becomes one: the segment stays mapped.              *)
LEMMA MmapExitInv ==
  ASSUME Inv, NEW t \in Tracees, MmapExit(t) PROVE Inv'
<1> DEFINE p == ProcOf[t]
           s == config[t].waiting_object_index
           cell == maps[p][s]
           np == cell.pending - 1
           nd == cell.done + 1
           cn == [cell EXCEPT !.pending = np, !.done = nd]
<1>1. AtChain(t, "SHMAT_MMAP") /\ "SHMAT_MMAP" \in Chained
  BY DEF MmapExit, Chained
<1>2. s \in Slots /\ p \in Procs /\ shms[s].valid /\ life[t] = "running"
  BY <1>1, ChainKnows
<1>3. RecordsOK(config')
  BY <1>1, ChainOverOK DEF MmapExit
<1>4. SegmentsInv /\ UNCHANGED <<shms, fds, requests, life>> /\ cell.pending > 0
  BY DEF Inv, MmapExit, HasPending
<1>5. maps \in [Procs -> [Slots -> Cell]] /\ UnbornUnmapped
  BY <1>4 DEF SegmentsInv, TypesPart
<1>6. maps' = [maps EXCEPT ![p] = [maps[p] EXCEPT ![s] = cn]]
  <2>1. maps' = [[maps EXCEPT ![p][s].pending = @ - 1] EXCEPT ![p][s].done = @ + 1]
    BY DEF MmapExit
  <2> DEFINE m1 == [maps EXCEPT ![p][s].pending = @ - 1]
             c1 == [cell EXCEPT !.pending = np]
  <2>2. m1 = [maps EXCEPT ![p] = [maps[p] EXCEPT ![s] = c1]]
    BY <1>2, <1>5
  <2>0. cell \in Cell
    BY <1>2, <1>5
  <2> HIDE DEF p, s, m1
  <2>3. m1 \in [Procs -> [Slots -> Cell]] /\ m1[p][s] = c1
        /\ (\A u \in Slots \ {s} : m1[p][u] = maps[p][u]) /\ (\A q \in Procs \ {p} : m1[q] = maps[q])
    <3> HIDE DEF cell
    <3>1. np \in Nat
      BY <1>4, <2>0 DEF Cell
    <3> HIDE DEF np
    <3>2. c1 \in Cell
      BY <2>0, <3>1 DEF Cell
    <3> HIDE DEF c1
    <3> QED BY <1>2, <1>5, <2>2, <3>2
  <2>4. maps' = [m1 EXCEPT ![p] = [m1[p] EXCEPT ![s] = [m1[p][s] EXCEPT !.done = m1[p][s].done + 1]]]
    BY <1>2, <2>1, <2>3 DEF m1
  <2>5. c1.done = cell.done
    BY <2>0 DEF Cell
  <2>6. [m1[p][s] EXCEPT !.done = m1[p][s].done + 1] = cn
    BY <2>3, <2>5
  <2> HIDE DEF c1, cell, cn
  <2>7. maps' = [m1 EXCEPT ![p] = [m1[p] EXCEPT ![s] = cn]]
    BY <2>4, <2>6
  <2>8. [m1[p] EXCEPT ![s] = cn] = [maps[p] EXCEPT ![s] = cn]
    BY <1>2, <1>5, <2>3
  <2>9. [m1 EXCEPT ![p] = [maps[p] EXCEPT ![s] = cn]] = [maps EXCEPT ![p] = [maps[p] EXCEPT ![s] = cn]]
    BY <1>2, <1>5, <2>3
  <2> QED BY <2>7, <2>8, <2>9
<1> HIDE DEF p, s
<1>7. cell \in Cell /\ np \in Nat /\ nd \in Nat /\ np + nd > 0
  <2>1. cell \in Cell
    BY <1>2, <1>5
  <2> HIDE DEF cell
  <2>2. cell.pending \in Nat /\ cell.done \in Nat
    BY <2>1 DEF Cell
  <2> QED BY <1>4, <2>1, <2>2
<1>8. cn \in Cell /\ cn.pending + cn.done > 0
  <2> HIDE DEF np, nd, cell
  <2>1. cn \in Cell /\ cn.pending = np /\ cn.done = nd
    BY <1>7 DEF Cell
  <2> QED BY <1>7, <2>1
<1> HIDE DEF cn
<1>9. /\ maps' \in [Procs -> [Slots -> Cell]] /\ maps'[p][s] = cn
      /\ \A q \in Procs \ {p} : maps'[q] = maps[q]
      /\ \A u \in Slots \ {s} : maps'[p][u] = maps[p][u]
  BY <1>2, <1>5, <1>6, <1>8
<1>10. Mapped(maps', s)
  BY <1>2, <1>8, <1>9 DEF Mapped
<1>11. \A u \in Slots : u # s => (Mapped(maps', u) <=> Mapped(maps, u))
  <2> TAKE u \in Slots
  <2> HAVE u # s
  <2>1. \A q \in Procs : maps'[q][u] = maps[q][u]
    BY <1>9
  <2> QED BY <2>1 DEF Mapped
<1>12. /\ \A u \in Slots : Mapped(maps', u) => shms[u].valid
       /\ \A u \in Slots : Mapped(maps, u) => Mapped(maps', u)
  BY <1>2, <1>4, <1>10, <1>11 DEF SegmentsInv, MappedIsValid
<1>13. UnbornUnmapped'
  <2> SUFFICES ASSUME NEW u \in Tracees, life[u] = "unborn"
               PROVE  u \in Newborn /\ maps'[ProcOf[u]] = maps[ProcOf[u]]
    BY <1>4, <1>5 DEF UnbornUnmapped, Unmapped
  <2>1. u \in Newborn /\ ProcOf[u] \in Procs /\ u # t
    BY <1>2, <1>5, ShmAssumption DEF UnbornUnmapped
  <2>2. ProcOf[u] # p
    BY <2>1, ForkAssumption DEF p
  <2> QED BY <1>9, <2>1, <2>2
<1>14. SegmentsInv'
  BY <1>4, <1>9, <1>12, <1>13, MapsGrow, LifeSame
<1> QED BY <1>3, <1>14 DEF Inv, RecordsOK

(* shmdt takes one mapping away, done or pending.                          *)
LEMMA ShmDtInv ==
  ASSUME Inv, NEW t \in Tracees, NEW s \in Slots, ShmDt(t, s) PROVE Inv'
<1> DEFINE p == ProcOf[t]
<1>1. SegmentsInv /\ RecordsOK(config) /\ UNCHANGED <<fds, life, config>> /\ p \in Procs
  BY ShmAssumption DEF Inv, ShmDt
<1>2. \/ maps[p][s].pending > 0 /\ DropMaps([maps EXCEPT ![p][s].pending = @ - 1])
      \/ maps[p][s].done > 0 /\ DropMaps([maps EXCEPT ![p][s].done = @ - 1])
  BY DEF ShmDt
<1> HIDE DEF p
<1>3. SegmentsInv'
  BY <1>1, <1>2, OneLess
<1> QED BY <1>1, <1>3 DEF Inv, RecordsOK

(* execve takes all the mappings of its process away.                      *)
LEMMA ExecInv ==
  ASSUME Inv, NEW t \in Tracees, Exec(t) PROVE Inv'
<1> DEFINE p == ProcOf[t]
<1>1. SegmentsInv /\ RecordsOK(config) /\ UNCHANGED <<fds, life, config>> /\ p \in Procs
      /\ DropMaps([maps EXCEPT ![p] = [s \in Slots |-> [pending |-> 0, done |-> 0]]])
  BY ShmAssumption DEF Inv, Exec
<1> HIDE DEF p
<1>2. SegmentsInv'
  BY <1>1, LifeSame, NoneLeft
<1> QED BY <1>1, <1>2 DEF Inv, RecordsOK

(* The child of a fork maps what its parent maps, all of it valid; it      *)
(* mapped nothing before, so nothing is dropped.                           *)
LEMMA ForkInv ==
  ASSUME Inv, NEW t \in Tracees, NEW u \in Newborn, Fork(t, u) PROVE Inv'
<1> DEFINE p == ProcOf[t]
           q == ProcOf[u]
<1>1. SegmentsInv /\ RecordsOK(config) /\ UNCHANGED <<shms, fds, requests, config>>
      /\ life' = [life EXCEPT ![u] = "running"] /\ maps' = [maps EXCEPT ![q] = maps[p]]
      /\ life[u] = "unborn" /\ life[t] = "running"
  BY DEF Inv, Fork, helper, Ready, Running
<1>2. u \in Tracees /\ p \in Procs /\ q \in Procs /\ u # t
  BY <1>1, ShmAssumption
<1>3. maps \in [Procs -> [Slots -> Cell]] /\ UnbornUnmapped
      /\ life \in [Tracees -> {"unborn", "running", "killed", "freed"}]
  BY <1>1 DEF SegmentsInv, TypesPart
<1>4. Unmapped(maps[q])
  BY <1>1, <1>2, <1>3 DEF UnbornUnmapped
<1> HIDE DEF p, q
<1>5. maps' \in [Procs -> [Slots -> Cell]] /\ maps'[q] = maps[p]
      /\ \A x \in Procs \ {q} : maps'[x] = maps[x]
  BY <1>1, <1>2, <1>3
<1>6. life' \in [Tracees -> {"unborn", "running", "killed", "freed"}]
      /\ \A x \in Tracees : life'[x] = "unborn" => life[x] = "unborn" /\ x # u
  BY <1>1, <1>2, <1>3
<1>7. ASSUME NEW s \in Slots, Mapped(maps', s) PROVE shms[s].valid
  <2>1. Mapped(maps, s)
    BY <1>2, <1>5, <1>7 DEF Mapped
  <2> QED BY <1>1, <2>1 DEF SegmentsInv, MappedIsValid
<1>8. ASSUME NEW s \in Slots, Mapped(maps, s) PROVE Mapped(maps', s)
  <2>1. PICK x \in Procs : maps[x][s].pending + maps[x][s].done > 0
    BY <1>8 DEF Mapped
  <2>2. x # q
    <3>1. maps[q][s].pending + maps[q][s].done = 0
      BY <1>4 DEF Unmapped
    <3> QED BY <2>1, <3>1
  <2>3. maps'[x][s].pending + maps'[x][s].done > 0
    BY <1>5, <2>1, <2>2
  <2> QED BY <2>3 DEF Mapped
<1>9. UnbornUnmapped'
  <2> SUFFICES ASSUME NEW x \in Tracees, life'[x] = "unborn"
               PROVE  x \in Newborn /\ Unmapped(maps'[ProcOf[x]])
    BY DEF UnbornUnmapped
  <2>1. life[x] = "unborn" /\ x # u
    BY <1>6
  <2>2. x \in Newborn /\ Unmapped(maps[ProcOf[x]]) /\ ProcOf[x] \in Procs
    BY <1>3, <2>1, ShmAssumption DEF UnbornUnmapped
  <2>3. ProcOf[x] # q
    BY <1>2, <2>1, <2>2, ForkAssumption DEF q
  <2>4. maps'[ProcOf[x]] = maps[ProcOf[x]]
    BY <1>5, <2>2, <2>3
  <2> QED BY <2>2, <2>4
<1>10. SegmentsInv'
  BY <1>1, <1>5, <1>6, <1>7, <1>8, <1>9, MapsGrow
<1> QED BY <1>1, <1>10 DEF Inv, RecordsOK

(* The re-executed ppoll is entered: a wait that was cancelled meanwhile   *)
(* is over at once.                                                        *)
LEMMA ReenterPpollInv ==
  ASSUME Inv, NEW t \in Tracees, ReenterPpoll(t) PROVE Inv'
<1> DEFINE w == config[t]
           ws == IF w.wait_state = "RESTARTED_INTO_PPOLL" THEN "ENTERED_PPOLL" ELSE "SIGNALED_PPOLL"
           r == [w EXCEPT !.wait_state = ws]
<1>1. SegmentsInv /\ RecordsOK(config) /\ UNCHANGED <<shms, maps, fds, requests, life>>
      /\ RecordOK(w) /\ config' = [config EXCEPT ![t] = r]
      /\ w.wait_state \in {"RESTARTED_INTO_PPOLL", "RESTARTED_INTO_PPOLL_CANCELED"}
  BY DEF Inv, ReenterPpoll, helper, RecordsOK
<1>2. ws \in WaitStates /\ ws \in {"ENTERED_PPOLL", "SIGNALED_PPOLL"}
      /\ (ws = "ENTERED_PPOLL" <=> w.wait_state = "RESTARTED_INTO_PPOLL")
  BY DEF WaitStates
<1> HIDE DEF w, ws
<1>3. /\ r \in WaitType /\ r.wait_state = ws /\ r.wait_reason = w.wait_reason
      /\ r.chain_state = w.chain_state /\ r.waiting_object_index = w.waiting_object_index
  BY <1>1, <1>2 DEF RecordOK, WaitType
<1> HIDE DEF r
<1>4. RecordOK(r)
  BY <1>1, <1>2, <1>3 DEF RecordOK, WaitCoherent
<1>5. RecordsOK([config EXCEPT ![t] = r])
  BY <1>1, <1>4, RecordReplaced
<1>6. SegmentsInv'
  BY <1>1, LifeSame, SegmentsSame
<1> QED BY <1>1, <1>5, <1>6 DEF Inv, RecordsOK

(* A signal ends a wait: the tracee was not chained yet.                   *)
LEMMA PpollInterruptedInv ==
  ASSUME Inv, NEW t \in Tracees, PpollInterrupted(t) PROVE Inv'
<1> DEFINE w == config[t]
           r == [AbandonWait(w) EXCEPT !.waiting_object_index = 0]
<1>1. SegmentsInv /\ RecordsOK(config) /\ UNCHANGED <<shms, maps, fds, requests, life>>
      /\ RecordOK(w) /\ config' = [config EXCEPT ![t] = r] /\ w.wait_state = "ENTERED_PPOLL"
  BY DEF Inv, PpollInterrupted, helper, RecordsOK
<1> HIDE DEF w
<1>2. /\ r \in WaitType /\ r.wait_state = "NOT_WAITING" /\ r.wait_reason = "WR_NOT_WAITING"
      /\ r.chain_state = w.chain_state
  <2>1. 0 \in 0 .. MaxShms /\ "NOT_WAITING" \in WaitStates /\ "WR_NOT_WAITING" \in Reasons
    BY ShmAssumption DEF WaitStates, Reasons
  <2> QED BY <1>1, <2>1 DEF RecordOK, WaitType, AbandonWait
<1> HIDE DEF r
<1>3. RecordOK(r)
  BY <1>1, <1>2 DEF RecordOK, WaitCoherent
<1>4. RecordsOK([config EXCEPT ![t] = r])
  BY <1>1, <1>3, RecordReplaced
<1>5. SegmentsInv'
  BY <1>1, LifeSame, SegmentsSame
<1> QED BY <1>1, <1>4, <1>5 DEF Inv, RecordsOK

(* A woken tracee goes on with its chain.                                  *)
LEMMA WokenPpollExitInv ==
  ASSUME Inv, NEW t \in Tracees, WokenPpollExit(t) PROVE Inv'
<1> DEFINE w == config[t]
           r == EndWait(w)
<1>1. SegmentsInv /\ RecordsOK(config) /\ UNCHANGED <<shms, maps, fds, requests, life>>
      /\ RecordOK(w) /\ config' = [config EXCEPT ![t] = r] /\ w.wait_state = "SIGNALED_PPOLL"
  BY DEF Inv, WokenPpollExit, helper, RecordsOK
<1> HIDE DEF w
<1>2. /\ r \in WaitType /\ r.wait_state = "NOT_WAITING" /\ r.wait_reason = w.wait_reason
      /\ r.chain_state = w.chain_state /\ r.waiting_object_index = w.waiting_object_index
  <2>1. "NOT_WAITING" \in WaitStates
    BY DEF WaitStates
  <2> QED BY <1>1, <2>1 DEF RecordOK, WaitType, EndWait
<1> HIDE DEF r
<1>3. RecordOK(r)
  BY <1>1, <1>2 DEF RecordOK, WaitCoherent
<1>4. RecordsOK([config EXCEPT ![t] = r])
  BY <1>1, <1>3, RecordReplaced
<1>5. SegmentsInv'
  BY <1>1, LifeSame, SegmentsSame
<1> QED BY <1>1, <1>4, <1>5 DEF Inv, RecordsOK

(* A tracee that is killed or reaped is not unborn again.                  *)
LEMMA LifeGoesOn ==
  ASSUME SegmentsInv, NEW t \in Tracees, NEW l \in {"killed", "freed"},
         life' = [life EXCEPT ![t] = l]
  PROVE  /\ life' \in [Tracees -> {"unborn", "running", "killed", "freed"}]
         /\ \A u \in Tracees : life'[u] = "unborn" => life[u] = "unborn"
<1>1. life \in [Tracees -> {"unborn", "running", "killed", "freed"}]
  BY DEF SegmentsInv, TypesPart
<1> QED BY <1>1

(* A death PRoot is not told of yet changes no segment.                    *)
LEMMA KillInv ==
  ASSUME Inv, NEW t \in Tracees, Kill(t) PROVE Inv'
<1>1. SegmentsInv /\ RecordsOK(config) /\ UNCHANGED <<shms, maps, fds, requests, config>>
      /\ life' = [life EXCEPT ![t] = "killed"]
  BY DEF Inv, Kill
<1>2. SegmentsInv'
  BY <1>1, LifeGoesOn, SegmentsSame
<1> QED BY <1>1, <1>2 DEF Inv, RecordsOK

(* The record as talloc_zero leaves it.                                    *)
LEMMA InitWaitOK == RecordOK(InitWait)
<1>1. 0 \in 0 .. MaxShms /\ "NOT_WAITING" \in WaitStates /\ "WR_NOT_WAITING" \in Reasons /\ 0 \in Int
  BY ShmAssumption DEF WaitStates, Reasons
<1>2. InitWait \in WaitType
  BY <1>1 DEF WaitType, InitWait
<1>3. InitWait.wait_state = "NOT_WAITING" /\ InitWait.wait_reason = "WR_NOT_WAITING"
      /\ InitWait.chain_state = "NOT_CHAINED"
  BY DEF InitWait
<1> QED BY <1>2, <1>3 DEF RecordOK, WaitCoherent, Chained

(* The last thread of a process takes its mappings with it.                *)
LEMMA ReapInv ==
  ASSUME Inv, NEW t \in Tracees, Reap(t) PROVE Inv'
<1> DEFINE p == ProcOf[t]
<1>1. SegmentsInv /\ RecordsOK(config) /\ fds' = fds /\ life' = [life EXCEPT ![t] = "freed"]
      /\ config' = [config EXCEPT ![t] = InitWait] /\ p \in Procs
  BY ShmAssumption DEF Inv, Reap
<1>2. \/ DropMaps([maps EXCEPT ![p] = [s \in Slots |-> [pending |-> 0, done |-> 0]]])
      \/ UNCHANGED <<maps, shms, requests>>
  BY DEF Reap
<1> HIDE DEF p
<1>3. SegmentsInv'
  <2>1. /\ life' \in [Tracees -> {"unborn", "running", "killed", "freed"}]
        /\ \A u \in Tracees : life'[u] = "unborn" => life[u] = "unborn"
    BY <1>1, LifeGoesOn
  <2> QED BY <1>1, <1>2, <2>1, NoneLeft, SegmentsSame
<1>4. RecordsOK([config EXCEPT ![t] = InitWait])
  BY <1>1, InitWaitOK, RecordReplaced
<1> QED BY <1>1, <1>3, <1>4 DEF Inv, RecordsOK

(* The requests behind the first one are as they were.                     *)
LEMMA PipeShifts ==
  ASSUME SegmentsInv, requests # <<>>, requests' = Tail(requests), shms' = shms
  PROVE  requests' \in Seq(Request) /\ FreedNotHeld' /\ 1 \in DOMAIN requests
         /\ Head(requests) = requests[1]
<1>1. requests \in Seq(Request) /\ FreedNotHeld
  BY DEF SegmentsInv, TypesPart
<1>2. /\ requests' \in Seq(Request) /\ Head(requests) = requests[1]
      /\ Len(requests') = Len(requests) - 1
      /\ \A i \in 1 .. Len(requests') : requests'[i] = requests[i + 1]
  BY <1>1, HeadTailProperties
<1>3. Len(requests) \in Nat /\ Len(requests) > 0 /\ DOMAIN requests = 1 .. Len(requests)
      /\ DOMAIN requests' = 1 .. Len(requests')
  BY <1>1, <1>2, EmptySeq, LenProperties
<1>4. ASSUME NEW i \in DOMAIN requests'
      PROVE  i + 1 \in DOMAIN requests /\ requests'[i] = requests[i + 1]
  BY <1>2, <1>3
<1>5. FreedNotHeld'
  BY <1>1, <1>4 DEF FreedNotHeld
<1> QED BY <1>2, <1>3, <1>5

(* The descriptors a FREE request closes are no valid segment's.           *)
LEMMA HelperFreeInv ==
  ASSUME Inv, HelperFree PROVE Inv'
<1> DEFINE q == Head(requests)
<1>1. SegmentsInv /\ RecordsOK(config) /\ UNCHANGED <<shms, maps, life, config>>
      /\ requests # <<>> /\ requests' = Tail(requests) /\ q.op = "FREE"
      /\ fds' = [f \in Fds |-> IF f \in q.fds THEN NoSegment ELSE fds[f]]
  BY DEF Inv, HelperFree
<1>2. requests' \in Seq(Request) /\ FreedNotHeld' /\ 1 \in DOMAIN requests /\ q = requests[1]
  BY <1>1, PipeShifts
<1>3. \A s \in Slots : shms[s].valid => shms[s].fd \in Fds /\ shms[s].fd \notin q.fds
  BY <1>1, <1>2 DEF SegmentsInv, FreedNotHeld, FdKnown
<1>4. fds' \in [Fds -> Nat \X Nat]
  <2>1. NoSegment \in Nat \X Nat /\ fds \in [Fds -> Nat \X Nat]
    BY <1>1 DEF NoSegment, SegmentsInv, TypesPart
  <2> HIDE DEF q
  <2> QED BY <1>1, <2>1
<1> HIDE DEF q
<1>5. HelperHoldsSegments'
  BY <1>1, <1>3 DEF SegmentsInv, HelperHoldsSegments
<1>6. SegmentsInv'
  BY <1>1, <1>2, <1>4, <1>5 DEF SegmentsInv, TypesPart, MappedIsValid, DeferredRemovalHasUser,
     FdKnown, UnbornUnmapped
<1> QED BY <1>1, <1>6 DEF Inv, RecordsOK

(* A DISTRIBUTE request closes nothing.                                    *)
LEMMA HelperDistributeInv ==
  ASSUME Inv, HelperDistribute PROVE Inv'
<1>1. SegmentsInv /\ RecordsOK(config) /\ UNCHANGED <<shms, maps, life, fds, config>>
      /\ requests # <<>> /\ requests' = Tail(requests)
  BY DEF Inv, HelperDistribute
<1>2. requests' \in Seq(Request) /\ FreedNotHeld'
  BY <1>1, PipeShifts
<1>3. SegmentsInv'
  BY <1>1, <1>2 DEF SegmentsInv, TypesPart, MappedIsValid, DeferredRemovalHasUser,
     HelperHoldsSegments, FdKnown, UnbornUnmapped
<1> QED BY <1>1, <1>3 DEF Inv, RecordsOK

-----------------------------------------------------------------------------
(* The initial state satisfies the invariant.                              *)
LEMMA InitInv == Init => Inv
<1> SUFFICES ASSUME Init PROVE Inv
  OBVIOUS
<1>1. shms \in [Slots -> ShmType] /\ \A s \in Slots : ~shms[s].valid /\ ~shms[s].rmid_pending
  <2>1. 0 \in 0 .. MaxShms /\ 0 \in Nat
    BY ShmAssumption
  <2>2. FreeShm \in ShmType /\ FreeShm.valid = FALSE /\ FreeShm.rmid_pending = FALSE
    BY <2>1 DEF FreeShm, ShmType, NoFd
  <2> QED BY <2>2 DEF Init
<1>2. maps \in [Procs -> [Slots -> Cell]]
      /\ \A p \in Procs, s \in Slots : maps[p][s].pending = 0 /\ maps[p][s].done = 0
  BY DEF Init, Cell
<1>3. fds \in [Fds -> Nat \X Nat]
  <2>1. NoSegment \in Nat \X Nat
    BY DEF NoSegment
  <2> QED BY <2>1 DEF Init
<1>4. requests = <<>> /\ requests \in Seq(Request) /\ DOMAIN requests = {}
  BY DEF Init
<1>5. life \in [Tracees -> {"unborn", "running", "killed", "freed"}]
      /\ \A u \in Tracees : life[u] = "unborn" => u \in Newborn
  BY DEF Init
<1>6. \A s \in Slots : ~Mapped(maps, s)
  BY <1>2 DEF Mapped
<1>7. UnbornUnmapped
  <2>1. \A u \in Tracees : ProcOf[u] \in Procs
    BY ShmAssumption
  <2> QED BY <1>2, <1>5, <2>1 DEF UnbornUnmapped, Unmapped
<1>8. RecordsOK(config)
  <2>1. InitWait \in WaitType
    BY InitWaitOK DEF RecordOK
  <2>2. config \in [Tracees -> WaitType] /\ \A t \in Tracees : config[t] = InitWait
    BY <2>1 DEF Init
  <2> QED BY <2>2, InitWaitOK DEF RecordsOK
<1> QED BY <1>1, <1>2, <1>3, <1>4, <1>5, <1>6, <1>7, <1>8 DEF Inv, SegmentsInv, TypesPart,
        MappedIsValid, DeferredRemovalHasUser, HelperHoldsSegments, FreedNotHeld, FdKnown

(* A step of the environment.                                              *)
LEMMA StutterInv ==
  ASSUME Inv, UNCHANGED vars PROVE Inv'
<1>1. SegmentsInv /\ RecordsOK(config) /\ UNCHANGED <<shms, maps, fds, requests, life, config>>
  BY DEF Inv, vars
<1>2. SegmentsInv'
  BY <1>1, LifeSame, SegmentsSame
<1> QED BY <1>1, <1>2 DEF Inv, RecordsOK

(* Every step preserves the invariant.                                     *)
LEMMA NextInv ==
  ASSUME Inv, [Next]_vars PROVE Inv'
<1>1. CASE UNCHANGED vars
  BY <1>1, StutterInv
<1>2. CASE HelperFree \/ HelperDistribute
  BY <1>2, HelperFreeInv, HelperDistributeInv
<1>3. ASSUME NEW t \in Tracees,
             \/ ShmGet(t) \/ \E id \in Ids : ShmRmid(t, id)
             \/ t \in Attachers /\ \E id \in Ids : ShmAt(t, id)
             \/ \E s \in Slots : ShmDt(t, s)
             \/ Exec(t) \/ \E u \in Newborn : Fork(t, u)
             \/ Chain(t) \/ Wait(t) \/ Kill(t) \/ Reap(t)
      PROVE  Inv'
  <2>1. CASE ShmGet(t) \/ (\E id \in Ids : ShmRmid(t, id)) \/ (\E id \in Ids : ShmAt(t, id))
             \/ (\E s \in Slots : ShmDt(t, s))
    BY <2>1, ShmGetInv, ShmRmidInv, ShmAtInv, ShmDtInv
  <2>2. CASE Exec(t) \/ (\E u \in Newborn : Fork(t, u)) \/ Kill(t) \/ Reap(t)
    BY <2>2, ExecInv, ForkInv, KillInv, ReapInv
  <2>3. CASE Chain(t)
    BY <2>3, SocketExitInv, KernelConnectInv, ConnectExitInv, RecvmsgExitInv, MmapExitInv,
       ShmAtFailsInv, ChainAssertsInv DEF Chain
  <2>4. CASE Wait(t)
    BY <2>4, ReenterPpollInv, PpollInterruptedInv, WokenPpollExitInv DEF Wait
  <2> QED BY <1>3, <2>1, <2>2, <2>3, <2>4
<1> QED BY <1>1, <1>2, <1>3 DEF Next

(* The invariant holds throughout.                                         *)
LEMMA SpecInv == Spec => []Inv
<1>1. Inv /\ [Next]_vars => Inv'
  BY NextInv
<1> QED BY <1>1, InitInv, PTL DEF Spec

(* Memory lives as long as it is used, and no longer: whatever attaches,   *)
(* detaches, forks, execs, removals, signals and deaths come between the   *)
(* steps of a chain and the requests the helper has not served yet, a      *)
(* mapped segment is valid, a deferred removal has a user, and the helper  *)
(* holds every valid segment under the descriptor PRoot knows.             *)
THEOREM SegmentsStay == Spec => []SegmentsAreKept
<1>1. Inv => SegmentsAreKept
  BY DEF Inv, SegmentsInv, SegmentsAreKept
<1> QED BY <1>1, SpecInv, PTL

(* A tracee has a reason to wait exactly while it is parked, and runs the  *)
(* chain of its shmat only when it is not: sysvipc_wake_tracee finds only  *)
(* tracees it may wake, however many chains end while others wait.         *)
THEOREM ShmWaitsStayCoherent == Spec => []ShmWaitsCoherent
<1>1. Inv => ShmWaitsCoherent
  BY DEF Inv, RecordsOK, RecordOK, ShmWaitsCoherent
<1> QED BY <1>1, SpecInv, PTL
=============================================================================
