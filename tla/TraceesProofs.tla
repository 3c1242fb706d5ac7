--------------------------- MODULE TraceesProofs ---------------------------
(***************************************************************************)
(* The records of ptracers and ptracees agree (LinksAgree), in whatever    *)
(* order processes fork, stop, ask to be traced, wait and die.             *)
(*                                                                         *)
(* The inductive invariant OkInv says of the state that every record has   *)
(* its type and, while no assertion of PRoot has failed, that the links    *)
(* agree (Agree).  Two conjuncts of Agree are there for the induction:     *)
(* the zombies of a ptracer are gone in the kernel, so that a tracee that  *)
(* exits is never counted twice; and a report comes from where it can.     *)
(*                                                                         *)
(* PRoot's functions map a state S to a state R.  Most are quiet: they     *)
(* leave every link alone, and Agree with them (Quiet).  Those that attach *)
(* and detach relink one ptracee and change one counter (Relinked).  Of    *)
(* each function up to handle_ptracee_event it is shown that R is fine     *)
(* after S: R is Ok, nobody left the list, and nobody returned from death. *)
(* Fine is transitive, so a handler is the chain of the calls it makes.    *)
(* remove_tracee is not fine, it takes a tracee off the list: Left says    *)
(* how the other records see it go.                                        *)
(***************************************************************************)
EXTENDS Tracees, TLAPS, FiniteSetTheorems, FunctionTheorems

(* The types of the events, of the records and of the states S.            *)
Events == {"none", "0", "syscall", "FORK", "SIGSTOP", "signal", "EXITED"}
EventType == [value : Events, pending : BOOLEAN]
PtraceeType == [ptracer : Procs \cup {NULL}, proot : EventType, event : EventType,
                tracing_started : BOOLEAN, ignore_syscalls : BOOLEAN, tracefork : BOOLEAN]
ZombieType == [pid : Procs, parent : Procs \cup {NULL}]
TraceeType == [listed : BOOLEAN, exe : BOOLEAN, parent : Procs \cup {NULL},
               running : BOOLEAN, sigstop : {"IGNORED", "ALLOWED", "PENDING"},
               restart_how : BOOLEAN, sysexit : BOOLEAN, chained : BOOLEAN,
               as_ptracee : PtraceeType, nb_ptracees : Int,
               zombies : SUBSET ZombieType, wait_pid : Procs \cup {NULL, -1},
               waits_in : {"DOESNT_WAIT", "WAITS_IN_PROOT", "WAITS_IN_KERNEL"}]
Places == {"unborn", "user", "enter", "inside", "fork", "forked", "exit", "again",
           "signal", "dead", "gone"}
KernelType == [pc : Places, run : BOOLEAN, report : Events, stop : BOOLEAN,
               call : CallType \cup {NoCall}, again : BOOLEAN, child : Procs \cup {NULL}]
StateType == [t : [Procs -> TraceeType], k : [Procs -> KernelType],
              failed : {"none", "event.c:897", "ptrace.c:122", "ptrace.c:109", "tracee.c:422"}]

(* CountsAgree and NoDanglingLinks of any state S, and what else is needed *)
(* to keep them.                                                           *)
Counted(S) ==
  \A p \in Procs : S.t[p].listed =>
    S.t[p].nb_ptracees = Cardinality(Ptracees(S, p)) + Cardinality(S.t[p].zombies)
Linked(S) ==
  \A p \in Procs : S.t[p].listed =>
    /\ S.t[p].parent = NULL \/ S.t[S.t[p].parent].listed
    /\ Tracer(S, p) = NULL \/ S.t[Tracer(S, p)].listed
ZombiesGone(S) == \A p \in Procs : \A z \in S.t[p].zombies : S.k[z.pid].pc = "gone"
Reported(S) == \A p \in Procs : /\ S.k[p].report = "EXITED" => S.k[p].pc = "dead"
                                /\ S.k[p].report = "FORK" => S.k[p].child \in Procs
Agree(S) == Counted(S) /\ Linked(S) /\ ZombiesGone(S) /\ Reported(S)
Ok(S) == S \in StateType /\ (S.failed = "none" => Agree(S))
OkInv == Ok(State)

-----------------------------------------------------------------------------
(* The links of a record are the fields that LinksAgree is about. R is     *)
(* quiet after S: every record has the links it had, every report and      *)
(* every death is what it was.                                             *)
SameLinks(r, s) == /\ s.listed = r.listed /\ s.parent = r.parent
                   /\ s.as_ptracee.ptracer = r.as_ptracee.ptracer
                   /\ s.nb_ptracees = r.nb_ptracees /\ s.zombies = r.zombies
SameEnd(a, b) == /\ b.report = a.report /\ b.child = a.child
                 /\ a.pc \in {"dead", "gone"} => b.pc = a.pc
Quiet(S, R) == /\ R \in StateType
               /\ S.failed # "none" => R.failed # "none"
               /\ \A q \in Procs : SameLinks(S.t[q], R.t[q]) /\ SameEnd(S.k[q], R.k[q])

(* Quiet is reflexive: a function that returns early is quiet.             *)
LEMMA QuietRefl == ASSUME NEW S \in StateType PROVE Quiet(S, S)
  BY DEF Quiet, SameLinks, SameEnd

(* Quiet is transitive: a handler that only calls quiet functions is       *)
(* quiet.                                                                  *)
LEMMA QuietTrans == ASSUME NEW S, NEW R, NEW T, Quiet(S, R), Quiet(R, T) PROVE Quiet(S, T)
  BY DEF Quiet, SameLinks, SameEnd

(* A failed assertion stops PRoot and writes no record.                    *)
LEMMA AssertQuiet ==
  ASSUME NEW S \in StateType, NEW c,
         NEW n \in {"event.c:897", "ptrace.c:122", "ptrace.c:109", "tracee.c:422"}
  PROVE  Quiet(S, Assert(S, c, n)) /\ Assert(S, c, n).t = S.t /\ Assert(S, c, n).k = S.k
  BY DEF Quiet, SameLinks, SameEnd, Assert, StateType

(* A write to a tracee that keeps its links is quiet; a write to the       *)
(* ptracer of a tracee that has none is no write.                          *)
LEMMA SetTQuiet ==
  ASSUME NEW S \in StateType, NEW p \in Procs \cup {NULL}, NEW r,
         p # NULL => r \in TraceeType /\ SameLinks(S.t[p], r)
  PROVE  /\ Quiet(S, [S EXCEPT !.t[p] = r])
         /\ [S EXCEPT !.t[p] = r].k = S.k
         /\ p # NULL => [S EXCEPT !.t[p] = r].t[p] = r
<1>1. 0 \notin Procs  BY TraceesAssumption
<1>2. CASE p = NULL
  <2>1. [S.t EXCEPT ![p] = r] = S.t  BY <1>1, <1>2 DEF StateType, NULL
  <2>2. [S EXCEPT !.t[p] = r] = S  BY <2>1 DEF StateType
  <2> QED BY <1>2, <2>2, QuietRefl
<1>3. CASE p \in Procs
  BY <1>1, <1>3 DEF Quiet, SameLinks, SameEnd, StateType, NULL
<1> QED BY <1>2, <1>3

(* The same of what PRoot does to a process in the kernel.                 *)
LEMMA SetKQuiet ==
  ASSUME NEW S \in StateType, NEW p \in Procs \cup {NULL}, NEW a,
         p # NULL => a \in KernelType /\ SameEnd(S.k[p], a)
  PROVE  Quiet(S, [S EXCEPT !.k[p] = a]) /\ [S EXCEPT !.k[p] = a].t = S.t
<1>1. 0 \notin Procs  BY TraceesAssumption
<1>2. CASE p = NULL
  <2>1. [S.k EXCEPT ![p] = a] = S.k  BY <1>1, <1>2 DEF StateType, NULL
  <2>2. [S EXCEPT !.k[p] = a] = S  BY <2>1 DEF StateType
  <2> QED BY <1>2, <2>2, QuietRefl
<1>3. CASE p \in Procs
  BY <1>1, <1>3 DEF Quiet, SameLinks, SameEnd, StateType, NULL
<1> QED BY <1>2, <1>3

(* restart_tracee is quiet, whether the tracee can be restarted or not.    *)
LEMMA RestartQuiet ==
  ASSUME NEW S \in StateType, NEW p \in Procs \cup {NULL}
  PROVE  Quiet(S, restart_tracee(S, p))
<1> DEFINE A == Assert(S, S.t[p].wait_pid # NULL \/ S.t[p].restart_how, "event.c:897")
           r == [A.t[p] EXCEPT !.restart_how = FALSE, !.running = TRUE]
           to == Onward(S.k[p])
           B == [A EXCEPT !.t[p] = r]
           a == [A.k[p] EXCEPT !.run = TRUE, !.pc = to, !.again = FALSE,
                             !.call = IF to = "user" THEN NoCall ELSE S.k[p].call]
           R == [B EXCEPT !.k[p] = a]
<1>1. Quiet(S, A) /\ A.t = S.t /\ A.k = S.k
  BY AssertQuiet
<1>2. A \in StateType  BY <1>1 DEF Quiet
<1>3. restart_tracee(S, p) = IF ~Restartable(S, p) THEN A ELSE R
  BY DEF restart_tracee
<1>4. CASE Restartable(S, p)
  <2> HIDE DEF A
  <2>1. p # NULL => r \in TraceeType /\ SameLinks(A.t[p], r)
    <3>1. p # NULL => A.t[p] \in TraceeType  BY <1>2 DEF StateType
    <3> QED BY <3>1 DEF TraceeType, SameLinks
  <2>2. Quiet(A, B) /\ B.k = S.k
    <3> HIDE DEF r
    <3> QED BY <1>1, <1>2, <2>1, SetTQuiet
  <2>3. B \in StateType  BY <2>2 DEF Quiet
  <2> HIDE DEF B, r
  <2>4. p # NULL => /\ to \in Places /\ A.k[p] \in KernelType
                    /\ A.k[p].pc \notin {"dead", "gone"}
    BY <1>1, <1>2, <1>4 DEF StateType, Onward, Places, Restartable
  <2> HIDE DEF to
  <2>5. p # NULL => a \in KernelType /\ SameEnd(A.k[p], a)
    BY <1>1, <2>4 DEF KernelType, SameEnd
  <2> HIDE DEF a
  <2>6. Quiet(B, R)  BY <1>1, <2>2, <2>3, <2>5, SetKQuiet
  <2> QED BY <1>1, <1>3, <1>4, <2>2, <2>6, QuietTrans
<1> QED BY <1>1, <1>3, <1>4

(* The SIGSTOP sent by an attach is quiet.                                 *)
LEMMA SendStopQuiet ==
  ASSUME NEW S \in StateType, NEW q \in Procs
  PROVE  Quiet(S, SendStop(S, q))
<1> DEFINE a == [S.k[q] EXCEPT !.stop = S.k[q].pc # "dead"]
<1>1. S.k[q] \in KernelType  BY DEF StateType
<1>2. a \in KernelType /\ SameEnd(S.k[q], a)  BY <1>1 DEF KernelType, SameEnd
<1>3. SendStop(S, q) = [S EXCEPT !.k[q] = a]  BY DEF SendStop
<1> HIDE DEF a
<1> QED BY <1>2, <1>3, SetKQuiet

(* The wait chained behind the one that collected a child                  *)
(* (restart_original_syscall) is quiet.                                    *)
LEMMA ChainQuiet ==
  ASSUME NEW S \in StateType, NEW p \in Procs \cup {NULL}
  PROVE  Quiet(S, ChainOriginal(S, p))
<1> DEFINE r == [S.t[p] EXCEPT !.chained = TRUE]
           B == [S EXCEPT !.t[p] = r]
           a == [B.k[p] EXCEPT !.again = TRUE]
           R == [B EXCEPT !.k[p] = a]
<1>1. ChainOriginal(S, p) = R  BY DEF ChainOriginal
<1>2. p # NULL => S.t[p] \in TraceeType /\ S.k[p] \in KernelType  BY DEF StateType
<1>3. p # NULL => r \in TraceeType /\ SameLinks(S.t[p], r)
  BY <1>2 DEF TraceeType, SameLinks
<1> HIDE DEF r
<1>4. Quiet(S, B) /\ B.k = S.k  BY <1>3, SetTQuiet
<1>5. B \in StateType  BY <1>4 DEF Quiet
<1>6. p # NULL => a \in KernelType /\ SameEnd(B.k[p], a)
  <2> HIDE DEF B
  <2> QED BY <1>2, <1>4 DEF KernelType, SameEnd
<1> HIDE DEF a, B
<1>7. Quiet(B, R)  BY <1>5, <1>6, SetKQuiet
<1> QED BY <1>1, <1>4, <1>7, QuietTrans

(* The enter stage of a call is quiet.                                     *)
LEMMA EnterStageQuiet ==
  ASSUME NEW S \in StateType, NEW p \in Procs
  PROVE  Quiet(S, EnterStage(S, p))
<1> DEFINE r == [S.t[p] EXCEPT !.sysexit = TRUE]
           B == [S EXCEPT !.t[p] = r]
           w == IF WaitsInPRoot(S, p) THEN "WAITS_IN_PROOT" ELSE "WAITS_IN_KERNEL"
           s == [B.t[p] EXCEPT !.waits_in = w]
           R == [B EXCEPT !.t[p] = s]
<1>1. EnterStage(S, p) \in {B, R}  BY DEF EnterStage
<1>2. S.t[p] \in TraceeType  BY DEF StateType
<1>3. r \in TraceeType /\ SameLinks(S.t[p], r)
  BY <1>2 DEF TraceeType, SameLinks
<1> HIDE DEF r
<1>4. Quiet(S, B)  BY <1>3, SetTQuiet
<1>5. B \in StateType  BY <1>4 DEF Quiet
<1>6. B.t[p] \in TraceeType  BY <1>5 DEF StateType
<1>7. w \in {"WAITS_IN_PROOT", "WAITS_IN_KERNEL"}  OBVIOUS
<1> HIDE DEF B, w
<1>8. s \in TraceeType /\ SameLinks(B.t[p], s)
  BY <1>6, <1>7 DEF TraceeType, SameLinks
<1> HIDE DEF s
<1>9. Quiet(B, R)  BY <1>5, <1>8, SetTQuiet
<1> QED BY <1>1, <1>4, <1>9, QuietTrans

(* The first SIGSTOP of a tracee, handled or left pending, is quiet.       *)
LEMMA SigstopEventQuiet ==
  ASSUME NEW S \in StateType, NEW p \in Procs
  PROVE  Quiet(S, SigstopEvent(S, p))
<1> DEFINE w == IF ~S.t[p].exe THEN "PENDING"
                ELSE IF S.t[p].sigstop = "IGNORED" THEN "ALLOWED" ELSE S.t[p].sigstop
           r == [S.t[p] EXCEPT !.sigstop = w]
<1>1. SigstopEvent(S, p) = [S EXCEPT !.t[p] = r]  BY DEF SigstopEvent
<1>2. S.t[p] \in TraceeType  BY DEF StateType
<1>3. w \in {"IGNORED", "ALLOWED", "PENDING"}  BY <1>2 DEF TraceeType
<1> HIDE DEF w
<1>4. r \in TraceeType /\ SameLinks(S.t[p], r)
  BY <1>2, <1>3 DEF TraceeType, SameLinks
<1> HIDE DEF r
<1> QED BY <1>1, <1>4, SetTQuiet

(* What handle_tracee_event writes first, of any event, is quiet.          *)
LEMMA AnswerQuiet ==
  ASSUME NEW S \in StateType, NEW p \in Procs
  PROVE  Quiet(S, [S EXCEPT !.t[p].restart_how = TRUE,
                            !.t[p].as_ptracee.proot.pending = FALSE])
<1> DEFINE r == [S.t[p] EXCEPT !.restart_how = TRUE]
           B == [S EXCEPT !.t[p] = r]
           s == [B.t[p] EXCEPT !.as_ptracee.proot.pending = FALSE]
           R == [B EXCEPT !.t[p] = s]
<1>1. R = [S EXCEPT !.t[p].restart_how = TRUE,
                    !.t[p].as_ptracee.proot.pending = FALSE]  OBVIOUS
<1>2. S.t[p] \in TraceeType  BY DEF StateType
<1>3. r \in TraceeType /\ SameLinks(S.t[p], r)
  BY <1>2 DEF TraceeType, SameLinks
<1> HIDE DEF r
<1>4. Quiet(S, B)  BY <1>3, SetTQuiet
<1>5. B \in StateType  BY <1>4 DEF Quiet
<1>6. B.t[p] \in TraceeType  BY <1>5 DEF StateType
<1> HIDE DEF B
<1>8. s \in TraceeType /\ SameLinks(B.t[p], s)
  BY <1>6 DEF TraceeType, PtraceeType, EventType, SameLinks
<1> HIDE DEF s
<1>9. Quiet(B, R)  BY <1>5, <1>8, SetTQuiet
<1> QED BY <1>1, <1>4, <1>9, QuietTrans

(* The events PRoot may keep for later are handled quietly,                *)
LEMMA HandleKeptQuiet ==
  ASSUME NEW S \in StateType, NEW p \in Procs, NEW event
  PROVE  Quiet(S, HandleKept(S, p, event))
<1> DEFINE A == [S EXCEPT !.t[p].restart_how = TRUE,
                          !.t[p].as_ptracee.proot.pending = FALSE]
<1>1. Quiet(S, A)  BY AnswerQuiet
<1>2. HandleKept(S, p, event) \in {A, EnterStage(A, p), SigstopEvent(A, p)}
  BY DEF HandleKept
<1> HIDE DEF A
<1>3. A \in StateType  BY <1>1 DEF Quiet
<1>4. Quiet(A, EnterStage(A, p)) /\ Quiet(A, SigstopEvent(A, p))
  BY <1>3, EnterStageQuiet, SigstopEventQuiet
<1> QED BY <1>1, <1>2, <1>4, QuietTrans

(* with the restart that follows,                                          *)
LEMMA HandleAndRestartQuiet ==
  ASSUME NEW S \in StateType, NEW p \in Procs, NEW event
  PROVE  /\ Quiet(S, HandleAndRestart(S, p, event))
         /\ Quiet(S, restart_tracee(HandleKept(S, p, event), p))
<1>1. Quiet(S, HandleKept(S, p, event))  BY HandleKeptQuiet
<1>2. HandleKept(S, p, event) \in StateType  BY <1>1 DEF Quiet
<1>3. Quiet(S, restart_tracee(HandleKept(S, p, event), p))
  BY <1>1, <1>2, RestartQuiet, QuietTrans
<1> QED BY <1>1, <1>3 DEF HandleAndRestart

(* and when it is the ptracer that restarts its ptracee (CONT, SYSCALL,    *)
(* DETACH).                                                                *)
LEMMA ResumeQuiet ==
  ASSUME NEW S \in StateType, NEW q \in Procs, NEW forced
  PROVE  Quiet(S, Resume(S, q, forced))
<1>1. Quiet(S, restart_tracee(S, q))  BY RestartQuiet
<1> QED BY <1>1, HandleAndRestartQuiet DEF Resume

-----------------------------------------------------------------------------
(* R is fine after S: R is Ok, and no tracee left the list or came back    *)
(* from death in between.                                                  *)
Keeps(S, R) == \A q \in Procs : /\ S.t[q].listed => R.t[q].listed
                               /\ SameEnd(S.k[q], R.k[q])
Fine(S, R) == Ok(R) /\ Keeps(S, R)

(* Keeps and Fine compose, so that a handler is the chain of its calls.    *)
LEMMA KeepsTrans == ASSUME NEW S, NEW R, NEW T, Keeps(S, R), Keeps(R, T) PROVE Keeps(S, T)
  BY DEF Keeps, SameEnd

(* Fine composes.                                                          *)
LEMMA FineTrans == ASSUME NEW S, NEW R, NEW T, Fine(S, R), Fine(R, T) PROVE Fine(S, T)
  BY KeepsTrans DEF Fine

(* Fine is reflexive on Ok states.                                         *)
LEMMA FineRefl == ASSUME NEW S, Ok(S) PROVE Fine(S, S)
  BY DEF Fine, Keeps, SameEnd

(* What leaves the links alone leaves their agreement alone.               *)
LEMMA QuietFine ==
  ASSUME NEW S, NEW R, Ok(S), Quiet(S, R)
  PROVE  Fine(S, R)
<1>1. S \in StateType /\ R \in StateType  BY DEF Ok, Quiet
<1>2. ASSUME NEW p \in Procs PROVE Ptracees(R, p) = Ptracees(S, p)
  BY DEF Quiet, SameLinks, Ptracees, Tracer
<1>3. ASSUME R.failed = "none" PROVE Agree(R)
  <2>1. Agree(S)  BY <1>3 DEF Ok, Quiet
  <2>2. Counted(R)  BY <1>2, <2>1 DEF Quiet, SameLinks, Agree, Counted
  <2>3. Linked(R)
    <3>1. \A q \in Procs : S.t[q].parent \in Procs \cup {NULL} /\ Tracer(S, q) \in Procs \cup {NULL}
      BY <1>1 DEF StateType, TraceeType, PtraceeType, Tracer
    <3> QED BY <2>1, <3>1 DEF Quiet, SameLinks, Agree, Linked, Tracer
  <2>4. ZombiesGone(R)
    <3>1. \A p \in Procs : \A z \in S.t[p].zombies : z.pid \in Procs
      BY <1>1 DEF StateType, TraceeType, ZombieType
    <3> QED BY <2>1, <3>1 DEF Quiet, SameLinks, SameEnd, Agree, ZombiesGone
  <2>5. Reported(R)  BY <2>1 DEF Quiet, SameEnd, Agree, Reported
  <2> QED BY <2>2, <2>3, <2>4, <2>5 DEF Agree
<1> QED BY <1>1, <1>3 DEF Ok, Fine, Keeps, Quiet, SameLinks

-----------------------------------------------------------------------------
(* R is S where the ptracer of q became b and the counter of p became n.   *)
Relinked(S, R, q, b, p, n) ==
  /\ R \in StateType
  /\ S.failed # "none" => R.failed # "none"
  /\ \A x \in Procs :
       /\ R.t[x].listed = S.t[x].listed /\ R.t[x].parent = S.t[x].parent
       /\ R.t[x].zombies = S.t[x].zombies
       /\ Tracer(R, x) = IF x = q THEN b ELSE Tracer(S, x)
       /\ R.t[x].nb_ptracees = IF x = p THEN n ELSE S.t[x].nb_ptracees
       /\ SameEnd(S.k[x], R.k[x])

(* The types of the fields of one record.                                  *)
LEMMA StateFacts ==
  ASSUME NEW S \in StateType, NEW x \in Procs
  PROVE  /\ S.t[x] \in TraceeType /\ S.k[x] \in KernelType
         /\ S.t[x].listed \in BOOLEAN /\ S.t[x].parent \in Procs \cup {NULL}
         /\ Tracer(S, x) \in Procs \cup {NULL} /\ S.t[x].nb_ptracees \in Int
         /\ S.t[x].zombies \in SUBSET ZombieType
         /\ S.k[x].child \in Procs \cup {NULL}
<1>1. S.t[x] \in TraceeType /\ S.k[x] \in KernelType  BY DEF StateType
<1> QED BY <1>1 DEF TraceeType, PtraceeType, KernelType, Tracer

(* There are finitely many processes and possible zombies, so that the     *)
(* counters are cardinalities of finite sets.                              *)
LEMMA ProcsFinite ==
  /\ NULL \notin Procs
  /\ IsFiniteSet(Procs)
  /\ IsFiniteSet(ZombieType)
  /\ \A Q \in SUBSET Procs : IsFiniteSet(Q) /\ Cardinality(Q) \in Nat
  /\ \A Z \in SUBSET ZombieType : IsFiniteSet(Z) /\ Cardinality(Z) \in Nat
<1>1. NULL \notin Procs /\ IsFiniteSet(Procs)  BY TraceesAssumption DEF NULL
<1>2. IsFiniteSet(Procs \cup {NULL})  BY <1>1, FS_AddElement
<1>3. IsFiniteSet(Procs \X (Procs \cup {NULL}))  BY <1>1, <1>2, FS_Product
<1> DEFINE f == [e \in Procs \X (Procs \cup {NULL}) |-> [pid |-> e[1], parent |-> e[2]]]
<1>4. f \in Surjection(Procs \X (Procs \cup {NULL}), ZombieType)
  <2>1. f \in [Procs \X (Procs \cup {NULL}) -> ZombieType]  BY DEF ZombieType
  <2>2. ASSUME NEW z \in ZombieType PROVE \E e \in Procs \X (Procs \cup {NULL}) : f[e] = z
    <3>1. /\ z.pid \in Procs /\ z.parent \in Procs \cup {NULL}
          /\ z = [pid |-> z.pid, parent |-> z.parent]
      BY DEF ZombieType
    <3>2. <<z.pid, z.parent>> \in Procs \X (Procs \cup {NULL})  BY <3>1
    <3>3. f[<<z.pid, z.parent>>] = [pid |-> z.pid, parent |-> z.parent]  BY <3>2
    <3> QED BY <3>1, <3>2, <3>3
  <2> QED BY <2>1, <2>2, Fun_IsSurj
<1>5. IsFiniteSet(ZombieType)  BY <1>3, <1>4, FS_Surjection
<1> QED BY <1>1, <1>5, FS_Subset, FS_CardinalityType

(* What is left to show of a relinked state is the two counters.           *)
LEMMA RelinkedFine ==
  ASSUME NEW S, NEW R, NEW q \in Procs, NEW b \in Procs \cup {NULL}, NEW p \in Procs, NEW n,
         Ok(S), Relinked(S, R, q, b, p, n), b # NULL => S.t[b].listed,
         R.failed = "none" => Counted(R)
  PROVE  Fine(S, R)
<1>1. S \in StateType /\ R \in StateType  BY DEF Ok, Relinked
<1>2. ASSUME R.failed = "none" PROVE Agree(R)
  <2>1. Agree(S)  BY <1>2 DEF Ok, Relinked
  <2>2. Linked(R)
    <3> SUFFICES ASSUME NEW x \in Procs, R.t[x].listed
                 PROVE  /\ R.t[x].parent = NULL \/ R.t[R.t[x].parent].listed
                        /\ Tracer(R, x) = NULL \/ R.t[Tracer(R, x)].listed
      BY DEF Linked
    <3>1. S.t[x].parent \in Procs \cup {NULL} /\ Tracer(S, x) \in Procs \cup {NULL}
      BY <1>1, StateFacts
    <3>2. /\ S.t[x].listed
          /\ S.t[x].parent = NULL \/ S.t[S.t[x].parent].listed
          /\ Tracer(S, x) = NULL \/ S.t[Tracer(S, x)].listed
      BY <2>1 DEF Relinked, Agree, Linked
    <3> QED BY <3>1, <3>2 DEF Relinked
  <2>3. ZombiesGone(R)
    <3>1. \A x \in Procs : \A z \in S.t[x].zombies : z.pid \in Procs
      BY <1>1, StateFacts DEF ZombieType
    <3> QED BY <2>1, <3>1 DEF Relinked, SameEnd, Agree, ZombiesGone
  <2>4. Reported(R)  BY <2>1 DEF Relinked, SameEnd, Agree, Reported
  <2> QED BY <1>2, <2>2, <2>3, <2>4 DEF Agree
<1> QED BY <1>1, <1>2 DEF Ok, Fine, Keeps, Relinked

(* A tracee nobody traced gets a listed ptracer, whose counter goes up.    *)
LEMMA RelinkedAttach ==
  ASSUME NEW S, NEW R, NEW q \in Procs, NEW p \in Procs,
         Ok(S), Relinked(S, R, q, p, p, S.t[p].nb_ptracees + 1),
         S.t[q].listed, S.t[p].listed, Tracer(S, q) = NULL
  PROVE  Fine(S, R)
<1>1. S \in StateType /\ R \in StateType  BY DEF Ok, Relinked
<1>2. ASSUME R.failed = "none" PROVE Counted(R)
  <2> SUFFICES ASSUME NEW x \in Procs, R.t[x].listed
               PROVE  R.t[x].nb_ptracees = Cardinality(Ptracees(R, x)) + Cardinality(R.t[x].zombies)
    BY DEF Counted
  <2>1. S.t[x].nb_ptracees = Cardinality(Ptracees(S, x)) + Cardinality(S.t[x].zombies)
    BY <1>2 DEF Relinked, Ok, Agree, Counted
  <2>2. /\ Cardinality(Ptracees(S, x)) \in Nat /\ IsFiniteSet(Ptracees(S, x))
        /\ Cardinality(S.t[x].zombies) \in Nat
    BY <1>1, ProcsFinite, StateFacts DEF Ptracees
  <2>3. CASE x = p
    <3>1. Ptracees(R, x) = Ptracees(S, x) \cup {q}
      BY <2>3 DEF Relinked, Ptracees
    <3>2. q \notin Ptracees(S, x)  BY ProcsFinite DEF Ptracees
    <3>3. Cardinality(Ptracees(R, x)) = Cardinality(Ptracees(S, x)) + 1
      BY <2>2, <3>1, <3>2, FS_AddElement
    <3>4. R.t[x].nb_ptracees = S.t[x].nb_ptracees + 1 /\ R.t[x].zombies = S.t[x].zombies
      BY <2>3 DEF Relinked
    <3> QED BY <2>1, <2>2, <3>3, <3>4
  <2>4. CASE x # p
    <3>1. Ptracees(R, x) = Ptracees(S, x)
      BY <2>4, ProcsFinite DEF Relinked, Ptracees
    <3>2. R.t[x].nb_ptracees = S.t[x].nb_ptracees /\ R.t[x].zombies = S.t[x].zombies
      BY <2>4 DEF Relinked
    <3> QED BY <2>1, <3>1, <3>2
  <2> QED BY <2>3, <2>4
<1> QED BY <1>2, RelinkedFine

(* A ptracee loses its ptracer, whose counter goes down.                   *)
LEMMA RelinkedDetach ==
  ASSUME NEW S, NEW R, NEW q \in Procs, NEW p \in Procs,
         Ok(S), Relinked(S, R, q, NULL, p, S.t[p].nb_ptracees - 1),
         S.t[q].listed, Tracer(S, q) = p
  PROVE  Fine(S, R)
<1>1. S \in StateType /\ R \in StateType  BY DEF Ok, Relinked
<1>2. ASSUME R.failed = "none" PROVE Counted(R)
  <2> SUFFICES ASSUME NEW x \in Procs, R.t[x].listed
               PROVE  R.t[x].nb_ptracees = Cardinality(Ptracees(R, x)) + Cardinality(R.t[x].zombies)
    BY DEF Counted
  <2>1. S.t[x].nb_ptracees = Cardinality(Ptracees(S, x)) + Cardinality(S.t[x].zombies)
    BY <1>2 DEF Relinked, Ok, Agree, Counted
  <2>2. /\ Cardinality(Ptracees(S, x)) \in Nat /\ IsFiniteSet(Ptracees(S, x))
        /\ Cardinality(S.t[x].zombies) \in Nat
    BY <1>1, ProcsFinite, StateFacts DEF Ptracees
  <2>3. CASE x = p
    <3>1. Ptracees(R, x) = Ptracees(S, x) \ {q}
      BY <2>3, ProcsFinite DEF Relinked, Ptracees
    <3>2. q \in Ptracees(S, x)  BY <2>3 DEF Ptracees
    <3>3. Cardinality(Ptracees(R, x)) = Cardinality(Ptracees(S, x)) - 1
      BY <2>2, <3>1, <3>2, FS_RemoveElement
    <3>4. R.t[x].nb_ptracees = S.t[x].nb_ptracees - 1 /\ R.t[x].zombies = S.t[x].zombies
      BY <2>3 DEF Relinked
    <3> QED BY <2>1, <2>2, <3>3, <3>4
  <2>4. CASE x # p
    <3>1. Ptracees(R, x) = Ptracees(S, x)
      BY <2>4, ProcsFinite DEF Relinked, Ptracees
    <3>2. R.t[x].nb_ptracees = S.t[x].nb_ptracees /\ R.t[x].zombies = S.t[x].zombies
      BY <2>4 DEF Relinked
    <3> QED BY <2>1, <3>1, <3>2
  <2> QED BY <2>3, <2>4
<1> QED BY <1>2, RelinkedFine

(* A write to the record of one tracee.                                    *)
LEMMA SetT ==
  ASSUME NEW S \in StateType, NEW p \in Procs, NEW r \in TraceeType
  PROVE  LET R == [S EXCEPT !.t[p] = r] IN
         /\ R \in StateType /\ R.k = S.k /\ R.failed = S.failed
         /\ \A x \in Procs : R.t[x] = IF x = p THEN r ELSE S.t[x]
  BY DEF StateType

(* attach_to_ptracer links one ptracee and counts one more, even a tracee  *)
(* that attaches to itself.                                                *)
LEMMA AttachRelinked ==
  ASSUME NEW S \in StateType, NEW q \in Procs, NEW p \in Procs
  PROVE  Relinked(S, attach_to_ptracer(S, q, p), q, p, p, S.t[p].nb_ptracees + 1)
<1> DEFINE a == [NotTraced EXCEPT !.ptracer = p]
           r == [S.t[q] EXCEPT !.as_ptracee = a]
           B == [S EXCEPT !.t[q] = r]
           s == [B.t[p] EXCEPT !.nb_ptracees = @ + 1]
           R == [B EXCEPT !.t[p] = s]
<1>1. attach_to_ptracer(S, q, p) = R  BY DEF attach_to_ptracer
<1>2. a \in PtraceeType /\ a.ptracer = p
  BY DEF PtraceeType, NotTraced, NoEvent, EventType, Events
<1>3. S.t[q] \in TraceeType  BY StateFacts
<1> HIDE DEF a
<1>4. /\ r \in TraceeType /\ r.listed = S.t[q].listed /\ r.parent = S.t[q].parent
      /\ r.as_ptracee = a /\ r.zombies = S.t[q].zombies
      /\ r.nb_ptracees = S.t[q].nb_ptracees
  BY <1>2, <1>3 DEF TraceeType
<1> HIDE DEF r
<1>5. /\ B \in StateType /\ B.k = S.k /\ B.failed = S.failed
      /\ \A x \in Procs : B.t[x] = IF x = q THEN r ELSE S.t[x]
  BY <1>4, SetT
<1> HIDE DEF B
<1>6. B.t[p] \in TraceeType  BY <1>5, StateFacts
<1>7. /\ s \in TraceeType /\ s.listed = B.t[p].listed /\ s.parent = B.t[p].parent
      /\ s.as_ptracee = B.t[p].as_ptracee /\ s.zombies = B.t[p].zombies
      /\ s.nb_ptracees = B.t[p].nb_ptracees + 1
  BY <1>6 DEF TraceeType
<1> HIDE DEF s
<1>8. /\ R \in StateType /\ R.k = B.k /\ R.failed = B.failed
      /\ \A x \in Procs : R.t[x] = IF x = p THEN s ELSE B.t[x]
  BY <1>5, <1>7, SetT
<1> HIDE DEF R
<1>9. B.t[p].nb_ptracees = S.t[p].nb_ptracees  BY <1>4, <1>5
<1> QED BY <1>1, <1>2, <1>4, <1>5, <1>7, <1>8, <1>9 DEF Relinked, SameEnd, Tracer

(* attach_to_ptracer, of a tracee that has no ptracer.                     *)
LEMMA AttachFine ==
  ASSUME NEW S, Ok(S), NEW q \in Procs, NEW p \in Procs, S.t[q].listed,
         S.failed = "none" => S.t[p].listed, Tracer(S, q) = NULL
  PROVE  Fine(S, attach_to_ptracer(S, q, p))
<1> DEFINE R == attach_to_ptracer(S, q, p)
<1>1. Relinked(S, R, q, p, p, S.t[p].nb_ptracees + 1)  BY AttachRelinked DEF Ok
<1> HIDE DEF R
<1>2. S.failed = "none" => Fine(S, R)  BY <1>1, RelinkedAttach
<1>3. S.failed # "none" => Fine(S, R)  BY <1>1 DEF Relinked, Fine, Ok, Keeps
<1>4. Fine(S, R)  BY <1>2, <1>3
<1> QED BY <1>4 DEF R

(* The counter goes down; the assertion of detach_from_ptracer may fail.   *)
LEMMA UncountFacts ==
  ASSUME NEW S \in StateType, NEW p \in Procs
  PROVE  LET R == Uncount(S, p) IN
         /\ R \in StateType /\ R.k = S.k
         /\ S.failed # "none" => R.failed # "none"
         /\ \A x \in Procs : x # p => R.t[x] = S.t[x]
         /\ R.t[p] = [S.t[p] EXCEPT !.nb_ptracees = @ - 1]
         /\ R.t[p].listed = S.t[p].listed /\ R.t[p].parent = S.t[p].parent
         /\ R.t[p].as_ptracee = S.t[p].as_ptracee /\ R.t[p].zombies = S.t[p].zombies
         /\ R.t[p].nb_ptracees = S.t[p].nb_ptracees - 1
<1> DEFINE A == Assert(S, S.t[p].nb_ptracees > 0, "ptrace.c:122")
           r == [A.t[p] EXCEPT !.nb_ptracees = @ - 1]
           R == [A EXCEPT !.t[p] = r]
<1>1. Uncount(S, p) = R  BY DEF Uncount
<1>2. Quiet(S, A) /\ A.t = S.t /\ A.k = S.k  BY AssertQuiet
<1> HIDE DEF A
<1>3. A \in StateType /\ (S.failed # "none" => A.failed # "none")  BY <1>2 DEF Quiet
<1>4. A.t[p] \in TraceeType  BY <1>3, StateFacts
<1>5. /\ r \in TraceeType /\ r.listed = A.t[p].listed /\ r.parent = A.t[p].parent
      /\ r.as_ptracee = A.t[p].as_ptracee /\ r.zombies = A.t[p].zombies
      /\ r.nb_ptracees = A.t[p].nb_ptracees - 1
  BY <1>4 DEF TraceeType
<1>6. r = [S.t[p] EXCEPT !.nb_ptracees = @ - 1]  BY <1>2
<1> HIDE DEF r
<1>7. /\ R \in StateType /\ R.k = A.k /\ R.failed = A.failed
      /\ \A x \in Procs : R.t[x] = IF x = p THEN r ELSE A.t[x]
  BY <1>3, <1>5, SetT
<1> HIDE DEF R
<1> QED BY <1>1, <1>2, <1>3, <1>5, <1>6, <1>7

(* detach_from_ptracer unlinks one ptracee and counts one less.            *)
LEMMA DetachRelinked ==
  ASSUME NEW S \in StateType, NEW q \in Procs, NEW p \in Procs, Tracer(S, q) = p
  PROVE  Relinked(S, detach_from_ptracer(S, q), q, NULL, p, S.t[p].nb_ptracees - 1)
<1> DEFINE A == Uncount(S, p)
           r == [A.t[q] EXCEPT !.as_ptracee.ptracer = NULL]
           R == [A EXCEPT !.t[q] = r]
<1>1. detach_from_ptracer(S, q) = R  BY DEF detach_from_ptracer
<1>2. /\ A \in StateType /\ A.k = S.k
      /\ S.failed # "none" => A.failed # "none"
      /\ \A x \in Procs : x # p => A.t[x] = S.t[x]
      /\ A.t[p].listed = S.t[p].listed /\ A.t[p].parent = S.t[p].parent
      /\ A.t[p].as_ptracee = S.t[p].as_ptracee /\ A.t[p].zombies = S.t[p].zombies
      /\ A.t[p].nb_ptracees = S.t[p].nb_ptracees - 1
  BY UncountFacts
<1> HIDE DEF A
<1>3. A.t[q] \in TraceeType  BY <1>2, StateFacts
<1>4. /\ r \in TraceeType /\ r.listed = A.t[q].listed /\ r.parent = A.t[q].parent
      /\ r.as_ptracee.ptracer = NULL /\ r.zombies = A.t[q].zombies
      /\ r.nb_ptracees = A.t[q].nb_ptracees
  BY <1>3 DEF TraceeType, PtraceeType
<1> HIDE DEF r
<1>5. /\ R \in StateType /\ R.k = A.k /\ R.failed = A.failed
      /\ \A x \in Procs : R.t[x] = IF x = q THEN r ELSE A.t[x]
  BY <1>2, <1>4, SetT
<1> HIDE DEF R
<1> QED BY <1>1, <1>2, <1>4, <1>5 DEF Relinked, SameEnd, Tracer

(* detach_from_ptracer keeps the agreement, whoever the ptracer is.        *)
LEMMA DetachFine ==
  ASSUME NEW S, Ok(S), NEW q \in Procs, S.t[q].listed
  PROVE  Fine(S, detach_from_ptracer(S, q))
<1>1. S \in StateType  BY DEF Ok
<1>2. CASE Tracer(S, q) # NULL
  BY <1>1, <1>2, StateFacts, DetachRelinked, RelinkedDetach
<1>3. CASE Tracer(S, q) = NULL
  <2> DEFINE A == Assert(S, S.t[NULL].nb_ptracees > 0, "ptrace.c:122")
             n == [A.t[NULL] EXCEPT !.nb_ptracees = @ - 1]
             B == [A EXCEPT !.t[NULL] = n]
             r == [B.t[q] EXCEPT !.as_ptracee.ptracer = NULL]
             R == [B EXCEPT !.t[q] = r]
  <2>1. detach_from_ptracer(S, q) = R  BY <1>3 DEF detach_from_ptracer, Uncount
  <2>2. Quiet(S, A)  BY <1>1, AssertQuiet
  <2> HIDE DEF A, n
  <2>9. A \in StateType  BY <2>2 DEF Quiet
  <2>3. Quiet(A, B)  BY <2>9, SetTQuiet
  <2> HIDE DEF B
  <2>4. Quiet(S, B)  BY <2>2, <2>3, QuietTrans
  <2>5. B \in StateType /\ Tracer(B, q) = NULL
    BY <1>3, <2>4 DEF Quiet, SameLinks, Tracer
  <2>6. B.t[q] \in TraceeType  BY <2>5, StateFacts
  <2>7. r \in TraceeType /\ SameLinks(B.t[q], r)
    BY <2>5, <2>6 DEF TraceeType, PtraceeType, SameLinks, Tracer
  <2> HIDE DEF r
  <2>8. Quiet(B, R)  BY <2>5, <2>7, SetTQuiet
  <2> QED BY <2>1, <2>4, <2>8, QuietTrans, QuietFine
<1> QED BY <1>2, <1>3

(* A write to one record and to one link-free place of it.                 *)
LEMMA FineStep ==
  ASSUME NEW S, NEW R, NEW T, Fine(S, R), Quiet(R, T)
  PROVE  Fine(S, T)
  BY QuietFine, FineTrans DEF Fine

(* update_wait_status: the ptracer that waits gets the event, and loses    *)
(* the ptracee when it is a child that exited.                             *)
LEMMA UpdateFine ==
  ASSUME NEW S, Ok(S), NEW p \in Procs \cup {NULL}, NEW q \in Procs, S.t[q].listed
  PROVE  Fine(S, update_wait_status(S, p, q))
<1> DEFINE C == ChainOriginal(S, p)
           r == [S.t[q] EXCEPT !.as_ptracee.event.pending = FALSE]
           R == [S EXCEPT !.t[q] = r]
<1>1. update_wait_status(S, p, q) \in {detach_from_ptracer(C, q), S, R}
  BY DEF update_wait_status
<1>2. S \in StateType /\ S.t[q] \in TraceeType  BY StateFacts DEF Ok
<1>3. r \in TraceeType /\ SameLinks(S.t[q], r)
  BY <1>2 DEF TraceeType, PtraceeType, EventType, SameLinks
<1> HIDE DEF r
<1>4. Fine(S, R)  BY <1>2, <1>3, SetTQuiet, QuietFine
<1>5. Fine(S, C)  BY <1>2, ChainQuiet, QuietFine
<1> HIDE DEF C, R
<1>6. Ok(C) /\ C.t[q].listed  BY <1>5 DEF Fine, Keeps
<1>7. Fine(S, detach_from_ptracer(C, q))  BY <1>5, <1>6, DetachFine, FineTrans
<1> QED BY <1>1, <1>4, <1>7, FineRefl

(* The zombie a wait collects leaves the list and the counter.             *)
LEMMA CollectedFine ==
  ASSUME NEW S, Ok(S), NEW p \in Procs, NEW z \in S.t[p].zombies
  PROVE  Fine(S, [Uncount(S, p) EXCEPT !.t[p].zombies = @ \ {z}])
<1> DEFINE A == Uncount(S, p)
           r == [A.t[p] EXCEPT !.zombies = @ \ {z}]
           R == [A EXCEPT !.t[p] = r]
<1>0. S \in StateType  BY DEF Ok
<1>1. R = [Uncount(S, p) EXCEPT !.t[p].zombies = @ \ {z}]  OBVIOUS
<1>2. /\ A \in StateType /\ A.k = S.k
      /\ S.failed # "none" => A.failed # "none"
      /\ \A x \in Procs : x # p => A.t[x] = S.t[x]
      /\ A.t[p].listed = S.t[p].listed /\ A.t[p].parent = S.t[p].parent
      /\ A.t[p].as_ptracee = S.t[p].as_ptracee /\ A.t[p].zombies = S.t[p].zombies
      /\ A.t[p].nb_ptracees = S.t[p].nb_ptracees - 1
  BY <1>0, UncountFacts
<1> HIDE DEF A
<1>3. A.t[p] \in TraceeType  BY <1>2, StateFacts
<1>4. /\ r \in TraceeType /\ r.listed = A.t[p].listed /\ r.parent = A.t[p].parent
      /\ r.as_ptracee = A.t[p].as_ptracee /\ r.zombies = A.t[p].zombies \ {z}
      /\ r.nb_ptracees = A.t[p].nb_ptracees
  BY <1>3 DEF TraceeType
<1> HIDE DEF r
<1>5. /\ R \in StateType /\ R.k = A.k /\ R.failed = A.failed
      /\ \A x \in Procs : R.t[x] = IF x = p THEN r ELSE A.t[x]
  BY <1>2, <1>4, SetT
<1> HIDE DEF R
<1>6. /\ R.k = S.k
      /\ S.failed # "none" => R.failed # "none"
      /\ \A x \in Procs :
           /\ R.t[x].listed = S.t[x].listed /\ R.t[x].parent = S.t[x].parent
           /\ Tracer(R, x) = Tracer(S, x)
           /\ R.t[x].zombies = IF x = p THEN S.t[x].zombies \ {z} ELSE S.t[x].zombies
           /\ R.t[x].nb_ptracees = IF x = p THEN S.t[x].nb_ptracees - 1 ELSE S.t[x].nb_ptracees
  BY <1>2, <1>4, <1>5 DEF Tracer
<1>7. ASSUME R.failed = "none" PROVE Agree(R)
  <2>1. Agree(S)  BY <1>6, <1>7 DEF Ok
  <2>2. ASSUME NEW x \in Procs, R.t[x].listed
        PROVE  R.t[x].nb_ptracees = Cardinality(Ptracees(R, x)) + Cardinality(R.t[x].zombies)
    <3>1. S.t[x].nb_ptracees = Cardinality(Ptracees(S, x)) + Cardinality(S.t[x].zombies)
      BY <1>6, <2>1, <2>2 DEF Agree, Counted
    <3>2. Ptracees(R, x) = Ptracees(S, x)  BY <1>6 DEF Ptracees
    <3>3. /\ Cardinality(Ptracees(S, x)) \in Nat /\ IsFiniteSet(S.t[x].zombies)
          /\ Cardinality(S.t[x].zombies) \in Nat
      BY <1>0, ProcsFinite, StateFacts DEF Ptracees
    <3>4. CASE x = p
      <4>1. z \in S.t[x].zombies /\ R.t[x].zombies = S.t[x].zombies \ {z}
        BY <1>6, <3>4
      <4>2. Cardinality(S.t[x].zombies \ {z}) = Cardinality(S.t[x].zombies) - 1
        BY <3>3, <4>1, FS_RemoveElement
      <4>3. R.t[x].nb_ptracees = S.t[x].nb_ptracees - 1  BY <1>6, <3>4
      <4> QED BY <3>1, <3>2, <3>3, <4>1, <4>2, <4>3
    <3>5. CASE x # p
      BY <1>6, <3>1, <3>2, <3>5
    <3> QED BY <3>4, <3>5
  <2>3. Counted(R)  BY <2>2 DEF Counted
  <2>4. Linked(R)
    <3>1. \A x \in Procs : S.t[x].parent \in Procs \cup {NULL} /\ Tracer(S, x) \in Procs \cup {NULL}
      BY <1>0, StateFacts
    <3> QED BY <1>6, <2>1, <3>1 DEF Agree, Linked
  <2>5. ZombiesGone(R)  BY <1>6, <2>1 DEF Agree, ZombiesGone
  <2>6. Reported(R)  BY <1>6, <2>1 DEF Agree, Reported
  <2> QED BY <2>3, <2>4, <2>5, <2>6 DEF Agree
<1>8. Keeps(S, R)  BY <1>6 DEF Keeps, SameEnd
<1>9. Fine(S, R)  BY <1>5, <1>7, <1>8 DEF Fine, Ok
<1> QED BY <1>1, <1>9

(* A wait that finds a zombie collects it, chains, or cannot write the     *)
(* status.                                                                 *)
LEMMA CollectZombieFine ==
  ASSUME NEW S, Ok(S), NEW p \in Procs, NEW z \in S.t[p].zombies
  PROVE  Fine(S, CollectZombie(S, p, z))
<1> DEFINE F == [Uncount(S, p) EXCEPT !.t[p].zombies = @ \ {z}]
<1>1. Fine(S, F)  BY CollectedFine
<1>2. CollectZombie(S, p, z) \in {ChainOriginal(F, p), S, F}  BY DEF CollectZombie
<1> HIDE DEF F
<1>3. F \in StateType  BY <1>1 DEF Fine, Ok
<1>4. Fine(S, ChainOriginal(F, p))  BY <1>1, <1>3, ChainQuiet, FineStep
<1> QED BY <1>1, <1>2, <1>4, FineRefl

(* A wait ends with the event of a ptracee.                                *)
LEMMA EndWaitFine ==
  ASSUME NEW S, Ok(S), NEW p \in Procs \cup {NULL}, NEW q \in Procs, S.t[q].listed
  PROVE  Fine(S, EndWait(S, p, q))
<1> DEFINE U == update_wait_status(S, p, q)
           w == [U.t[p] EXCEPT !.wait_pid = NULL]
           W == [U EXCEPT !.t[p] = w]
<1>1. EndWait(S, p, q) = W  BY DEF EndWait
<1>2. Fine(S, U)  BY UpdateFine
<1> HIDE DEF U
<1>3. U \in StateType  BY <1>2 DEF Fine, Ok
<1>4. p # NULL => w \in TraceeType /\ SameLinks(U.t[p], w)
  <2>1. p # NULL => U.t[p] \in TraceeType  BY <1>3, StateFacts
  <2> QED BY <2>1 DEF TraceeType, SameLinks
<1> HIDE DEF w
<1>5. Quiet(U, W)  BY <1>3, <1>4, SetTQuiet
<1> QED BY <1>1, <1>2, <1>5, FineStep

(* The end of handle_ptracee_event: the event reaches the ptracer, or is   *)
(* left pending.                                                           *)
LEMMA NotifyFine ==
  ASSUME NEW S, Ok(S), NEW q \in Procs, S.t[q].listed, NEW event \in Events
  PROVE  Fine(S, NotifyPtracer(S, q, event).s)
<1> DEFINE p == Tracer(S, q)
           r == [S.t[q] EXCEPT !.as_ptracee.event = [value |-> event, pending |-> TRUE]]
           A == [S EXCEPT !.t[q] = r]
           W == EndWait(A, p, q)
<1>1. NotifyPtracer(S, q, event).s = IF WaitsFor(S, p, q) THEN restart_tracee(W, p) ELSE A
  BY DEF NotifyPtracer
<1>2. S \in StateType /\ S.t[q] \in TraceeType /\ p \in Procs \cup {NULL}
  BY StateFacts DEF Ok
<1>3. r \in TraceeType /\ SameLinks(S.t[q], r)
  BY <1>2 DEF TraceeType, PtraceeType, EventType, SameLinks
<1> HIDE DEF r, p
<1>4. Fine(S, A)  BY <1>2, <1>3, SetTQuiet, QuietFine
<1> HIDE DEF A
<1>5. Ok(A) /\ A.t[q].listed  BY <1>4 DEF Fine, Keeps
<1>6. Fine(S, W)  BY <1>2, <1>4, <1>5, EndWaitFine, FineTrans
<1> HIDE DEF W
<1>7. W \in StateType  BY <1>6 DEF Fine, Ok
<1>8. Fine(S, restart_tracee(W, p))  BY <1>2, <1>6, <1>7, RestartQuiet, FineStep
<1> QED BY <1>1, <1>4, <1>8

(* A tracee that was not listed is, with nothing to do with the others.    *)
LEMMA ListFine ==
  ASSUME NEW S, Ok(S), NEW c \in Procs, NEW r \in TraceeType, ~S.t[c].listed,
         r.listed, r.parent = NULL, r.as_ptracee.ptracer = NULL,
         r.nb_ptracees = 0, r.zombies = {}
  PROVE  Fine(S, [S EXCEPT !.t[c] = r])
<1> DEFINE R == [S EXCEPT !.t[c] = r]
<1>1. S \in StateType  BY DEF Ok
<1>2. /\ R \in StateType /\ R.k = S.k /\ R.failed = S.failed
      /\ \A x \in Procs : R.t[x] = IF x = c THEN r ELSE S.t[x]
  BY <1>1, SetT
<1> HIDE DEF R
<1>3. ASSUME R.failed = "none" PROVE Agree(R)
  <2>1. Agree(S)  BY <1>2, <1>3 DEF Ok
  <2>2. \A x \in Procs : /\ S.t[x].parent \in Procs \cup {NULL}
                         /\ Tracer(S, x) \in Procs \cup {NULL}
    BY <1>1, StateFacts
  <2>3. \A x \in Procs : S.t[x].listed => Tracer(S, x) # c
    BY <2>1, <2>2, ProcsFinite DEF Agree, Linked
  <2>4. \A x \in Procs : Tracer(R, x) = IF x = c THEN NULL ELSE Tracer(S, x)
    BY <1>2 DEF Tracer
  <2>5. ASSUME NEW x \in Procs, R.t[x].listed
        PROVE  R.t[x].nb_ptracees = Cardinality(Ptracees(R, x)) + Cardinality(R.t[x].zombies)
    <3>1. CASE x = c
      <4>1. Ptracees(R, x) = {}
        BY <1>2, <2>3, <2>4, <3>1, ProcsFinite DEF Ptracees
      <4>2. R.t[x].zombies = {} /\ R.t[x].nb_ptracees = 0  BY <1>2, <3>1
      <4> QED BY <4>1, <4>2, FS_EmptySet
    <3>2. CASE x # c
      <4>1. Ptracees(R, x) = Ptracees(S, x)
        BY <1>2, <2>4, <3>2, ProcsFinite DEF Ptracees
      <4>2. R.t[x] = S.t[x]  BY <1>2, <3>2
      <4> QED BY <2>1, <2>5, <4>1, <4>2 DEF Agree, Counted
    <3> QED BY <3>1, <3>2
  <2>6. Counted(R)  BY <2>5 DEF Counted
  <2>7. Linked(R)  BY <1>2, <2>1, <2>2, <2>4 DEF Agree, Linked
  <2>8. ZombiesGone(R)  BY <1>2, <2>1 DEF Agree, ZombiesGone
  <2>9. Reported(R)  BY <1>2, <2>1 DEF Agree, Reported
  <2> QED BY <2>6, <2>7, <2>8, <2>9 DEF Agree
<1>4. Keeps(S, R)  BY <1>2 DEF Keeps, SameEnd
<1>5. Fine(S, R)  BY <1>2, <1>3, <1>4 DEF Fine, Ok
<1> QED BY <1>5 DEF R

(* A tracee gets a listed parent.                                          *)
LEMMA ParentFine ==
  ASSUME NEW S, Ok(S), NEW c \in Procs, NEW p \in Procs, NEW r \in TraceeType,
         S.t[p].listed, r.listed = S.t[c].listed, r.parent = p,
         r.as_ptracee.ptracer = Tracer(S, c), r.nb_ptracees = S.t[c].nb_ptracees,
         r.zombies = S.t[c].zombies
  PROVE  Fine(S, [S EXCEPT !.t[c] = r])
<1> DEFINE R == [S EXCEPT !.t[c] = r]
<1>1. S \in StateType  BY DEF Ok
<1>2. /\ R \in StateType /\ R.k = S.k /\ R.failed = S.failed
      /\ \A x \in Procs : R.t[x] = IF x = c THEN r ELSE S.t[x]
  BY <1>1, SetT
<1> HIDE DEF R
<1>3. \A x \in Procs : /\ R.t[x].listed = S.t[x].listed /\ Tracer(R, x) = Tracer(S, x)
                       /\ R.t[x].parent = IF x = c THEN p ELSE S.t[x].parent
                       /\ R.t[x].nb_ptracees = S.t[x].nb_ptracees
                       /\ R.t[x].zombies = S.t[x].zombies
  BY <1>2 DEF Tracer
<1>4. ASSUME R.failed = "none" PROVE Agree(R)
  <2>1. Agree(S)  BY <1>2, <1>4 DEF Ok
  <2>2. \A x \in Procs : /\ S.t[x].parent \in Procs \cup {NULL}
                         /\ Tracer(S, x) \in Procs \cup {NULL}
    BY <1>1, StateFacts
  <2>3. \A x \in Procs : Ptracees(R, x) = Ptracees(S, x)  BY <1>3 DEF Ptracees
  <2>4. Counted(R)  BY <1>3, <2>1, <2>3 DEF Agree, Counted
  <2>5. Linked(R)  BY <1>3, <2>1, <2>2 DEF Agree, Linked
  <2>6. ZombiesGone(R)  BY <1>2, <1>3, <2>1 DEF Agree, ZombiesGone
  <2>7. Reported(R)  BY <1>2, <2>1 DEF Agree, Reported
  <2> QED BY <2>4, <2>5, <2>6, <2>7 DEF Agree
<1>5. Keeps(S, R)  BY <1>2, <1>3 DEF Keeps, SameEnd
<1>6. Fine(S, R)  BY <1>2, <1>4, <1>5 DEF Fine, Ok
<1> QED BY <1>6 DEF R

(* The links of a new tracee and of one that was freed.                    *)
LEMMA NewTraceeFacts ==
  /\ NewTracee \in TraceeType /\ NewTracee.listed /\ NewTracee.parent = NULL
  /\ NewTracee.as_ptracee.ptracer = NULL
  /\ NewTracee.nb_ptracees = 0 /\ NewTracee.zombies = {}
  /\ Removed \in TraceeType /\ ~Removed.listed
<1>1. NotTraced \in PtraceeType /\ NotTraced.ptracer = NULL
  BY DEF PtraceeType, NotTraced, NoEvent, EventType, Events
<1>2. {} \in SUBSET ZombieType /\ 0 \in Int /\ NULL \in Procs \cup {NULL}  OBVIOUS
<1>3. NULL \in Procs \cup {NULL, -1}  OBVIOUS
<1>4. /\ NewTracee \in TraceeType /\ NewTracee.listed /\ NewTracee.parent = NULL
      /\ NewTracee.as_ptracee = NotTraced
      /\ NewTracee.nb_ptracees = 0 /\ NewTracee.zombies = {}
  <2> DEFINE P == Procs \cup {NULL}  W == Procs \cup {NULL, -1}  Z == SUBSET ZombieType
  <2>1. NULL \in P /\ NULL \in W /\ {} \in Z  BY <1>2, <1>3
  <2>2. TraceeType = [listed : BOOLEAN, exe : BOOLEAN, parent : P,
               running : BOOLEAN, sigstop : {"IGNORED", "ALLOWED", "PENDING"},
               restart_how : BOOLEAN, sysexit : BOOLEAN, chained : BOOLEAN,
               as_ptracee : PtraceeType, nb_ptracees : Int,
               zombies : Z, wait_pid : W,
               waits_in : {"DOESNT_WAIT", "WAITS_IN_PROOT", "WAITS_IN_KERNEL"}]
    BY DEF TraceeType
  <2> HIDE DEF P, W, Z
  <2> QED BY <1>1, <1>2, <2>1, <2>2 DEF NewTracee
<1>5. Removed \in TraceeType /\ ~Removed.listed
  BY <1>4 DEF Removed, TraceeType
<1> QED BY <1>1, <1>4, <1>5

(* new_child attaches the child to the ptracer of its creator,             *)
LEMMA TraceChildFine ==
  ASSUME NEW S, Ok(S), NEW c \in Procs, NEW p \in Procs, S.t[c].listed,
         S.failed = "none" => S.t[p].listed, Tracer(S, c) = NULL
  PROVE  Fine(S, TraceChild(S, c, p))
<1> DEFINE A == attach_to_ptracer(S, c, p)
           r == [A.t[c] EXCEPT !.as_ptracee.tracefork = TRUE]
           R == [A EXCEPT !.t[c] = r]
<1>1. TraceChild(S, c, p) = R  BY DEF TraceChild
<1>2. Fine(S, A)  BY AttachFine
<1> HIDE DEF A
<1>3. A \in StateType  BY <1>2 DEF Fine, Ok
<1>4. A.t[c] \in TraceeType  BY <1>3, StateFacts
<1>5. r \in TraceeType /\ SameLinks(A.t[c], r)
  BY <1>4 DEF TraceeType, PtraceeType, SameLinks
<1> HIDE DEF r
<1>6. Quiet(A, R)  BY <1>3, <1>5, SetTQuiet
<1> QED BY <1>1, <1>2, <1>6, FineStep

(* makes its creator its parent,                                           *)
LEMMA IntroduceFine ==
  ASSUME NEW S, Ok(S), NEW c \in Procs, NEW p \in Procs, S.t[p].listed
  PROVE  Fine(S, Introduce(S, c, p))
<1> DEFINE sig == IF S.t[c].sigstop = "PENDING" THEN "ALLOWED" ELSE S.t[c].sigstop
           r1 == [S.t[c] EXCEPT !.parent = p]
           A == [S EXCEPT !.t[c] = r1]
           r2 == [A.t[c] EXCEPT !.exe = TRUE]
           B == [A EXCEPT !.t[c] = r2]
           r3 == [B.t[c] EXCEPT !.sigstop = sig]
           R == [B EXCEPT !.t[c] = r3]
<1>1. Introduce(S, c, p) = R  BY DEF Introduce
<1>2. S.t[c] \in TraceeType  BY StateFacts DEF Ok
<1>3. sig \in {"IGNORED", "ALLOWED", "PENDING"}  BY <1>2 DEF TraceeType
<1>4. /\ r1 \in TraceeType /\ r1.listed = S.t[c].listed /\ r1.parent = p
      /\ r1.as_ptracee.ptracer = Tracer(S, c)
      /\ r1.nb_ptracees = S.t[c].nb_ptracees /\ r1.zombies = S.t[c].zombies
  BY <1>2 DEF TraceeType, Tracer
<1> HIDE DEF r1, sig
<1>5. Fine(S, A)  BY <1>4, ParentFine
<1> HIDE DEF A
<1>6. A \in StateType  BY <1>5 DEF Fine, Ok
<1>7. A.t[c] \in TraceeType  BY <1>6, StateFacts
<1>8. r2 \in TraceeType /\ SameLinks(A.t[c], r2)  BY <1>7 DEF TraceeType, SameLinks
<1> HIDE DEF r2
<1>9. Quiet(A, B)  BY <1>6, <1>8, SetTQuiet
<1> HIDE DEF B
<1>10. B \in StateType  BY <1>9 DEF Quiet
<1>11. B.t[c] \in TraceeType  BY <1>10, StateFacts
<1>12. r3 \in TraceeType /\ SameLinks(B.t[c], r3)  BY <1>3, <1>11 DEF TraceeType, SameLinks
<1> HIDE DEF r3
<1>13. Quiet(B, R)  BY <1>10, <1>12, SetTQuiet
<1> QED BY <1>1, <1>5, <1>9, <1>13, FineStep

(* starts it or stops it for its ptracer,                                  *)
LEMMA StartChildFine ==
  ASSUME NEW S, Ok(S), NEW c \in Procs, S.t[c].listed, NEW traced
  PROVE  Fine(S, StartChild(S, c, traced))
<1> DEFINE r == [S.t[c] EXCEPT !.as_ptracee.tracing_started = TRUE]
           A == [S EXCEPT !.t[c] = r]
           N == NotifyPtracer(A, c, "SIGSTOP").s
<1>1. StartChild(S, c, traced) \in {restart_tracee(S, c), N, restart_tracee(N, c)}
  BY DEF StartChild
<1>2. S \in StateType /\ S.t[c] \in TraceeType  BY StateFacts DEF Ok
<1>3. r \in TraceeType /\ SameLinks(S.t[c], r)
  BY <1>2 DEF TraceeType, PtraceeType, SameLinks
<1> HIDE DEF r
<1>4. Fine(S, A)  BY <1>2, <1>3, SetTQuiet, QuietFine
<1>5. Fine(S, restart_tracee(S, c))  BY <1>2, RestartQuiet, QuietFine
<1> HIDE DEF A
<1>6. Ok(A) /\ A.t[c].listed  BY <1>4 DEF Fine, Keeps
<1>7. "SIGSTOP" \in Events  BY DEF Events
<1>8. Fine(S, N)  BY <1>4, <1>6, <1>7, NotifyFine, FineTrans
<1> HIDE DEF N
<1>9. N \in StateType  BY <1>8 DEF Fine, Ok
<1>10. Fine(S, restart_tracee(N, c))  BY <1>8, <1>9, RestartQuiet, FineStep
<1> QED BY <1>1, <1>5, <1>8, <1>10

(* and so keeps the agreement, whether the child or its creator was seen   *)
(* first.                                                                  *)
LEMMA NewChildFine ==
  ASSUME NEW S, Ok(S), NEW p \in Procs, S.t[p].listed, S.k[p].child \in Procs
  PROVE  Fine(S, new_child(S, p))
<1> DEFINE c == S.k[p].child
           A == IF Listed(S, c) THEN S ELSE [S EXCEPT !.t[c] = NewTracee]
           tracer == Tracer(S, p)
           traced == tracer # NULL /\ S.t[p].as_ptracee.tracefork
           B == IF traced THEN TraceChild(A, c, tracer) ELSE A
           C == Introduce(B, c, p)
           D == StartChild(C, c, traced)
<1>1. \/ new_child(S, p) = Assert(A, FALSE, "tracee.c:422")
      \/ /\ new_child(S, p) \in {C, D}
         /\ Tracer(A, c) = NULL
  BY DEF new_child
<1>2. c \in Procs  OBVIOUS
<1>3. S \in StateType /\ tracer \in Procs \cup {NULL}  BY StateFacts DEF Ok
<1>4. tracer # NULL /\ S.failed = "none" => S.t[tracer].listed
  BY DEF Ok, Agree, Linked
<1> HIDE DEF c, tracer, traced
<1>5. Fine(S, A) /\ A.t[c].listed
  BY <1>2, ListFine, NewTraceeFacts, FineRefl, SetT DEF Listed, Ok
<1>6. A.t[p].listed /\ (tracer # NULL /\ A.failed = "none" => A.t[tracer].listed)
  BY <1>3, <1>4, <1>5 DEF Fine, Keeps
<1> HIDE DEF A
<1>7. Fine(S, Assert(A, FALSE, "tracee.c:422"))
  BY <1>5, AssertQuiet, FineStep DEF Fine, Ok
<1>8. ASSUME Tracer(A, c) = NULL PROVE Fine(S, C) /\ Fine(S, D)
  <2>0. Ok(A)  BY <1>5 DEF Fine
  <2>1. Fine(A, B)
    BY <1>2, <1>3, <1>5, <1>6, <1>8, <2>0, TraceChildFine, FineRefl DEF traced
  <2> HIDE DEF B
  <2>2. Ok(B) /\ B.t[p].listed  BY <1>6, <2>1 DEF Fine, Keeps
  <2>3. Fine(A, C)  BY <1>2, <2>1, <2>2, IntroduceFine, FineTrans
  <2> HIDE DEF C
  <2>4. Ok(C) /\ C.t[c].listed  BY <1>2, <1>5, <2>3 DEF Fine, Keeps
  <2>5. Fine(A, D)  BY <1>2, <2>3, <2>4, StartChildFine, FineTrans
  <2> HIDE DEF D
  <2> QED BY <1>5, <2>3, <2>5, FineTrans
<1> QED BY <1>1, <1>7, <1>8

-----------------------------------------------------------------------------
(* PTRACE_TRACEME attaches the caller to its parent, which it may have to  *)
(* wake out of a wait in the kernel.                                       *)
LEMMA TracemeFine ==
  ASSUME NEW S, Ok(S), NEW q \in Procs, S.t[q].listed
  PROVE  Fine(S, Traceme(S, q))
<1> DEFINE p == S.t[q].parent
           A == attach_to_ptracer(S, q, p)
           B == SendStop(A, p)
           r == [B.t[p] EXCEPT !.sigstop = "IGNORED"]
           C == [B EXCEPT !.t[p] = r]
           s == [C.t[p] EXCEPT !.waits_in = "WAITS_IN_PROOT"]
           D == [C EXCEPT !.t[p] = s]
<1>1. \/ Traceme(S, q) \in {S, Assert(S, FALSE, "ptrace.c:109")}
      \/ Tracer(S, q) = NULL /\ p # NULL /\ Traceme(S, q) \in {A, D}
  BY DEF Traceme
<1>2. S \in StateType /\ p \in Procs \cup {NULL}  BY StateFacts DEF Ok
<1>3. S.failed = "none" /\ p # NULL => S.t[p].listed  BY DEF Ok, Agree, Linked
<1> HIDE DEF p
<1>4. Fine(S, S) /\ Fine(S, Assert(S, FALSE, "ptrace.c:109"))
  BY <1>2, AssertQuiet, QuietFine, FineRefl
<1>5. ASSUME Tracer(S, q) = NULL, p # NULL PROVE Fine(S, A) /\ Fine(S, D)
  <2>1. Fine(S, A)  BY <1>2, <1>3, <1>5, AttachFine
  <2> HIDE DEF A
  <2>2. Fine(S, B)  BY <1>2, <1>5, <2>1, SendStopQuiet, FineStep DEF Fine, Ok
  <2> HIDE DEF B
  <2>3. B \in StateType  BY <2>2 DEF Fine, Ok
  <2>4. B.t[p] \in TraceeType  BY <1>2, <1>5, <2>3, StateFacts
  <2>5. r \in TraceeType /\ SameLinks(B.t[p], r)  BY <2>4 DEF TraceeType, SameLinks
  <2> HIDE DEF r
  <2>6. Quiet(B, C)  BY <1>2, <2>3, <2>5, SetTQuiet
  <2> HIDE DEF C
  <2>7. C \in StateType  BY <2>6 DEF Quiet
  <2>8. C.t[p] \in TraceeType  BY <1>2, <1>5, <2>7, StateFacts
  <2>9. s \in TraceeType /\ SameLinks(C.t[p], s)  BY <2>8 DEF TraceeType, SameLinks
  <2> HIDE DEF s
  <2>10. Quiet(C, D)  BY <1>2, <2>7, <2>9, SetTQuiet
  <2> HIDE DEF D
  <2> QED BY <2>1, <2>2, <2>6, <2>10, FineStep
<1> QED BY <1>1, <1>4, <1>5

(* PTRACE_ATTACH attaches a tracee that has no ptracer.                    *)
LEMMA AttachRequestFine ==
  ASSUME NEW S, Ok(S), NEW p \in Procs, S.t[p].listed, NEW q
  PROVE  Fine(S, Attach(S, p, q))
<1>1. CASE Listed(S, q) /\ Tracer(S, q) = NULL /\ q # p
  <2> DEFINE A == attach_to_ptracer(S, q, p)
  <2>1. q \in Procs /\ S.t[q].listed  BY <1>1 DEF Listed
  <2>2. Attach(S, p, q) = SendStop(A, q)  BY <1>1 DEF Attach
  <2>3. Fine(S, A)  BY <1>1, <2>1, AttachFine
  <2> HIDE DEF A
  <2> QED BY <2>1, <2>2, <2>3, SendStopQuiet, FineStep DEF Fine, Ok
<1>2. CASE ~(Listed(S, q) /\ Tracer(S, q) = NULL /\ q # p)
  BY <1>2, FineRefl DEF Attach
<1> QED BY <1>1, <1>2

(* The exit stage of ptrace, for every request.                            *)
LEMMA PtraceExitFine ==
  ASSUME NEW S, Ok(S), NEW p \in Procs, S.t[p].listed
  PROVE  Fine(S, translate_ptrace_exit(S, p))
<1> DEFINE q == S.k[p].call.pid
           A(b) == [S EXCEPT !.t[q].as_ptracee.ignore_syscalls = b]
           F == [S EXCEPT !.t[q].as_ptracee.tracefork = TRUE]
           D == detach_from_ptracer(S, q)
<1>1. \/ translate_ptrace_exit(S, p) \in {S, Traceme(S, p), Attach(S, p, q)}
      \/ /\ q \in Ptracees(S, p)
         /\ translate_ptrace_exit(S, p) \in
              {Resume(A(FALSE), q, TRUE), Resume(A(TRUE), q, TRUE), Resume(D, q, FALSE), F}
  BY DEF translate_ptrace_exit
<1>2. Fine(S, S) /\ Fine(S, Traceme(S, p)) /\ Fine(S, Attach(S, p, q))
  BY FineRefl, TracemeFine, AttachRequestFine
<1> HIDE DEF q
<1>3. ASSUME q \in Ptracees(S, p)
      PROVE  /\ Fine(S, Resume(A(FALSE), q, TRUE)) /\ Fine(S, Resume(A(TRUE), q, TRUE))
             /\ Fine(S, Resume(D, q, FALSE)) /\ Fine(S, F)
  <2>1. q \in Procs /\ S.t[q].listed  BY <1>3 DEF Ptracees
  <2>2. S \in StateType /\ S.t[q] \in TraceeType  BY <2>1, StateFacts DEF Ok
  <2>3. ASSUME NEW b \in BOOLEAN PROVE Fine(S, Resume(A(b), q, TRUE))
    <3> DEFINE r == [S.t[q] EXCEPT !.as_ptracee.ignore_syscalls = b]
    <3>1. A(b) = [S EXCEPT !.t[q] = r]  OBVIOUS
    <3>2. r \in TraceeType /\ SameLinks(S.t[q], r)
      BY <2>2 DEF TraceeType, PtraceeType, SameLinks
    <3> HIDE DEF r, A
    <3>3. Quiet(S, A(b))  BY <2>1, <2>2, <3>1, <3>2, SetTQuiet
    <3>4. Quiet(A(b), Resume(A(b), q, TRUE))  BY <2>1, <3>3, ResumeQuiet DEF Quiet
    <3> QED BY <3>3, <3>4, QuietTrans, QuietFine
  <2>4. Fine(S, F)
    <3> DEFINE r == [S.t[q] EXCEPT !.as_ptracee.tracefork = TRUE]
    <3>1. F = [S EXCEPT !.t[q] = r]  OBVIOUS
    <3>2. r \in TraceeType /\ SameLinks(S.t[q], r)
      BY <2>2 DEF TraceeType, PtraceeType, SameLinks
    <3> HIDE DEF r, F
    <3> QED BY <2>1, <2>2, <3>1, <3>2, SetTQuiet, QuietFine
  <2>5. Fine(S, D)  BY <2>1, DetachFine
  <2> HIDE DEF D, A, F
  <2>6. Fine(S, Resume(D, q, FALSE))  BY <2>1, <2>5, ResumeQuiet, FineStep DEF Fine, Ok
  <2> QED BY <2>3, <2>4, <2>6
<1> HIDE DEF A, D, F
<1> QED BY <1>1, <1>2, <1>3

(* The exit stage of wait4: it collects a zombie, reports an event,        *)
(* returns or waits.                                                       *)
LEMMA WaitExitFine ==
  ASSUME NEW S, Ok(S), NEW p \in Procs, S.t[p].listed, S.k[p].call.nr = "wait4",
         NEW R \in translate_wait_exit(S, p)
  PROVE  Fine(S, R)
<1> DEFINE pid == S.k[p].call.pid
           a == [S.t[p] EXCEPT !.waits_in = "DOESNT_WAIT"]
           A == [S EXCEPT !.t[p] = a]
           b == [A.t[p] EXCEPT !.wait_pid = pid]
           B == [A EXCEPT !.t[p] = b]
<1>1. \/ \E z \in S.t[p].zombies : R = CollectZombie(A, p, z)
      \/ \E q \in Ptracees(S, p) : R = update_wait_status(A, p, q)
      \/ R = A \/ R = B
  BY DEF translate_wait_exit
<1>2. S \in StateType /\ S.t[p] \in TraceeType /\ S.k[p] \in KernelType
  BY StateFacts DEF Ok
<1>3. pid \in Procs \cup {-1}
  <2>1. S.k[p].call \in CallType \cup {NoCall}  BY <1>2 DEF KernelType
  <2> QED BY <2>1 DEF CallType, NoCall
<1>4. a \in TraceeType /\ SameLinks(S.t[p], a)  BY <1>2 DEF TraceeType, SameLinks
<1> HIDE DEF a, pid
<1>5. Quiet(S, A)  BY <1>2, <1>4, SetTQuiet
<1> HIDE DEF A
<1>6. Fine(S, A)  BY <1>5, QuietFine
<1>7. Ok(A) /\ A \in StateType  BY <1>6 DEF Fine, Ok
<1>8. A.t[p] \in TraceeType  BY <1>7, StateFacts
<1>9. b \in TraceeType /\ SameLinks(A.t[p], b)  BY <1>3, <1>8 DEF TraceeType, SameLinks
<1> HIDE DEF b
<1>10. Fine(S, B)  BY <1>6, <1>7, <1>9, SetTQuiet, FineStep
<1> HIDE DEF B
<1>11. ASSUME NEW z \in S.t[p].zombies, R = CollectZombie(A, p, z) PROVE Fine(S, R)
  <2>1. z \in A.t[p].zombies  BY <1>5 DEF Quiet, SameLinks
  <2> QED BY <1>6, <1>7, <1>11, <2>1, CollectZombieFine, FineTrans
<1>12. ASSUME NEW q \in Ptracees(S, p), R = update_wait_status(A, p, q) PROVE Fine(S, R)
  <2>1. q \in Procs /\ A.t[q].listed  BY <1>6 DEF Fine, Keeps, Ptracees
  <2> QED BY <1>6, <1>7, <1>12, <2>1, UpdateFine, FineTrans
<1> QED BY <1>1, <1>6, <1>10, <1>11, <1>12

(* The exit stage of a call.                                               *)
LEMMA ExitStageFine ==
  ASSUME NEW S, Ok(S), NEW p \in Procs, S.t[p].listed, NEW R \in ExitStage(S, p)
  PROVE  Fine(S, R)
<1> DEFINE a == [S.t[p] EXCEPT !.sysexit = FALSE]
           A == [S EXCEPT !.t[p] = a]
           b == [A.t[p] EXCEPT !.chained = FALSE]
           B == [A EXCEPT !.t[p] = b]
<1>1. \/ R \in {A, B, translate_ptrace_exit(A, p)}
      \/ S.k[p].call.nr = "wait4" /\ R \in translate_wait_exit(A, p)
  BY DEF ExitStage
<1>2. S \in StateType /\ S.t[p] \in TraceeType  BY StateFacts DEF Ok
<1>3. a \in TraceeType /\ SameLinks(S.t[p], a)  BY <1>2 DEF TraceeType, SameLinks
<1> HIDE DEF a
<1>4. Fine(S, A) /\ A.k = S.k  BY <1>2, <1>3, SetTQuiet, QuietFine
<1> HIDE DEF A
<1>5. Ok(A) /\ A \in StateType /\ A.t[p].listed  BY <1>4 DEF Fine, Keeps, Ok
<1>6. A.t[p] \in TraceeType  BY <1>5, StateFacts
<1>7. b \in TraceeType /\ SameLinks(A.t[p], b)  BY <1>6 DEF TraceeType, SameLinks
<1> HIDE DEF b
<1>8. Fine(S, B)  BY <1>4, <1>5, <1>7, SetTQuiet, FineStep
<1> HIDE DEF B
<1>9. Fine(S, translate_ptrace_exit(A, p))  BY <1>4, <1>5, PtraceExitFine, FineTrans
<1>10. S.k[p].call.nr = "wait4" /\ R \in translate_wait_exit(A, p) => Fine(S, R)
  BY <1>4, <1>5, WaitExitFine, FineTrans
<1> QED BY <1>1, <1>4, <1>8, <1>9, <1>10

(* handle_tracee_event.                                                    *)
LEMMA HandleTraceeFine ==
  ASSUME NEW S, Ok(S), NEW p \in Procs, S.t[p].listed, NEW event,
         event = "FORK" => S.k[p].child \in Procs, NEW R \in handle_tracee_event(S, p, event)
  PROVE  Fine(S, R)
<1> DEFINE A == [S EXCEPT !.t[p].restart_how = TRUE,
                          !.t[p].as_ptracee.proot.pending = FALSE]
<1>1. \/ event = "FORK" /\ R = new_child(A, p)
      \/ R \in ExitStage(A, p)
      \/ R = HandleKept(S, p, event)
  BY DEF handle_tracee_event
<1>2. Quiet(S, A)  BY AnswerQuiet DEF Ok
<1> HIDE DEF A
<1>3. Fine(S, A)  BY <1>2, QuietFine
<1>4. Ok(A) /\ A.t[p].listed /\ A.k[p].child = S.k[p].child
  BY <1>3 DEF Fine, Keeps, SameEnd
<1>5. event = "FORK" => Fine(S, new_child(A, p))  BY <1>3, <1>4, NewChildFine, FineTrans
<1>6. R \in ExitStage(A, p) => Fine(S, R)  BY <1>3, <1>4, ExitStageFine, FineTrans
<1>7. Fine(S, HandleKept(S, p, event))  BY HandleKeptQuiet, QuietFine DEF Ok
<1> QED BY <1>1, <1>5, <1>6, <1>7

(* handle_ptracee_event, which for some events handles them first.         *)
LEMMA HandlePtraceeFine ==
  ASSUME NEW S, Ok(S), NEW q \in Procs, S.t[q].listed, NEW event \in Events,
         event = "FORK" => S.k[q].child \in Procs, NEW o \in handle_ptracee_event(S, q, event)
  PROVE  Fine(S, o.s)
<1> DEFINE a == [S.t[q] EXCEPT !.as_ptracee.proot = [value |-> event, pending |-> TRUE]]
           A == [S EXCEPT !.t[q] = a]
           b == [A.t[q] EXCEPT !.as_ptracee.tracing_started = TRUE]
           B == [A EXCEPT !.t[q] = b]
           C(n) == [n EXCEPT !.t[q].as_ptracee.proot.value = "0"]
<1>1. \/ o = [s |-> A, keep |-> FALSE]
      \/ o = NotifyPtracer(B, q, event)
      \/ \E n \in handle_tracee_event(B, q, event) : o = NotifyPtracer(C(n), q, event)
  BY DEF handle_ptracee_event
<1>2. S \in StateType /\ S.t[q] \in TraceeType  BY StateFacts DEF Ok
<1>3. a \in TraceeType /\ SameLinks(S.t[q], a)
  BY <1>2 DEF TraceeType, PtraceeType, EventType, SameLinks
<1> HIDE DEF a
<1>4. Fine(S, A)  BY <1>2, <1>3, SetTQuiet, QuietFine
<1> HIDE DEF A
<1>5. Ok(A) /\ A \in StateType  BY <1>4 DEF Fine, Ok
<1>6. A.t[q] \in TraceeType  BY <1>5, StateFacts
<1>7. b \in TraceeType /\ SameLinks(A.t[q], b)
  BY <1>6 DEF TraceeType, PtraceeType, SameLinks
<1> HIDE DEF b
<1>8. Fine(S, B)  BY <1>4, <1>5, <1>7, SetTQuiet, FineStep
<1> HIDE DEF B
<1>9. Ok(B) /\ B.t[q].listed /\ B.k[q].child = S.k[q].child
  BY <1>8 DEF Fine, Keeps, SameEnd
<1>10. Fine(S, NotifyPtracer(B, q, event).s)  BY <1>8, <1>9, NotifyFine, FineTrans
<1>11. ASSUME NEW n \in handle_tracee_event(B, q, event)
       PROVE  Fine(S, NotifyPtracer(C(n), q, event).s)
  <2>1. Fine(B, n)  BY <1>9, HandleTraceeFine
  <2>2. Ok(n) /\ n \in StateType /\ n.t[q].listed  BY <1>9, <2>1 DEF Fine, Keeps, Ok
  <2> DEFINE c == [n.t[q] EXCEPT !.as_ptracee.proot.value = "0"]
  <2>3. C(n) = [n EXCEPT !.t[q] = c]  OBVIOUS
  <2>4. n.t[q] \in TraceeType  BY <2>2, StateFacts
  <2>5. c \in TraceeType /\ SameLinks(n.t[q], c)
    BY <2>4 DEF TraceeType, PtraceeType, EventType, Events, SameLinks
  <2> HIDE DEF c, C
  <2>6. Fine(n, C(n))  BY <2>2, <2>3, <2>5, SetTQuiet, QuietFine
  <2>7. Ok(C(n)) /\ C(n).t[q].listed  BY <2>2, <2>6 DEF Fine, Keeps
  <2> QED BY <1>8, <2>1, <2>6, <2>7, NotifyFine, FineTrans
<1> HIDE DEF C
<1> QED BY <1>1, <1>4, <1>10, <1>11

-----------------------------------------------------------------------------
(* A ptracee of a process that died keeps its links but the one to its     *)
(* ptracer.                                                                *)
LEMMA ReleaseFacts ==
  ASSUME NEW S \in StateType, NEW q \in Procs
  PROVE  LET R == ReleasePtracee(S, q) IN
         /\ R \in StateType
         /\ S.failed # "none" => R.failed # "none"
         /\ R.t[q].listed = S.t[q].listed /\ R.t[q].parent = S.t[q].parent
         /\ R.t[q].nb_ptracees = S.t[q].nb_ptracees /\ R.t[q].zombies = S.t[q].zombies
         /\ Tracer(R, q) = NULL
         /\ SameEnd(S.k[q], R.k[q])
<1> DEFINE a == [S.t[q] EXCEPT !.as_ptracee.ptracer = NULL]
           A == [S EXCEPT !.t[q] = a]
           B == IF S.t[q].as_ptracee.proot.pending
                THEN HandleAndRestart(A, q, S.t[q].as_ptracee.proot.value)
                ELSE IF S.t[q].as_ptracee.event.pending THEN restart_tracee(A, q) ELSE A
           c == [B.t[q] EXCEPT !.as_ptracee = NotTraced]
           C == [B EXCEPT !.t[q] = c]
<1>1. ReleasePtracee(S, q) = C  BY DEF ReleasePtracee
<1>2. S.t[q] \in TraceeType  BY StateFacts
<1>3. /\ a \in TraceeType /\ a.listed = S.t[q].listed /\ a.parent = S.t[q].parent
      /\ a.nb_ptracees = S.t[q].nb_ptracees /\ a.zombies = S.t[q].zombies
  BY <1>2 DEF TraceeType, PtraceeType
<1> HIDE DEF a
<1>4. /\ A \in StateType /\ A.k = S.k /\ A.failed = S.failed
      /\ A.t[q] = a
  BY <1>3, SetT
<1> HIDE DEF A
<1>5. Quiet(A, B)
  BY <1>4, HandleAndRestartQuiet, RestartQuiet, QuietRefl
<1> HIDE DEF B
<1>6. B \in StateType  BY <1>5 DEF Quiet
<1>7. B.t[q] \in TraceeType  BY <1>6, StateFacts
<1>8. NotTraced \in PtraceeType /\ NotTraced.ptracer = NULL
  BY DEF PtraceeType, NotTraced, NoEvent, EventType, Events
<1>9. /\ c \in TraceeType /\ c.listed = B.t[q].listed /\ c.parent = B.t[q].parent
      /\ c.nb_ptracees = B.t[q].nb_ptracees /\ c.zombies = B.t[q].zombies
      /\ c.as_ptracee = NotTraced
  BY <1>7, <1>8 DEF TraceeType
<1> HIDE DEF c
<1>10. /\ C \in StateType /\ C.k = B.k /\ C.failed = B.failed
       /\ C.t[q] = c
  BY <1>6, <1>9, SetT
<1> HIDE DEF C
<1> QED BY <1>1, <1>3, <1>4, <1>5, <1>8, <1>9, <1>10 DEF Quiet, SameLinks, SameEnd, Tracer

(* What becomes of the records when the ptracees in P are released.        *)
LEMMA ReleaseAllFacts ==
  ASSUME NEW S \in StateType, NEW P \in SUBSET Procs
  PROVE  LET R == ReleasePtracees(S, P) IN
         /\ R \in StateType
         /\ S.failed # "none" => R.failed # "none"
         /\ \A x \in Procs :
              /\ R.t[x].listed = S.t[x].listed /\ R.t[x].parent = S.t[x].parent
              /\ R.t[x].nb_ptracees = S.t[x].nb_ptracees /\ R.t[x].zombies = S.t[x].zombies
              /\ Tracer(R, x) = IF x \in P THEN NULL ELSE Tracer(S, x)
              /\ SameEnd(S.k[x], R.k[x])
<1> DEFINE Q(q) == ReleasePtracee(S, q)
           ts == [q \in Procs |-> IF q \in P THEN Q(q).t[q] ELSE S.t[q]]
           ks == [q \in Procs |-> IF q \in P THEN Q(q).k[q] ELSE S.k[q]]
           A == [S EXCEPT !.t = ts, !.k = ks]
           cond == \A q \in P : Q(q).failed = S.failed
           R == Assert(A, cond, "event.c:897")
<1>1. ReleasePtracees(S, P) = R  BY DEF ReleasePtracees
<1>2. ASSUME NEW x \in P
      PROVE  /\ Q(x).t[x] \in TraceeType /\ Q(x).k[x] \in KernelType
             /\ Q(x).t[x].listed = S.t[x].listed /\ Q(x).t[x].parent = S.t[x].parent
             /\ Q(x).t[x].nb_ptracees = S.t[x].nb_ptracees
             /\ Q(x).t[x].zombies = S.t[x].zombies
             /\ Q(x).t[x].as_ptracee.ptracer = NULL
             /\ SameEnd(S.k[x], Q(x).k[x])
  BY ReleaseFacts, StateFacts DEF Tracer
<1> HIDE DEF Q
<1>3. ASSUME NEW x \in Procs PROVE ts[x] \in TraceeType /\ ks[x] \in KernelType
  BY <1>2, StateFacts
<1>4. ts \in [Procs -> TraceeType] /\ ks \in [Procs -> KernelType]  BY <1>3
<1>5. A.t = ts /\ A.k = ks /\ A.failed = S.failed /\ A \in StateType
  <2> HIDE DEF ts, ks
  <2> QED BY <1>4 DEF StateType
<1> HIDE DEF A, cond
<1>6. Quiet(A, R) /\ R.t = A.t /\ R.k = A.k  BY <1>5, AssertQuiet
<1>7. R \in StateType /\ (S.failed # "none" => R.failed # "none")  BY <1>5, <1>6 DEF Quiet
<1> HIDE DEF R
<1>8. ASSUME NEW x \in Procs
      PROVE  /\ R.t[x].listed = S.t[x].listed /\ R.t[x].parent = S.t[x].parent
             /\ R.t[x].nb_ptracees = S.t[x].nb_ptracees /\ R.t[x].zombies = S.t[x].zombies
             /\ Tracer(R, x) = IF x \in P THEN NULL ELSE Tracer(S, x)
             /\ SameEnd(S.k[x], R.k[x])
  <2>1. CASE x \in P
    <3>1. R.t[x] = Q(x).t[x] /\ R.k[x] = Q(x).k[x]  BY <1>5, <1>6, <2>1
    <3> QED BY <1>2, <2>1, <3>1 DEF Tracer
  <2>2. CASE x \notin P
    <3>1. R.t[x] = S.t[x] /\ R.k[x] = S.k[x]  BY <1>5, <1>6, <2>2
    <3> QED BY <2>2, <3>1 DEF Tracer, SameEnd
  <2> QED BY <2>1, <2>2
<1> QED BY <1>1, <1>7, <1>8

(* The tracee that died leaves the list, and is nobody's parent any more.  *)
LEMMA UnlinkFacts ==
  ASSUME NEW S \in StateType, NEW p \in Procs
  PROVE  LET R == Unlink(S, p) IN
         /\ R \in StateType /\ R.k = S.k /\ R.failed = S.failed
         /\ \A x \in Procs :
              /\ R.t[x].listed = (S.t[x].listed /\ x # p)
              /\ R.t[x].parent = IF S.t[x].parent = p THEN NULL ELSE S.t[x].parent
              /\ Tracer(R, x) = Tracer(S, x)
              /\ R.t[x].nb_ptracees = S.t[x].nb_ptracees
              /\ R.t[x].zombies = S.t[x].zombies
<1> DEFINE par(x) == IF S.t[x].parent = p THEN NULL ELSE S.t[x].parent
           lis(x) == S.t[x].listed /\ x # p
           r(x) == [S.t[x] EXCEPT !.parent = par(x), !.listed = lis(x)]
           ts == [x \in Procs |-> r(x)]
           R == [S EXCEPT !.t = ts]
<1>1. Unlink(S, p) = R  BY DEF Unlink
<1>2. ASSUME NEW x \in Procs
      PROVE  /\ r(x) \in TraceeType
             /\ r(x).listed = lis(x) /\ r(x).parent = par(x)
             /\ r(x).as_ptracee = S.t[x].as_ptracee
             /\ r(x).nb_ptracees = S.t[x].nb_ptracees
             /\ r(x).zombies = S.t[x].zombies
  <2>1. S.t[x] \in TraceeType  BY StateFacts
  <2>2. par(x) \in Procs \cup {NULL} /\ lis(x) \in BOOLEAN  BY StateFacts
  <2> HIDE DEF par, lis
  <2> QED BY <2>1, <2>2 DEF TraceeType
<1>3. ts \in [Procs -> TraceeType]
  <2> HIDE DEF r
  <2> QED BY <1>2
<1>4. R.t = ts /\ R.k = S.k /\ R.failed = S.failed /\ R \in StateType
  <2> HIDE DEF ts
  <2> QED BY <1>3 DEF StateType
<1> HIDE DEF R
<1>5. ASSUME NEW x \in Procs PROVE R.t[x] = r(x)
  <2> HIDE DEF r
  <2> QED BY <1>4
<1> HIDE DEF r
<1> QED BY <1>1, <1>2, <1>4, <1>5 DEF Tracer

(* Everything but p, once p is gone, its ptracees in P free, and its own   *)
(* ptracer (b) has one ptracee less, or a zombie instead.                  *)
LeftRec(S, M, p, b, zombified, x) ==
  /\ M.t[x].listed = S.t[x].listed
  /\ S.t[x].parent = p => M.t[x].parent = NULL
  /\ S.t[x].parent # p => M.t[x].parent = S.t[x].parent
  /\ S.t[x].listed /\ Tracer(S, x) = p => Tracer(M, x) = NULL
  /\ S.t[x].listed /\ Tracer(S, x) # p => Tracer(M, x) = Tracer(S, x)
  /\ x # b => /\ M.t[x].nb_ptracees = S.t[x].nb_ptracees
              /\ M.t[x].zombies = S.t[x].zombies
  /\ x = b /\ zombified =>
       /\ M.t[x].nb_ptracees = S.t[x].nb_ptracees
       /\ M.t[x].zombies = S.t[x].zombies \cup {[pid |-> p, parent |-> S.t[p].parent]}
  /\ x = b /\ ~zombified => /\ M.t[x].nb_ptracees = S.t[x].nb_ptracees - 1
                            /\ M.t[x].zombies = S.t[x].zombies
Left(S, M, p, b, zombified) ==
  /\ M \in StateType
  /\ S.failed # "none" => M.failed # "none"
  /\ \A x \in Procs : SameEnd(S.k[x], M.k[x])
  /\ \A x \in Procs : x # p => LeftRec(S, M, p, b, zombified, x)

(* A quiet function does not change who left and how.                      *)
LEMMA LeftQuiet ==
  ASSUME NEW S, NEW M, NEW N, NEW p, NEW b, NEW zombified,
         Left(S, M, p, b, zombified), Quiet(M, N)
  PROVE  Left(S, N, p, b, zombified)
<1>1. ASSUME NEW x \in Procs, x # p PROVE LeftRec(S, N, p, b, zombified, x)
  <2>1. LeftRec(S, M, p, b, zombified, x)  BY <1>1 DEF Left
  <2>2. SameLinks(M.t[x], N.t[x])  BY DEF Quiet
  <2> QED BY <2>1, <2>2 DEF LeftRec, SameLinks, Tracer
<1>2. ASSUME NEW x \in Procs PROVE SameEnd(S.k[x], N.k[x])
  <2>1. SameEnd(S.k[x], M.k[x]) /\ SameEnd(M.k[x], N.k[x])  BY DEF Left, Quiet
  <2> QED BY <2>1 DEF SameEnd
<1> QED BY <1>1, <1>2 DEF Left, Quiet

(* Once a dead tracee has left so, its record can be freed. Its ptracer    *)
(* counts one ptracee less or one zombie more: the zombie is new, since p  *)
(* was not gone.                                                           *)
LEMMA LeftOk ==
  ASSUME NEW S, Ok(S), NEW p \in Procs, S.t[p].listed, S.k[p].pc = "dead",
         S.k[p].report = "none", NEW M, NEW zombified \in BOOLEAN,
         Left(S, M, p, Tracer(S, p), zombified)
  PROVE  Ok([M EXCEPT !.t[p] = Removed, !.k[p].pc = "gone"])
<1> DEFINE A == [M EXCEPT !.t[p] = Removed]
           a == [A.k[p] EXCEPT !.pc = "gone"]
           R == [A EXCEPT !.k[p] = a]
           b == Tracer(S, p)
           z == [pid |-> p, parent |-> S.t[p].parent]
<1>1. R = [M EXCEPT !.t[p] = Removed, !.k[p].pc = "gone"]  OBVIOUS
<1>2. S \in StateType /\ M \in StateType  BY DEF Ok, Left
<1>3. /\ A \in StateType /\ A.k = M.k /\ A.failed = M.failed
      /\ \A x \in Procs : A.t[x] = IF x = p THEN Removed ELSE M.t[x]
  BY <1>2, NewTraceeFacts, SetT
<1> HIDE DEF A
<1>4. A.k[p] \in KernelType  BY <1>3, StateFacts
<1>5. a \in KernelType /\ a.pc = "gone" /\ a.report = A.k[p].report
  BY <1>4 DEF KernelType, Places
<1> HIDE DEF a
<1>6. /\ R \in StateType /\ R.t = A.t /\ R.failed = A.failed
      /\ \A x \in Procs : R.k[x] = IF x = p THEN a ELSE A.k[x]
  BY <1>3, <1>5 DEF StateType
<1> HIDE DEF R
<1>7. /\ ~R.t[p].listed /\ R.t[p].zombies = {}
      /\ R.k[p].pc = "gone" /\ R.k[p].report = "none"
      /\ \A x \in Procs : x # p => R.t[x] = M.t[x] /\ R.k[x] = M.k[x]
  <2>1. Removed.zombies = {}  BY DEF Removed, NewTracee
  <2> QED BY <1>3, <1>5, <1>6, <2>1, NewTraceeFacts DEF Left, SameEnd
<1>8. ASSUME R.failed = "none" PROVE Agree(R)
  <2>1. Agree(S)  BY <1>3, <1>6, <1>8 DEF Ok, Left
  <2>2. \A x \in Procs : /\ S.t[x].parent \in Procs \cup {NULL}
                         /\ Tracer(S, x) \in Procs \cup {NULL}
                         /\ S.t[x].zombies \in SUBSET ZombieType
    BY <1>2, StateFacts
  <2>3. ASSUME NEW x \in Procs, x # p PROVE LeftRec(S, R, p, b, zombified, x)
    <3>1. LeftRec(S, M, p, b, zombified, x) /\ R.t[x] = M.t[x]  BY <1>7, <2>3 DEF Left
    <3> QED BY <3>1 DEF LeftRec, Tracer
  <2>4. ASSUME NEW x \in Procs, R.t[x].listed
        PROVE  R.t[x].nb_ptracees = Cardinality(Ptracees(R, x)) + Cardinality(R.t[x].zombies)
    <3>0. x # p  BY <1>7, <2>4
    <3>1. x # p /\ S.t[x].listed  BY <2>3, <2>4, <3>0 DEF LeftRec
    <3>2. S.t[x].nb_ptracees = Cardinality(Ptracees(S, x)) + Cardinality(S.t[x].zombies)
      BY <2>1, <3>1 DEF Agree, Counted
    <3>3. Ptracees(R, x) = Ptracees(S, x) \ {p}
      <4>1. ASSUME NEW q \in Procs PROVE q \in Ptracees(R, x) <=> q \in Ptracees(S, x) /\ q # p
        <5>1. CASE q = p  BY <1>7, <5>1 DEF Ptracees
        <5>2. CASE q # p
          <6>0. LeftRec(S, R, p, b, zombified, q)  BY <2>3, <5>2
          <6>1. R.t[q].listed = S.t[q].listed  BY <6>0 DEF LeftRec
          <6>2. S.t[q].listed => (Tracer(R, q) = x <=> Tracer(S, q) = x)
            BY <3>1, <6>0, ProcsFinite DEF LeftRec
          <6> QED BY <5>2, <6>1, <6>2 DEF Ptracees
        <5> QED BY <5>1, <5>2
      <4> QED BY <4>1 DEF Ptracees
    <3>4. /\ IsFiniteSet(Ptracees(S, x)) /\ Cardinality(Ptracees(S, x)) \in Nat
          /\ IsFiniteSet(S.t[x].zombies) /\ Cardinality(S.t[x].zombies) \in Nat
      BY <2>2, ProcsFinite DEF Ptracees
    <3>5. CASE x # b
      <4>1. p \notin Ptracees(S, x)  BY <3>5 DEF Ptracees
      <4>2. Ptracees(R, x) = Ptracees(S, x)  BY <3>3, <4>1
      <4>3. R.t[x].zombies = S.t[x].zombies /\ R.t[x].nb_ptracees = S.t[x].nb_ptracees
        BY <2>3, <3>1, <3>5 DEF LeftRec
      <4> QED BY <3>2, <4>2, <4>3
    <3>6. CASE x = b
      <4>1. p \in Ptracees(S, x)  BY <3>6 DEF Ptracees
      <4>2. Cardinality(Ptracees(R, x)) = Cardinality(Ptracees(S, x)) - 1
        BY <3>3, <3>4, <4>1, FS_RemoveElement
      <4>3. CASE zombified
        <5>1. /\ R.t[x].zombies = S.t[x].zombies \cup {z}
              /\ R.t[x].nb_ptracees = S.t[x].nb_ptracees
          BY <2>3, <3>1, <3>6, <4>3 DEF LeftRec
        <5>2. z \notin S.t[x].zombies
          <6>1. z.pid = p  OBVIOUS
          <6> QED BY <2>1, <6>1 DEF Agree, ZombiesGone
        <5> HIDE DEF z
        <5>3. Cardinality(R.t[x].zombies) = Cardinality(S.t[x].zombies) + 1
          BY <3>4, <5>1, <5>2, FS_AddElement
        <5> QED BY <3>2, <3>4, <4>2, <5>1, <5>3
      <4>4. CASE ~zombified
        <5>1. R.t[x].zombies = S.t[x].zombies
          BY <2>3, <3>1, <3>6, <4>4 DEF LeftRec
        <5>2. R.t[x].nb_ptracees = S.t[x].nb_ptracees - 1
          BY <2>3, <3>1, <3>6, <4>4 DEF LeftRec
        <5> QED BY <3>2, <3>4, <4>2, <5>1, <5>2
      <4> QED BY <4>3, <4>4
    <3> QED BY <3>5, <3>6
  <2>5. Counted(R)  BY <2>4 DEF Counted
  <2>6. Linked(R)
    <3> SUFFICES ASSUME NEW x \in Procs, R.t[x].listed
                 PROVE  /\ R.t[x].parent = NULL \/ R.t[R.t[x].parent].listed
                        /\ Tracer(R, x) = NULL \/ R.t[Tracer(R, x)].listed
      BY DEF Linked
    <3>0. x # p  BY <1>7
    <3>1. S.t[x].listed /\ LeftRec(S, R, p, b, zombified, x)  BY <2>3, <3>0 DEF LeftRec
    <3>2. /\ S.t[x].parent = NULL \/ S.t[S.t[x].parent].listed
          /\ Tracer(S, x) = NULL \/ S.t[Tracer(S, x)].listed
      BY <2>1, <3>1 DEF Agree, Linked
    <3>3. \A y \in Procs : y # p => R.t[y].listed = S.t[y].listed  BY <2>3 DEF LeftRec
    <3> QED BY <2>2, <3>0, <3>1, <3>2, <3>3 DEF LeftRec
  <2>7. ZombiesGone(R)
    <3> SUFFICES ASSUME NEW x \in Procs, NEW y \in R.t[x].zombies
                 PROVE  R.k[y.pid].pc = "gone"
      BY DEF ZombiesGone
    <3>1. x # p  BY <1>7
    <3>2. y \in S.t[x].zombies \/ y = z
      <4>1. LeftRec(S, R, p, b, zombified, x)  BY <2>3, <3>1
      <4>2. R.t[x].zombies = S.t[x].zombies \/ R.t[x].zombies = S.t[x].zombies \cup {z}
        BY <4>1 DEF LeftRec
      <4> QED BY <4>2
    <3>3. ASSUME y \in S.t[x].zombies PROVE R.k[y.pid].pc = "gone"
      <4>1. y.pid \in Procs  BY <2>2, <3>3 DEF ZombieType
      <4>2. S.k[y.pid].pc = "gone"  BY <2>1, <3>3 DEF Agree, ZombiesGone
      <4>3. SameEnd(S.k[y.pid], M.k[y.pid])  BY <4>1 DEF Left
      <4> QED BY <1>7, <4>1, <4>2, <4>3 DEF SameEnd
    <3>4. ASSUME y = z PROVE R.k[y.pid].pc = "gone"
      BY <1>7, <3>4
    <3> QED BY <3>2, <3>3, <3>4
  <2>8. Reported(R)
    <3> SUFFICES ASSUME NEW x \in Procs
                 PROVE  /\ R.k[x].report = "EXITED" => R.k[x].pc = "dead"
                        /\ R.k[x].report = "FORK" => R.k[x].child \in Procs
      BY DEF Reported
    <3>1. CASE x = p  BY <1>7, <3>1
    <3>2. CASE x # p
      <4>1. SameEnd(S.k[x], R.k[x])  BY <1>7, <3>2 DEF Left
      <4> QED BY <2>1, <4>1 DEF Agree, Reported, SameEnd
    <3> QED BY <3>1, <3>2
  <2> QED BY <2>5, <2>6, <2>7, <2>8 DEF Agree
<1>9. Ok(R)  BY <1>6, <1>8 DEF Ok
<1> QED BY <1>1, <1>9

(* remove_tracee keeps the agreement in each of its outcomes: without a    *)
(* ptracer, left as a zombie, the ptracer woken because it has nothing to  *)
(* wait for, or not.                                                       *)
LEMMA RemoveOk ==
  ASSUME NEW S, Ok(S), NEW p \in Procs, S.t[p].listed, S.k[p].pc = "dead",
         S.k[p].report = "none"
  PROVE  Ok(remove_tracee(S, p))
<1> DEFINE U == Unlink(S, p)
           P == Ptracees(U, p)
           V == ReleasePtracees(U, P)
           b == Tracer(S, p)
           W == Uncount(V, b)
           z == [pid |-> p, parent |-> S.t[p].parent]
           n == [V.t[b] EXCEPT !.zombies = @ \cup {z}]
           Z == [V EXCEPT !.t[b] = n]
           w == [W.t[b] EXCEPT !.wait_pid = NULL]
           X == [W EXCEPT !.t[b] = w]
           End(M) == [M EXCEPT !.t[p] = Removed, !.k[p].pc = "gone"]
<1>1. \/ b = NULL /\ remove_tracee(S, p) = End(V)
      \/ b # NULL /\ remove_tracee(S, p) = End(Z)
      \/ b # NULL /\ remove_tracee(S, p) = End(restart_tracee(X, b))
      \/ b # NULL /\ remove_tracee(S, p) = End(W)
  BY DEF remove_tracee
<1>2. S \in StateType /\ b \in Procs \cup {NULL}  BY StateFacts DEF Ok
<1> HIDE DEF b
<1>3. /\ U \in StateType /\ U.k = S.k /\ U.failed = S.failed
      /\ \A x \in Procs :
           /\ U.t[x].listed = (S.t[x].listed /\ x # p)
           /\ U.t[x].parent = IF S.t[x].parent = p THEN NULL ELSE S.t[x].parent
           /\ Tracer(U, x) = Tracer(S, x)
           /\ U.t[x].nb_ptracees = S.t[x].nb_ptracees
           /\ U.t[x].zombies = S.t[x].zombies
  BY <1>2, UnlinkFacts
<1> HIDE DEF U
<1>4. P \in SUBSET Procs  BY DEF Ptracees
<1>5. \A x \in Procs : x # p => (x \in P <=> S.t[x].listed /\ Tracer(S, x) = p)
  BY <1>3 DEF Ptracees
<1> HIDE DEF P
<1>6. /\ V \in StateType
      /\ S.failed # "none" => V.failed # "none"
      /\ \A x \in Procs :
           /\ V.t[x].listed = U.t[x].listed /\ V.t[x].parent = U.t[x].parent
           /\ V.t[x].nb_ptracees = U.t[x].nb_ptracees /\ V.t[x].zombies = U.t[x].zombies
           /\ Tracer(V, x) = IF x \in P THEN NULL ELSE Tracer(U, x)
           /\ SameEnd(S.k[x], V.k[x])
  BY <1>3, <1>4, ReleaseAllFacts
<1> HIDE DEF V
<1>7. ASSUME NEW x \in Procs, x # p
      PROVE  /\ V.t[x].listed = S.t[x].listed
             /\ S.t[x].parent = p => V.t[x].parent = NULL
             /\ S.t[x].parent # p => V.t[x].parent = S.t[x].parent
             /\ S.t[x].listed /\ Tracer(S, x) = p => Tracer(V, x) = NULL
             /\ S.t[x].listed /\ Tracer(S, x) # p => Tracer(V, x) = Tracer(S, x)
             /\ V.t[x].nb_ptracees = S.t[x].nb_ptracees
             /\ V.t[x].zombies = S.t[x].zombies
  <2>1. S.t[x].listed \in BOOLEAN  BY <1>2, StateFacts
  <2>2. V.t[x].listed = S.t[x].listed  BY <1>3, <1>6, <1>7, <2>1
  <2> QED BY <1>3, <1>5, <1>6, <1>7, <2>2
<1>8. ASSUME b = NULL PROVE Left(S, V, p, b, FALSE)
  <2>1. ASSUME NEW x \in Procs, x # p PROVE LeftRec(S, V, p, b, FALSE, x)
    BY <1>7, <1>8, <2>1, ProcsFinite DEF LeftRec
  <2> QED BY <1>6, <2>1 DEF Left
<1>9. ASSUME b # NULL PROVE Left(S, Z, p, b, TRUE)
  <2>1. b \in Procs  BY <1>2, <1>9
  <2>2. V.t[b] \in TraceeType  BY <1>6, <2>1, StateFacts
  <2>3. z \in ZombieType  BY <1>2, StateFacts DEF ZombieType
  <2>4. /\ n \in TraceeType /\ n.listed = V.t[b].listed /\ n.parent = V.t[b].parent
        /\ n.as_ptracee = V.t[b].as_ptracee /\ n.nb_ptracees = V.t[b].nb_ptracees
        /\ n.zombies = V.t[b].zombies \cup {z}
    <3> HIDE DEF z
    <3> QED BY <2>2, <2>3 DEF TraceeType
  <2> HIDE DEF n
  <2>5. /\ Z \in StateType /\ Z.k = V.k /\ Z.failed = V.failed
        /\ \A x \in Procs : Z.t[x] = IF x = b THEN n ELSE V.t[x]
    BY <1>6, <2>1, <2>4, SetT
  <2> HIDE DEF Z
  <2>6. ASSUME NEW x \in Procs, x # p PROVE LeftRec(S, Z, p, b, TRUE, x)
    <3>1. CASE x = b
      BY <1>7, <2>4, <2>5, <2>6, <3>1 DEF LeftRec, Tracer
    <3>2. CASE x # b
      <4>1. Z.t[x] = V.t[x]  BY <2>5, <3>2
      <4> QED BY <1>7, <2>6, <3>2, <4>1 DEF LeftRec, Tracer
    <3> QED BY <3>1, <3>2
  <2> QED BY <1>6, <2>5, <2>6 DEF Left
<1>10. ASSUME b # NULL PROVE Left(S, W, p, b, FALSE)
  <2>1. b \in Procs  BY <1>2, <1>10
  <2>2. /\ W \in StateType /\ W.k = V.k
        /\ V.failed # "none" => W.failed # "none"
        /\ \A x \in Procs : x # b => W.t[x] = V.t[x]
        /\ W.t[b].listed = V.t[b].listed /\ W.t[b].parent = V.t[b].parent
        /\ W.t[b].as_ptracee = V.t[b].as_ptracee /\ W.t[b].zombies = V.t[b].zombies
        /\ W.t[b].nb_ptracees = V.t[b].nb_ptracees - 1
    BY <1>6, <2>1, UncountFacts
  <2> HIDE DEF W
  <2>3. ASSUME NEW x \in Procs, x # p PROVE LeftRec(S, W, p, b, FALSE, x)
    <3>1. CASE x = b
      BY <1>7, <2>2, <2>3, <3>1 DEF LeftRec, Tracer
    <3>2. CASE x # b
      <4>1. W.t[x] = V.t[x]  BY <2>2, <3>2
      <4> QED BY <1>7, <2>3, <3>2, <4>1 DEF LeftRec, Tracer
    <3> QED BY <3>1, <3>2
  <2> QED BY <1>6, <2>2, <2>3 DEF Left
<1>11. ASSUME b # NULL PROVE Left(S, restart_tracee(X, b), p, b, FALSE)
  <2>1. b \in Procs /\ W \in StateType  BY <1>2, <1>10, <1>11 DEF Left
  <2> HIDE DEF W
  <2>2. W.t[b] \in TraceeType  BY <2>1, StateFacts
  <2>3. w \in TraceeType /\ SameLinks(W.t[b], w)  BY <2>2 DEF TraceeType, SameLinks
  <2> HIDE DEF w
  <2>4. Quiet(W, X)  BY <2>1, <2>3, SetTQuiet
  <2> HIDE DEF X
  <2>5. Quiet(W, restart_tracee(X, b))  BY <2>1, <2>4, RestartQuiet, QuietTrans DEF Quiet
  <2> QED BY <1>10, <1>11, <2>5, LeftQuiet
<1> HIDE DEF W, X, Z
<1>12. ASSUME NEW M, NEW zombified \in BOOLEAN, Left(S, M, p, b, zombified)
       PROVE  Ok(End(M))
  BY <1>12, LeftOk DEF b
<1> HIDE DEF End
<1> QED BY <1>1, <1>8, <1>9, <1>10, <1>11, <1>12

-----------------------------------------------------------------------------
(* The kernel writes k only, and no process comes back from "gone".        *)
LEMMA KernelOk ==
  ASSUME NEW S, Ok(S), NEW kk \in [Procs -> KernelType],
         S.failed = "none" =>
           \A x \in Procs : /\ S.k[x].pc = "gone" => kk[x].pc = "gone"
                            /\ kk[x].report = "EXITED" => kk[x].pc = "dead"
                            /\ kk[x].report = "FORK" => kk[x].child \in Procs
  PROVE  Ok([t |-> S.t, k |-> kk, failed |-> S.failed])
<1> DEFINE R == [t |-> S.t, k |-> kk, failed |-> S.failed]
<1>1. S \in StateType  BY DEF Ok
<1>2. R \in StateType /\ R.t = S.t /\ R.k = kk /\ R.failed = S.failed
  BY <1>1 DEF StateType
<1> HIDE DEF R
<1>3. \A x \in Procs : \A z \in S.t[x].zombies : z.pid \in Procs
  BY <1>1, StateFacts DEF ZombieType
<1>4. ASSUME R.failed = "none" PROVE Agree(R)
  <2>1. Agree(S)  BY <1>2, <1>4 DEF Ok
  <2>2. \A x : Ptracees(R, x) = Ptracees(S, x)  BY <1>2 DEF Ptracees, Tracer
  <2>3. Counted(R)  BY <1>2, <2>1, <2>2 DEF Agree, Counted
  <2>4. Linked(R)  BY <1>2, <2>1 DEF Agree, Linked, Tracer
  <2>5. ZombiesGone(R)  BY <1>2, <1>3, <1>4, <2>1 DEF Agree, ZombiesGone
  <2>6. Reported(R)  BY <1>2, <1>4 DEF Reported
  <2> QED BY <2>3, <2>4, <2>5, <2>6 DEF Agree
<1>5. Ok(R)  BY <1>2, <1>4 DEF Ok
<1> QED BY <1>5 DEF R

(* The first tracee has no links.                                          *)
LEMMA InitOk == Init => OkInv
<1> SUFFICES ASSUME Init PROVE Ok(State)  BY DEF OkInv
<1> DEFINE first == [NewTracee EXCEPT !.exe = TRUE, !.running = TRUE, !.sigstop = "ALLOWED"]
           kfirst == [Unborn EXCEPT !.pc = "user", !.run = TRUE]
<1>1. /\ first \in TraceeType /\ first.listed /\ first.parent = NULL
      /\ first.as_ptracee.ptracer = NULL /\ first.nb_ptracees = 0 /\ first.zombies = {}
  BY NewTraceeFacts DEF TraceeType
<1>2. Removed.zombies = {}  BY DEF Removed, NewTracee
<1>3. /\ Unborn \in KernelType /\ Unborn.report = "none"
      /\ kfirst \in KernelType /\ kfirst.report = "none"
  BY DEF Unborn, KernelType, Places, Events
<1> HIDE DEF first, kfirst
<1>4. /\ \A p \in Procs : /\ t[p] = IF p = 1 THEN first ELSE Removed
                          /\ k[p] = IF p = 1 THEN kfirst ELSE Unborn
      /\ failed = "none"
      /\ t \in [Procs -> TraceeType] /\ k \in [Procs -> KernelType]
  BY <1>1, <1>3, NewTraceeFacts DEF Init, first, kfirst
<1>5. State.t = t /\ State.k = k /\ State.failed = failed /\ State \in StateType
  BY <1>4 DEF State, StateType
<1> HIDE DEF State
<1>6. ASSUME NEW p \in Procs PROVE Ptracees(State, p) = {}
  BY <1>1, <1>4, <1>5, <1>6, NewTraceeFacts, ProcsFinite DEF Ptracees, Tracer
<1>7. Counted(State)
  <2> SUFFICES ASSUME NEW p \in Procs, State.t[p].listed
               PROVE  State.t[p].nb_ptracees =
                        Cardinality(Ptracees(State, p)) + Cardinality(State.t[p].zombies)
    BY DEF Counted
  <2>1. t[p] = first  BY <1>4, <1>5, NewTraceeFacts
  <2>2. State.t[p].nb_ptracees = 0 /\ State.t[p].zombies = {}  BY <1>1, <1>5, <2>1
  <2>3. Ptracees(State, p) = {}  BY <1>6
  <2> QED BY <2>2, <2>3, FS_EmptySet
<1>8. Linked(State)
  BY <1>1, <1>4, <1>5, NewTraceeFacts DEF Linked, Tracer
<1>9. ZombiesGone(State)  BY <1>1, <1>2, <1>4, <1>5 DEF ZombiesGone
<1>10. Reported(State)  BY <1>3, <1>4, <1>5 DEF Reported
<1> QED BY <1>5, <1>7, <1>8, <1>9, <1>10 DEF Ok, Agree

(* A process stops, with a report.                                         *)
LEMMA StopsAtFacts ==
  ASSUME k \in [Procs -> KernelType], NEW p \in Procs, NEW pc \in Places, NEW event \in Events
  PROVE  LET kk == StopsAt(p, pc, event) IN
         /\ kk \in [Procs -> KernelType]
         /\ kk[p] \in KernelType /\ kk[p].pc = pc /\ kk[p].report = event
         /\ \A x \in Procs : x # p => kk[x] = k[x]
<1>1. k[p] \in KernelType  OBVIOUS
<1> DEFINE a == [k[p] EXCEPT !.pc = pc, !.run = FALSE, !.report = event]
<1>2. a \in KernelType /\ a.pc = pc /\ a.report = event  BY <1>1 DEF KernelType
<1>3. StopsAt(p, pc, event) = [k EXCEPT ![p] = a]  BY DEF StopsAt
<1> HIDE DEF a
<1>4. /\ [k EXCEPT ![p] = a] \in [Procs -> KernelType]
      /\ [k EXCEPT ![p] = a][p] = a
      /\ \A x \in Procs : x # p => [k EXCEPT ![p] = a][x] = k[x]
  BY <1>2
<1> QED BY <1>2, <1>3, <1>4

(* What a step of the kernel may do to k.                                  *)
KernelStep ==
  /\ k' \in [Procs -> KernelType]
  /\ Reported(State) =>
       \A x \in Procs : /\ k[x].pc = "gone" => k'[x].pc = "gone"
                        /\ k'[x].report = "EXITED" => k'[x].pc = "dead"
                        /\ k'[x].report = "FORK" => k'[x].child \in Procs

(* Every step of the kernel is such a step: only the dead report an exit,  *)
(* and who reports a fork has a child.                                     *)
LEMMA KernelSteps ==
  ASSUME NEW p \in Procs, k \in [Procs -> KernelType],
         Issue(p) \/ Return(p) \/ Fork(p) \/ Signal(p) \/ Die(p)
  PROVE  KernelStep
<1>1. Reported(State) =>
        \A x \in Procs : /\ k[x].report = "EXITED" => k[x].pc = "dead"
                         /\ k[x].report = "FORK" => k[x].child \in Procs
  BY DEF Reported, State
<1>2. k[p] \in KernelType  OBVIOUS
<1>3. CASE Issue(p)
  <2> DEFINE kk == StopsAt(p, "enter", "syscall")
  <2>1. "enter" \in Places /\ "syscall" \in Events  BY DEF Places, Events
  <2>2. /\ kk \in [Procs -> KernelType] /\ kk[p] \in KernelType
        /\ kk[p].pc = "enter" /\ kk[p].report = "syscall"
        /\ \A x \in Procs : x # p => kk[x] = k[x]
    BY <2>1, StopsAtFacts
  <2> HIDE DEF kk
  <2>3. k[p].pc # "gone"  BY <1>3 DEF Issue
  <2>4. CASE k' = kk  BY <1>1, <2>2, <2>3, <2>4 DEF KernelStep
  <2>5. ASSUME NEW c \in Calls[p], k' = [kk EXCEPT ![p].call = c] PROVE KernelStep
    <3> DEFINE a == [kk[p] EXCEPT !.call = c]
    <3>1. c \in CallType  BY TraceesAssumption
    <3>2. a \in KernelType /\ a.pc = "enter" /\ a.report = "syscall"
      BY <2>2, <3>1 DEF KernelType
    <3>3. k' = [kk EXCEPT ![p] = a]  BY <2>5
    <3> HIDE DEF a
    <3>4. k' \in [Procs -> KernelType] /\ k'[p] = a /\ \A x \in Procs : x # p => k'[x] = kk[x]
      BY <2>2, <3>2, <3>3
    <3> QED BY <1>1, <2>2, <2>3, <3>2, <3>4 DEF KernelStep
  <2> QED BY <1>3, <2>4, <2>5 DEF Issue, kk
<1>4. CASE Return(p)
  <2>1. "exit" \in Places /\ "syscall" \in Events  BY DEF Places, Events
  <2>2. k' = StopsAt(p, "exit", "syscall") /\ k[p].pc # "gone"  BY <1>4 DEF Return
  <2> QED BY <1>1, <2>1, <2>2, StopsAtFacts DEF KernelStep
<1>5. CASE Fork(p)
  <2> DEFINE kk == StopsAt(p, "fork", "FORK")
  <2>1. "fork" \in Places /\ "FORK" \in Events  BY DEF Places, Events
  <2>2. /\ kk \in [Procs -> KernelType] /\ kk[p] \in KernelType
        /\ kk[p].pc = "fork" /\ kk[p].report = "FORK"
        /\ \A x \in Procs : x # p => kk[x] = k[x]
    BY <2>1, StopsAtFacts
  <2> HIDE DEF kk
  <2>3. k[p].pc = "inside"  BY <1>5 DEF Fork
  <2>4. PICK c \in Procs : /\ k[c].pc = "unborn"
                           /\ k' = [kk EXCEPT ![p].child = c,
                                      ![c] = [@ EXCEPT !.pc = "signal", !.report = "SIGSTOP"]]
    BY <1>5 DEF Fork, kk
  <2> DEFINE a == [kk[p] EXCEPT !.child = c]
             b == [kk[c] EXCEPT !.pc = "signal", !.report = "SIGSTOP"]
  <2>5. c # p  BY <2>3, <2>4
  <2>6. a \in KernelType /\ a.pc = "fork" /\ a.report = "FORK" /\ a.child = c
    BY <2>2 DEF KernelType
  <2>7. b \in KernelType /\ b.pc = "signal" /\ b.report = "SIGSTOP"
    BY <2>2 DEF KernelType, Places, Events
  <2>8. k' = [[kk EXCEPT ![p] = a] EXCEPT ![c] = b]  BY <2>4
  <2> HIDE DEF a, b
  <2>9. /\ k' \in [Procs -> KernelType] /\ k'[p] = a /\ k'[c] = b
        /\ \A x \in Procs : x # p /\ x # c => k'[x] = kk[x]
    BY <2>2, <2>5, <2>6, <2>7, <2>8
  <2> QED BY <1>1, <2>2, <2>3, <2>4, <2>6, <2>7, <2>9 DEF KernelStep
<1>6. CASE Signal(p)
  <2>1. "signal" \in Places /\ "signal" \in Events /\ "SIGSTOP" \in Events
    BY DEF Places, Events
  <2>2. k[p].pc # "gone"  BY <1>6 DEF Signal
  <2>3. CASE k' = StopsAt(p, "signal", "signal")
    BY <1>1, <2>1, <2>2, <2>3, StopsAtFacts DEF KernelStep
  <2>4. CASE k' = [StopsAt(p, "signal", "SIGSTOP") EXCEPT ![p].stop = FALSE]
    <3> DEFINE kk == StopsAt(p, "signal", "SIGSTOP")
               a == [kk[p] EXCEPT !.stop = FALSE]
    <3>1. /\ kk \in [Procs -> KernelType] /\ kk[p] \in KernelType
          /\ kk[p].pc = "signal" /\ kk[p].report = "SIGSTOP"
          /\ \A x \in Procs : x # p => kk[x] = k[x]
      BY <2>1, StopsAtFacts
    <3>2. k' = [kk EXCEPT ![p] = a]  BY <2>4
    <3> HIDE DEF kk
    <3>3. a \in KernelType /\ a.pc = "signal" /\ a.report = "SIGSTOP"
      BY <3>1 DEF KernelType
    <3> HIDE DEF a
    <3>4. k' \in [Procs -> KernelType] /\ k'[p] = a /\ \A x \in Procs : x # p => k'[x] = kk[x]
      BY <3>1, <3>2, <3>3
    <3> QED BY <1>1, <2>2, <3>1, <3>3, <3>4 DEF KernelStep
  <2> QED BY <1>6, <2>3, <2>4 DEF Signal
<1>7. CASE Die(p)
  <2> DEFINE a == [Unborn EXCEPT !.pc = "dead", !.report = "EXITED"]
  <2>1. a \in KernelType /\ a.pc = "dead" /\ a.report = "EXITED"
    BY DEF Unborn, KernelType, Places, Events
  <2>2. k' = [k EXCEPT ![p] = a] /\ k[p].pc # "gone"  BY <1>7 DEF Die, Alive
  <2> HIDE DEF a
  <2>3. k' \in [Procs -> KernelType] /\ k'[p] = a /\ \A x \in Procs : x # p => k'[x] = k[x]
    BY <2>1, <2>2
  <2> QED BY <1>1, <2>1, <2>2, <2>3 DEF KernelStep
<1> QED BY <1>3, <1>4, <1>5, <1>6, <1>7

(* The invariant, of the variables.                                        *)
LEMMA StateParts ==
  ASSUME OkInv
  PROVE  /\ State \in StateType /\ t \in [Procs -> TraceeType] /\ k \in [Procs -> KernelType]
         /\ State.t = t /\ State.k = k /\ State.failed = failed
         /\ failed = "none" => Agree(State)
<1>1. State \in StateType  BY DEF OkInv, Ok
<1>2. State.t = t /\ State.k = k /\ State.failed = failed  BY DEF State
<1>3. t \in [Procs -> TraceeType] /\ k \in [Procs -> KernelType]
  <2> HIDE DEF State
  <2> QED BY <1>1, <1>2 DEF StateType
<1>4. failed = "none" => Agree(State)  BY <1>2 DEF OkInv, Ok
<1> QED BY <1>1, <1>2, <1>3, <1>4

(* The report is taken, and the tracee listed if it was not.               *)
LEMMA TakenFine ==
  ASSUME NEW S, Ok(S), NEW p \in Procs, S.failed = "none"
  PROVE  LET tp == IF S.t[p].listed THEN S.t[p] ELSE NewTracee
             R == [t |-> [S.t EXCEPT ![p] = [tp EXCEPT !.running = FALSE]],
                   k |-> [S.k EXCEPT ![p].report = "none"], failed |-> S.failed]
         IN  /\ Ok(R) /\ R.t[p].listed /\ R.k[p].report = "none"
             /\ R.k[p].pc = S.k[p].pc /\ R.k[p].child = S.k[p].child
<1> DEFINE tp == IF S.t[p].listed THEN S.t[p] ELSE NewTracee
           r == [tp EXCEPT !.running = FALSE]
           a == [S.k[p] EXCEPT !.report = "none"]
           kk == [S.k EXCEPT ![p] = a]
           K == [t |-> S.t, k |-> kk, failed |-> S.failed]
           R == [t |-> [S.t EXCEPT ![p] = r], k |-> kk, failed |-> S.failed]
<1>1. S \in StateType /\ S.t[p] \in TraceeType /\ S.k[p] \in KernelType /\ Agree(S)
  BY StateFacts DEF Ok
<1>2. /\ a \in KernelType /\ a.report = "none"
      /\ a.pc = S.k[p].pc /\ a.child = S.k[p].child
  BY <1>1 DEF KernelType, Events
<1>3. tp \in TraceeType /\ tp.listed  BY <1>1, NewTraceeFacts
<1> HIDE DEF a
<1>4. /\ kk \in [Procs -> KernelType] /\ kk[p] = a
      /\ \A x \in Procs : x # p => kk[x] = S.k[x]
  BY <1>1, <1>2 DEF StateType
<1> HIDE DEF kk
<1>5. Ok(K)  BY <1>1, <1>2, <1>4, KernelOk DEF Agree, Reported
<1>6. K.t = S.t /\ K.k = kk /\ R = [K EXCEPT !.t[p] = r] /\ K \in StateType
  <2> HIDE DEF r
  <2> QED BY <1>5 DEF Ok
<1> HIDE DEF K
<1>7. CASE S.t[p].listed
  <2>1. tp = S.t[p]  BY <1>7
  <2> HIDE DEF tp
  <2>2. r \in TraceeType /\ r.listed /\ SameLinks(K.t[p], r)
    BY <1>3, <1>6, <2>1 DEF TraceeType, SameLinks
  <2> HIDE DEF r
  <2>3. Quiet(K, R)  BY <1>6, <2>2, SetTQuiet
  <2>4. Ok(R)  BY <1>5, <2>3, QuietFine DEF Fine
  <2>5. [S.t EXCEPT ![p] = r][p] = r  BY <1>1 DEF StateType
  <2> QED BY <1>2, <1>4, <2>2, <2>4, <2>5 DEF r, tp, kk, a
<1>8. CASE ~S.t[p].listed
  <2>1. tp = NewTracee  BY <1>8
  <2> HIDE DEF tp
  <2>2. /\ r \in TraceeType /\ r.listed /\ r.parent = NULL /\ r.as_ptracee.ptracer = NULL
        /\ r.nb_ptracees = 0 /\ r.zombies = {}
    BY <2>1, NewTraceeFacts DEF TraceeType
  <2> HIDE DEF r
  <2>3. Ok(R)  BY <1>5, <1>6, <1>8, <2>2, ListFine DEF Fine
  <2>4. [S.t EXCEPT ![p] = r][p] = r  BY <1>1 DEF StateType
  <2> QED BY <1>2, <1>4, <2>2, <2>3, <2>4 DEF r, tp, kk, a
<1> QED BY <1>7, <1>8

(* An iteration of the event loop: the report is taken, given to the       *)
(* ptracer or handled, the tracee restarted or removed.                    *)
LEMMA ReportOk ==
  ASSUME OkInv, NEW p \in Procs, HandleReport(p)
  PROVE  \E R : Ok(R) /\ t' = R.t /\ k' = R.k /\ failed' = R.failed
<1> DEFINE event == k[p].report
           tp == IF t[p].listed THEN t[p] ELSE NewTracee
           S == [t |-> [t EXCEPT ![p] = [tp EXCEPT !.running = FALSE]],
                 k |-> [k EXCEPT ![p].report = "none"], failed |-> failed]
           outcomes == IF Tracer(S, p) = NULL THEN {[s |-> S, keep |-> FALSE]}
                       ELSE handle_ptracee_event(S, p, event)
           next(n, o) == IF Blocks(o.s, p, event) THEN n ELSE restart_tracee(n, p)
<1>1. /\ failed = "none"
      /\ \E o \in outcomes :
           IF o.keep THEN Commit(o.s)
           ELSE \E n \in handle_tracee_event(o.s, p, event) :
                  Commit(IF event = "EXITED" THEN remove_tracee(next(n, o), p) ELSE next(n, o))
  BY DEF HandleReport
<1>2. /\ State \in StateType /\ k \in [Procs -> KernelType]
      /\ State.t = t /\ State.k = k /\ State.failed = failed /\ Agree(State) /\ Ok(State)
  BY <1>1, StateParts DEF OkInv
<1>3. event \in Events  BY <1>2 DEF KernelType
<1>4. /\ event = "EXITED" => k[p].pc = "dead"
      /\ event = "FORK" => k[p].child \in Procs
  BY <1>2 DEF Agree, Reported
<1>5. /\ Ok(S) /\ S.t[p].listed /\ S.k[p].report = "none"
      /\ S.k[p].pc = k[p].pc /\ S.k[p].child = k[p].child
  <2> HIDE DEF State
  <2> QED BY <1>1, <1>2, TakenFine
<1> HIDE DEF S, tp, event
<1>6. ASSUME NEW o \in outcomes PROVE Fine(S, o.s)
  <2>1. CASE Tracer(S, p) = NULL  BY <1>5, <2>1, FineRefl
  <2>2. CASE Tracer(S, p) # NULL  BY <1>3, <1>4, <1>5, <2>2, HandlePtraceeFine
  <2> QED BY <2>1, <2>2
<1> HIDE DEF outcomes
<1>7. ASSUME NEW o \in outcomes, NEW n \in handle_tracee_event(o.s, p, event)
      PROVE  Ok(IF event = "EXITED" THEN remove_tracee(next(n, o), p) ELSE next(n, o))
  <2>1. Ok(o.s) /\ o.s.t[p].listed /\ o.s.k[p].child = k[p].child
    BY <1>5, <1>6 DEF Fine, Keeps, SameEnd
  <2>2. Fine(o.s, n)  BY <1>4, <2>1, HandleTraceeFine
  <2>3. Fine(o.s, next(n, o))  BY <2>2, RestartQuiet, FineStep DEF Fine, Ok
  <2> HIDE DEF next
  <2>4. Fine(S, next(n, o))  BY <1>6, <2>3, FineTrans
  <2>5. /\ Ok(next(n, o)) /\ next(n, o).t[p].listed /\ next(n, o).k[p].report = "none"
        /\ event = "EXITED" => next(n, o).k[p].pc = "dead"
    BY <1>4, <1>5, <2>4 DEF Fine, Keeps, SameEnd
  <2> QED BY <2>5, RemoveOk
<1> HIDE DEF next
<1> QED BY <1>1, <1>6, <1>7 DEF Commit, Fine

(* The invariant is inductive.                                             *)
LEMMA OkStep == OkInv /\ [Next]_vars => OkInv'
<1> SUFFICES ASSUME OkInv, [Next]_vars PROVE OkInv'
  OBVIOUS
<1>1. /\ State \in StateType /\ k \in [Procs -> KernelType]
      /\ State.t = t /\ State.k = k /\ State.failed = failed
      /\ failed = "none" => Agree(State)
  BY StateParts
<1>2. ASSUME NEW R, Ok(R), t' = R.t, k' = R.k, failed' = R.failed PROVE OkInv'
  <2>1. R = [t |-> R.t, k |-> R.k, failed |-> R.failed]  BY <1>2 DEF Ok, StateType
  <2>2. State' = R  BY <1>2, <2>1 DEF State
  <2> QED BY <1>2, <2>2 DEF OkInv
<1>3. ASSUME KernelStep, t' = t, failed' = failed PROVE OkInv'
  <2> DEFINE kk == k'
  <2>1. Ok([t |-> State.t, k |-> kk, failed |-> State.failed])
    <3> HIDE DEF State
    <3> QED BY <1>1, <1>3, KernelOk DEF KernelStep, OkInv, Agree
  <2>2. State' = [t |-> State.t, k |-> kk, failed |-> State.failed]
    BY <1>1, <1>3 DEF State
  <2> QED BY <2>1, <2>2 DEF OkInv
<1>4. CASE UNCHANGED vars
  BY <1>4 DEF OkInv, State, vars
<1>5. ASSUME NEW p \in Procs, Issue(p) \/ Return(p) \/ Fork(p) \/ Signal(p) \/ Die(p)
      PROVE  OkInv'
  <2>1. t' = t /\ failed' = failed
    BY <1>5 DEF Issue, Return, Fork, Signal, Die, Unchanged
  <2>2. KernelStep  BY <1>1, <1>5, KernelSteps
  <2> QED BY <1>3, <2>1, <2>2
<1>6. ASSUME NEW p \in Procs, HandleReport(p) PROVE OkInv'
  BY <1>2, <1>6, ReportOk
<1> QED BY <1>4, <1>5, <1>6 DEF Next

(* Every record PRoot and the kernel keep has its type and, while no       *)
(* assertion of PRoot has failed, the records agree: OkInv holds in every  *)
(* reachable state of the loop of tracee/event.c.                          *)
THEOREM OkAlways == Spec => []OkInv
<1>1. Init => OkInv  BY InitOk
<1>2. OkInv /\ [Next]_vars => OkInv'  BY OkStep
<1> QED BY <1>1, <1>2, PTL DEF Spec

(* The counter a ptracer's wait relies on is the number of its ptracees    *)
(* and zombies (attach_to_ptracer, detach_from_ptracer, remove_tracee and  *)
(* the waits that collect), and no record refers to a tracee that was      *)
(* freed, for any number of processes.                                     *)
THEOREM LinksAgreeAlways == Spec => []LinksAgree
<1>1. OkInv => LinksAgree
  <2> SUFFICES ASSUME OkInv, failed = "none"
               PROVE  LinksAgree
    BY DEF LinksAgree, CountsAgree, NoDanglingLinks
  <2>1. State.t = t /\ Agree(State)  BY StateParts
  <2> HIDE DEF State
  <2>2. CountsAgree  BY <2>1 DEF CountsAgree, Agree, Counted
  <2>3. NoDanglingLinks  BY <2>1 DEF NoDanglingLinks, Agree, Linked
  <2> QED BY <2>2, <2>3 DEF LinksAgree
<1> QED BY <1>1, OkAlways, PTL
=============================================================================
