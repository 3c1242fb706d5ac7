--------------------------------- MODULE Jit ---------------------------------
(***************************************************************************)
(* jit/shm.c and jit/jit_lib.c: a cache of translated paths in memory that *)
(* PRoot shares with its tracees.  PRoot writes an entry under a sequence  *)
(* lock; the library preloaded in a tracee looks a path up before each     *)
(* open, stat, access or readlink, without a system call.                  *)
(*                                                                         *)
(* An entry is written and copied field by field: active, the guest path   *)
(* (with its hash) and the host path.  On x86 (Weak = FALSE) the accesses  *)
(* happen in program order.  On ARM64 a sequentially consistent store      *)
(* orders what comes before it, and such a load what comes after it, and   *)
(* no more: the plain stores of an entry may be seen before the lock is    *)
(* odd, and the plain loads be done after its second load.                 *)
(***************************************************************************)
EXTENDS Naturals, FiniteSets

CONSTANTS Guests, Hosts,
          Tracees,
          Entries,         \* JIT_SHM_ENTRIES
          MaxRetries,      \* 10 in the code
          MaxWrites,
          SeqMod,          \* the lock counts modulo 2^32
          Weak

VARIABLES idx,        \* hash % JIT_SHM_ENTRIES of each path
          seqlock, entries,
          pending,    \* the stores PRoot has not done yet, in order
          writing,    \* the call PRoot is in
          looking,    \* the lookup of each tracee
          current,    \* history: what the cache holds, as the writer's calls return
          writes
vars == <<idx, seqlock, entries, pending, writing, looking, current, writes>>

None == "none"

Idle == [at |-> "idle", guest |-> None, seq1 |-> 0, seq2 |-> SeqMod, left |-> {}, retries |-> 0,
         copy |-> [guest |-> None, host |-> None, active |-> FALSE], seen |-> {}]
Empty == [guest |-> None, host |-> None, active |-> FALSE]
NoCall == [do |-> None, slot |-> 0, entry |-> Empty]

(* jit_shm_init                                                            *)
Init ==
  /\ idx \in [Guests -> Entries] /\ seqlock = 0 /\ entries = [i \in Entries |-> Empty]
  /\ pending = {} /\ writing = NoCall /\ looking = [t \in Tracees |-> Idle]
  /\ current = [i \in Entries |-> Empty] /\ writes = 0

-----------------------------------------------------------------------------
(* jit_shm_insert and jit_shm_clear: the lock is made odd, the fields of   *)
(* the entry, or the flag of every entry, are stored, the lock is made     *)
(* even again.                                                             *)
Begins(call, stores) ==
  /\ writing = NoCall /\ writes < MaxWrites /\ writes' = writes + 1
  /\ writing' = call /\ pending' = {"odd"} \cup stores
  /\ UNCHANGED <<idx, seqlock, entries, looking, current>>

jit_shm_insert(g, h) ==
  Begins([do |-> "insert", slot |-> idx[g], entry |-> [guest |-> g, host |-> h, active |-> TRUE]],
         {"guest", "host", "active"})
jit_shm_clear == Begins([NoCall EXCEPT !.do = "clear"], {"active"})

Earlier(f) == CASE f = "odd" -> {} [] f = "guest" -> {"odd"}
                [] f = "host" -> {"odd", "guest"} [] f = "active" -> {"odd", "guest", "host"}
InOrder(f) == Weak \/ pending \cap Earlier(f) = {}

Stored(f) ==
  IF writing.do = "clear" THEN [i \in Entries |-> [entries[i] EXCEPT !.active = FALSE]]
  ELSE [entries EXCEPT ![writing.slot][f] = writing.entry[f]]
Store(f) ==
  /\ f \in pending /\ InOrder(f) /\ pending' = pending \ {f}
  /\ IF f = "odd" THEN seqlock' = (seqlock + 1) % SeqMod /\ UNCHANGED entries
     ELSE entries' = Stored(f) /\ UNCHANGED seqlock
  /\ UNCHANGED <<idx, writing, looking, current, writes>>

(* The store of v + 2 comes after every other store of the call.  What     *)
(* the cache now holds is what lookups under way may return too.           *)
Effect == IF writing.do = "clear" THEN [i \in Entries |-> [current[i] EXCEPT !.active = FALSE]]
          ELSE [current EXCEPT ![writing.slot] = writing.entry]
Holds(now, g) == IF now[idx[g]].active /\ now[idx[g]].guest = g THEN {now[idx[g]].host} ELSE {}
Ends ==
  /\ writing # NoCall /\ pending = {} /\ seqlock' = (seqlock + 1) % SeqMod
  /\ writing' = NoCall /\ current' = Effect
  /\ looking' = [t \in Tracees |->
       IF looking[t].guest = None THEN looking[t]
       ELSE [looking[t] EXCEPT !.seen = @ \cup Holds(Effect, looking[t].guest)]]
  /\ UNCHANGED <<idx, entries, pending, writes>>

-----------------------------------------------------------------------------
(* local_jit_shm_lookup, called by the hooks of the library for an         *)
(* absolute path.                                                          *)
Looks(t, r) == looking' = [looking EXCEPT ![t] = r]
                /\ UNCHANGED <<idx, seqlock, entries, pending, writing, current, writes>>

Hook(t, g) ==
  /\ looking[t].at \in {"idle", "hit", "miss"}
  /\ Looks(t, [Idle EXCEPT !.at = "seq1", !.guest = g, !.seen = Holds(current, g)])

Retry(t) ==
  IF looking[t].retries > MaxRetries THEN [Idle EXCEPT !.at = "miss"]
  ELSE [looking[t] EXCEPT !.at = "seq1", !.retries = @ + 1]

LoadSeq1(t) ==
  /\ looking[t].at = "seq1"
  /\ Looks(t, IF seqlock % 2 = 1 THEN Retry(t)
              ELSE [looking[t] EXCEPT !.at = "copy", !.seq1 = seqlock,
                                      !.left = {"guest", "host", "active", "seq2"}])

LaterLoads(f) == CASE f = "guest" -> {} [] f = "host" -> {"guest"}
                   [] f = "active" -> {"guest", "host"} [] f = "seq2" -> {"guest", "host", "active"}
Load(t, f) ==
  /\ looking[t].at = "copy" /\ f \in looking[t].left
  /\ Weak \/ looking[t].left \cap LaterLoads(f) = {}
  /\ Looks(t, IF f = "seq2" THEN [looking[t] EXCEPT !.left = @ \ {f}, !.seq2 = seqlock]
              ELSE [looking[t] EXCEPT !.left = @ \ {f},
                                      !.copy[f] = entries[idx[looking[t].guest]][f]])

TrustsCopy(t) == TRUE
Unchanged(t) == looking[t].seq1 = looking[t].seq2

(* The copy counts if the lock did not move; the hook then passes the host *)
(* path to the kernel, or else the path as it was given.                   *)
Compare(t) ==
  /\ looking[t].at = "copy" /\ looking[t].left = {}
  /\ LET copy == looking[t].copy
         hit == copy.active /\ copy.guest = looking[t].guest
     IN  Looks(t, IF ~Unchanged(t) THEN [Retry(t) EXCEPT !.copy = Empty]
                  ELSE IF hit THEN [looking[t] EXCEPT !.at = "hit"]
                  ELSE [Idle EXCEPT !.at = "miss"])

Next ==
  \/ \E g \in Guests, h \in Hosts : jit_shm_insert(g, h)
  \/ jit_shm_clear \/ \E f \in {"odd", "guest", "host", "active"} : Store(f)
  \/ Ends
  \/ \E t \in Tracees : \/ \E g \in Guests : Hook(t, g)
                        \/ LoadSeq1(t) \/ Compare(t)
                        \/ \E f \in {"guest", "host", "active", "seq2"} : Load(t, f)
Spec == Init /\ [][Next]_vars

-----------------------------------------------------------------------------
(* A hit gives a host path the cache held for this guest path at some time *)
(* since the lookup began: never the path of another entry, a mixture of   *)
(* two writes, or one that was cleared before.                             *)
HitIsCurrent ==
  \A t \in Tracees : looking[t].at = "hit" => looking[t].copy.host \in looking[t].seen
=============================================================================
