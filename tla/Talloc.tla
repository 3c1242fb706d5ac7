-------------------------------- MODULE Talloc --------------------------------
(***************************************************************************)
(* lib/talloc/talloc.c, on which the lifetime of every object of PRoot     *)
(* rests: a chunk belongs to one parent, and lives on while a reference to *)
(* it does.  A reference is itself a chunk (a handle), child of the        *)
(* context it was made for, with a destructor that takes it off the list.  *)
(*                                                                         *)
(* The memory is one record m of functions of the chunks; the operators    *)
(* take and return it.  Only the first child of a list stores its parent   *)
(* in the code: up[c] is what talloc_parent_chunk finds.  A free runs step *)
(* by step, with the pending calls in calls.                               *)
(***************************************************************************)
EXTENDS Naturals, Sequences, SequencesExt, FiniteSets

CONSTANTS Chunks,        \* the chunks there can be
          PoolSize,      \* units of memory in a pool; a chunk takes 1 or 2
          MaxDestructors, MaxCalls,
          Cycles         \* chunks may keep each other alive in a circle

VARIABLES m, calls, ret,
          done,          \* the calls made so far
          before         \* history: the memory before a free, and who lets go of what
vars == <<m, calls, ret, done, before>>

NULL == "NULL"           \* null_context: always there, the order of its children plays no role
Nothing == [asked |-> {}]

(* st: unallocated, used, or freed with its memory still inside a pool.    *)
Init ==
  /\ m = [st |-> [c \in Chunks |-> "none"], up |-> [c \in Chunks |-> NULL],
          kids |-> [c \in Chunks |-> <<>>], refs |-> [c \in Chunks |-> <<>>],
          to |-> [c \in Chunks |-> NULL], dtor |-> [c \in Chunks |-> "none"],
          loop |-> {}, pool |-> [c \in Chunks |-> NULL],
          size |-> [c \in Chunks |-> 0], count |-> [c \in Chunks |-> 0],
          end |-> [c \in Chunks |-> 0], at |-> [c \in Chunks |-> 0]]
  /\ calls = <<>> /\ ret = 0 /\ done = 0 /\ before = Nothing

Used == {c \in Chunks : m.st[c] = "used"}
Handles == {c \in Used : m.to[c] # NULL}
Objects == Used \ Handles
IsPool(s, c) == s.st[c] # "none" /\ s.size[c] = 0

(* _talloc_is_parent: c or one of its ancestors is p.                      *)
Ancestors(s, c) ==
  LET up[n \in 0..Cardinality(Chunks)] ==
        IF n = 0 THEN {c}
        ELSE up[n - 1] \cup ({s.up[d] : d \in up[n - 1]} \ {NULL})
  IN  up[Cardinality(Chunks)]
talloc_is_parent(s, c, p) == p \in Ancestors(s, c)

(* Who keeps c alive, at once or through others: parents, and the contexts *)
(* references were made for.                                               *)
KeptBy(s, d) == ({s.up[d]} \cup {s.up[h] : h \in ToSet(s.refs[d])}) \ {NULL}
Keepers(s, c) ==
  LET up[n \in 0..Cardinality(Chunks)] ==
        IF n = 0 THEN KeptBy(s, c) ELSE up[n - 1] \cup UNION {KeptBy(s, d) : d \in up[n - 1]}
  IN  up[Cardinality(Chunks)]
NoCircle(s, c) == Cycles \/ c \notin Keepers(s, c)

-----------------------------------------------------------------------------
(* The lists of children.  A chunk that is taken off keeps its parent      *)
(* pointer if it was the first child: nothing else stores it.              *)
UnlinkedChunk(s, c) ==
  IF s.up[c] = NULL THEN s
  ELSE [s EXCEPT !.kids[s.up[c]] = Remove(@, c),
                 !.up[c] = IF Head(s.kids[@]) = c THEN @ ELSE NULL]
LinkedChunk(s, c, p) ==
  IF p = NULL THEN [s EXCEPT !.up[c] = NULL]
  ELSE [s EXCEPT !.kids[p] = <<c>> \o @, !.up[c] = p]

_talloc_steal_internal(s, new, c) ==
  IF new = c \/ (new # NULL /\ s.up[c] = new /\ c \in ToSet(s.kids[new]) /\ Head(s.kids[new]) = c)
  THEN s
  ELSE LinkedChunk(UnlinkedChunk(s, c), c, new)

(* tc_alloc_pool: from the pool of the parent, if there is room.           *)
PoolOf(s, p) == IF p = NULL THEN NULL ELSE IF IsPool(s, p) THEN p ELSE s.pool[p]
RoomIn(s, q, n) == q # NULL /\ s.end[q] + n <= PoolSize
InPool(s, c, q) ==
  [s EXCEPT !.pool[c] = q, !.at[c] = s.end[q], !.end[q] = @ + s.size[c], !.count[q] = @ + 1]
IsLast(s, c) == s.at[c] + s.size[c] = s.end[s.pool[c]]

(* __talloc_with_prefix, _talloc_named_const.                              *)
__talloc(s, c, p, n) ==
  LET new == [s EXCEPT !.st[c] = "used", !.size[c] = n, !.dtor[c] = "none",
                       !.to[c] = NULL, !.refs[c] = <<>>, !.kids[c] = <<>>,
                       !.pool[c] = NULL, !.loop = @ \ {c}]
      q == PoolOf(s, p)
  IN  LinkedChunk(IF RoomIn(s, q, n) THEN InPool(new, c, q) ELSE new, c, p)

(* Memory that free(3) got: nothing is kept of it.                         *)
Gone(s, c) ==
  [s EXCEPT !.st[c] = "none", !.up[c] = NULL, !.dtor[c] = "none", !.size[c] = 0,
            !.pool[c] = NULL, !.count[c] = 0, !.end[c] = 0, !.at[c] = 0, !.loop = @ \ {c}]

(* _tc_free_poolmem and the end of _tc_free_internal: the memory of c goes *)
(* back to the pool it is in, a pool's when nothing is left inside it.     *)
FreePoolMem(s, c) ==
  LET q == s.pool[c]
      left == s.count[q] - 1
      freed == [s EXCEPT !.pool[c] = NULL, !.count[q] = left]
  IN  IF left = 1 /\ s.st[q] = "used" THEN [freed EXCEPT !.end[q] = 0]
      ELSE IF left = 0 THEN Gone(freed, q)
      ELSE IF IsLast(s, c) THEN [freed EXCEPT !.end[q] = s.at[c]]
      ELSE freed
KeepPool(s, c) ==
  LET left == s.count[c] - 1
  IN  IF left = 0 THEN Gone(s, c) ELSE [s EXCEPT !.count[c] = left, !.st[c] = "freed"]
FreeMemory(s, c) ==
  IF IsPool(s, c) THEN KeepPool(s, c)
  ELSE IF s.pool[c] # NULL THEN Gone(FreePoolMem(s, c), c)
  ELSE Gone(s, c)

LeftOnTheList(s, h) ==
  FreeMemory([UnlinkedChunk(s, h) EXCEPT !.to[h] = NULL], h)

(* A handle has no children and its destructor never refuses:              *)
(* talloc_reference_destructor and the rest of its free in one step.       *)
FreeHandle(s, h) ==
  LET t == s.to[h]
      off == UnlinkedChunk([s EXCEPT !.refs[t] = Remove(@, h), !.to[h] = NULL], h)
  IN  FreeMemory(off, h)

(* talloc_unreference: the first reference made for the context.           *)
HandlesOf(s, ctx, c) == SelectSeq(s.refs[c], LAMBDA h : s.up[h] = ctx)

-----------------------------------------------------------------------------
(* _tc_free_internal and _tc_free_children_internal, call by call.         *)
Call(at, c, child, new) == [at |-> at, chunk |-> c, child |-> child, new |-> new]
Free(c) == <<Call("free", c, NULL, NULL)>>
Top == Head(calls)
Return(v) ==
  /\ calls' = Tail(calls) /\ ret' = v
  /\ before' = IF Len(calls) = 1 THEN Nothing ELSE before

FreeAnyway ==
  /\ Top.at = "free" /\ m.refs[Top.chunk] # <<>>
  /\ m' = FreeHandle(m, Head(m.refs[Top.chunk])) /\ UNCHANGED <<calls, ret, before>>

(* A reference goes first; the chunk is tried again if it came from below. *)
FreeReferenced ==
  /\ Top.at = "free" /\ m.refs[Top.chunk] # <<>>
  /\ LET h == Head(m.refs[Top.chunk])
     IN  /\ m' = FreeHandle(m, h)
         /\ IF talloc_is_parent(m, h, Top.chunk) THEN UNCHANGED <<calls, ret, before>> ELSE Return(-1)

FreeLoop ==
  /\ Top.at = "free" /\ m.refs[Top.chunk] = <<>> /\ Top.chunk \in m.loop
  /\ Return(0) /\ UNCHANGED m

(* The destructor: it may refuse, or free the parent of its chunk first.   *)
(* It is not entered twice.                                                *)
Freeable(c) == Top.at = "free" /\ Top.chunk = c /\ m.refs[c] = <<>> /\ c \notin m.loop
Refused ==
  /\ Freeable(Top.chunk) /\ m.dtor[Top.chunk] \in {"refuses", "busy"}
  /\ Return(-1) /\ UNCHANGED m
Destructor ==
  /\ Freeable(Top.chunk) /\ m.dtor[Top.chunk] = "frees"
  /\ LET p == m.up[Top.chunk]
         after == [calls EXCEPT ![1].at = "destroyed"]
     IN  /\ m' = [m EXCEPT !.dtor[Top.chunk] = "busy"]
         /\ calls' = IF p # NULL /\ m.refs[p] = <<>> THEN Free(p) \o after ELSE after
         /\ before' = IF p # NULL /\ m.refs[p] = <<>>
                      THEN [before EXCEPT !.asked = @ \cup {<<m.up[p], p>>}] ELSE before
  /\ UNCHANGED ret

FreeChildren ==
  /\ Top.at = "destroyed" \/ (Freeable(Top.chunk) /\ m.dtor[Top.chunk] = "none")
  /\ m' = [UnlinkedChunk([m EXCEPT !.dtor[Top.chunk] = "none"], Top.chunk)
             EXCEPT !.loop = @ \cup {Top.chunk}]
  /\ calls' = [calls EXCEPT ![1].at = "children"] /\ UNCHANGED <<ret, before>>

(* The owner of an abandoned child: who holds a reference to it.           *)
HeirOf(s, child) == IF s.refs[child] = <<>> THEN NULL ELSE s.up[Head(s.refs[child])]
FreeChild ==
  /\ Top.at = "children" /\ m.kids[Top.chunk] # <<>>
  /\ LET child == Head(m.kids[Top.chunk])
     IN  IF child \in Handles
         THEN m' = FreeHandle(m, child) /\ UNCHANGED calls
         ELSE /\ calls' = Free(child) \o <<Call("child", Top.chunk, child, HeirOf(m, child))>>
                           \o Tail(calls)
              /\ UNCHANGED m
  /\ UNCHANGED <<ret, before>>

(* The child was not freed and is still here: the heir takes it, or what   *)
(* the chunk still knows as its own parent.                                *)
AfterChild ==
  /\ Top.at = "child"
  /\ m' = IF ret = 0 \/ m.up[Top.child] # Top.chunk THEN m
          ELSE _talloc_steal_internal(m, IF Top.new = NULL THEN m.up[Top.chunk] ELSE Top.new, Top.child)
  /\ calls' = [calls EXCEPT ![1] = Call("children", Top.chunk, NULL, NULL)]
  /\ UNCHANGED <<ret, before>>

FreedChildren ==
  /\ Top.at = "children" /\ m.kids[Top.chunk] = <<>>
  /\ m' = IF Top.chunk \in m.loop
          THEN FreeMemory([m EXCEPT !.up[Top.chunk] = NULL, !.loop = @ \ {Top.chunk}], Top.chunk)
          ELSE m                                  \* talloc_free_children
  /\ Return(0)

Step == calls # <<>> /\ UNCHANGED done /\ (\/ FreeReferenced \/ FreeLoop \/ Refused \/ Destructor
                         \/ FreeChildren
                         \/ FreeChild \/ AfterChild \/ FreedChildren)

-----------------------------------------------------------------------------
(* What the program calls.  A new chunk is any chunk that is not in use.   *)
Does(s) == m' = s /\ UNCHANGED <<calls, ret, before>>
Calls(cs, letGo) ==
  calls' = cs /\ ret' = 0 /\ before' = [m |-> m, asked |-> letGo] /\ UNCHANGED m
NewChunk == CHOOSE c \in Chunks : m.st[c] = "none"
CanAlloc == \E c \in Chunks : m.st[c] = "none"

talloc_size(p, n) == CanAlloc /\ Does(__talloc(m, NewChunk, p, n))

(* _talloc_pool: one pool at a time, so none is inside another.            *)
talloc_pool(p) ==
  /\ CanAlloc /\ \A c \in Chunks : ~IsPool(m, c)
  /\ Does([__talloc(m, NewChunk, p, 0) EXCEPT !.count[NewChunk] = 1, !.end[NewChunk] = 0])

_talloc_reference_loc(ctx, c) ==
  /\ CanAlloc
  /\ Does([__talloc(m, NewChunk, ctx, 1) EXCEPT !.to[NewChunk] = c,
                                               !.refs[c] = <<NewChunk>> \o @])
  /\ NoCircle(m', c)

_talloc_set_destructor(c, d) ==
  /\ m.dtor[c] # d /\ Cardinality({b \in Chunks \ {c} : m.dtor[b] # "none"}) < MaxDestructors
  /\ Does([m EXCEPT !.dtor[c] = d])

(* talloc_unlink                                                           *)
talloc_unlink(ctx, c) ==
  LET mine == HandlesOf(m, ctx, c)
      h == Head(m.refs[c])
      heir == m.up[h]
      first == Head(HandlesOf(m, heir, c))
  IN  IF mine # <<>> THEN Does(FreeHandle(m, Head(mine)))
      ELSE /\ m.up[c] = ctx
           /\ IF m.refs[c] = <<>> THEN Calls(Free(c), {<<ctx, c>>})
              ELSE Does(_talloc_steal_internal(FreeHandle(m, first), heir, c))

(* _talloc_free: refused while there are references, but for the one case  *)
(* where the only reference can become the parent.                         *)
_talloc_free(c) ==
  IF m.refs[c] = <<>> THEN Calls(Free(c), {<<m.up[c], c>>})
  ELSE m.up[c] = NULL /\ Len(m.refs[c]) = 1 /\ talloc_unlink(NULL, c)

talloc_free_children(c) ==
  /\ m.kids[c] # <<>>
  /\ Calls(<<Call("children", c, NULL, NULL)>>, 
           {<<c, IF k \in Handles THEN m.to[k] ELSE k>> : k \in ToSet(m.kids[c])})

(* Stealing a chunk into its own descendant is the caller's mistake.       *)
_talloc_steal_loc(new, c) ==
  /\ new # NULL => ~talloc_is_parent(m, new, c)
  /\ m.up[c] # new /\ Does(_talloc_steal_internal(m, new, c)) /\ NoCircle(m', c)

(* talloc_reparent: the parent is given, or the context of a reference.    *)
talloc_reparent(old, new, c) ==
  /\ old # new /\ (new # NULL => ~talloc_is_parent(m, new, c))
  /\ IF m.up[c] = old THEN Does(_talloc_steal_internal(m, new, c))
     ELSE LET mine == HandlesOf(m, old, c)
          IN  mine # <<>> /\ Does(_talloc_steal_internal(m, new, Head(mine)))
  /\ NoCircle(m', c)

(* _talloc_realloc to another size: refused for a referenced chunk and a   *)
(* pool.  Inside a pool the last chunk, or the only one, changes in place; *)
(* another is copied, to the pool or out of it.                            *)
_talloc_realloc(c, n) ==
  /\ m.refs[c] = <<>> /\ ~IsPool(m, c) /\ m.size[c] # n
  /\ LET q == m.pool[c]
         others == m.count[q] - IF m.st[q] = "used" THEN 2 ELSE 1
         resized == [m EXCEPT !.size[c] = n]
         inPlace == [resized EXCEPT !.end[q] = m.at[c] + n]
         fits == m.at[c] + n <= PoolSize
     IN  IF q = NULL THEN Does(resized)
         ELSE IF n < m.size[c] THEN Does(IF IsLast(m, c) THEN inPlace ELSE resized)
         ELSE IF others = 0 /\ n <= PoolSize
         THEN Does([resized EXCEPT !.at[c] = 0, !.end[q] = n])
         ELSE IF others > 0 /\ IsLast(m, c) /\ fits THEN Does(inPlace)
         ELSE IF RoomIn(m, q, n) THEN Does([InPool(resized, c, q) EXCEPT !.count[q] = @ - 1])
         ELSE Does([FreePoolMem(m, c) EXCEPT !.size[c] = n, !.at[c] = 0])

Next ==
  \/ Step
  \/ calls = <<>> /\ done < MaxCalls /\ done' = done + 1 /\
     \/ \E p \in Objects \cup {NULL} : talloc_size(p, 1) \/ talloc_pool(p)
     \/ \E p, c \in Objects : \/ _talloc_reference_loc(p, c) \/ _talloc_steal_loc(p, c)
                              \/ talloc_unlink(p, c)
     \/ \E c \in Objects : \/ _talloc_free(c) \/ talloc_free_children(c)
                           \/ talloc_unlink(NULL, c) \/ _talloc_steal_loc(NULL, c)
                           \/ \E d \in {"none", "refuses", "frees"} : _talloc_set_destructor(c, d)
                           \/ \E n \in 1..2 : _talloc_realloc(c, n)
     \/ \E o, n \in Objects \cup {NULL}, c \in Objects : talloc_reparent(o, n, c)
Spec == Init /\ [][Next]_vars

-----------------------------------------------------------------------------
(* A reference keeps what it refers to: whatever was freed, unlinked or    *)
(* moved, in whichever order, no handle is left with a chunk that is gone, *)
(* and every handle is on the list of its chunk, once.                     *)
ReferencesKeep ==
  /\ \A h \in Handles : m.to[h] \in Used /\ h \in ToSet(m.refs[m.to[h]])
  /\ \A c \in Used : \A i, j \in DOMAIN m.refs[c] :
        m.refs[c][i] \in Handles /\ (m.refs[c][i] = m.refs[c][j] => i = j)

(* Everything in use has its place: on the list of a parent in use, once,  *)
(* or on none; no chunk is its own ancestor.                               *)
TreeIsSound ==
  \A c \in Used :
    /\ m.up[c] # NULL /\ c \notin m.loop =>
         m.up[c] \in Used /\ Cardinality({i \in DOMAIN m.kids[m.up[c]] : m.kids[m.up[c]][i] = c}) = 1
    /\ m.up[c] # NULL => c \notin Ancestors(m, m.up[c])
    /\ \A k \in ToSet(m.kids[c]) : k \in Used /\ m.up[k] = c

(* The memory of a pool is there as long as a chunk inside it is in use.   *)
PoolsKeepMembers ==
  \A c \in Used : m.pool[c] # NULL => m.st[m.pool[c]] # "none"

(* Ownership: the three together, in every state of every free.            *)
OwnershipIsSound == ReferencesKeep /\ TreeIsSound /\ PoolsKeepMembers

(* A free takes only what nobody keeps any more: when it is over, each     *)
(* chunk that is gone lost every parent and every holder of a reference it *)
(* had when it began, because they are gone too or were told to let go.    *)
FreesUnkept ==
  (calls # <<>> /\ calls' = <<>>) =>
    \A c \in Chunks :
      (before.m.st[c] = "used" /\ before.m.to[c] = NULL /\ m'.st[c] # "used") =>
        \A k \in KeptBy(before.m, c) : m'.st[k] # "used" \/ <<k, c>> \in before.asked
FreedIsUnkept == [][FreesUnkept]_vars
=============================================================================
