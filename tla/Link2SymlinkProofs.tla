------------------------- MODULE Link2SymlinkProofs -------------------------
(***************************************************************************)
(* Proofs about Link2Symlink, for any names, files and guests, any suffix  *)
(* bound and any number of host calls that fail.                           *)
(*                                                                         *)
(* None of the properties is inductive: halfway through a handler names    *)
(* lead nowhere, counts are wrong, and the file is under a name that no    *)
(* link knows.  What is inductive is where in the handler PRoot is: the    *)
(* directory dir comes from a directory d that was in order by the host    *)
(* calls done so far, the rest of the plan is in todo, and guests still    *)
(* see d (Shows).  The proof has four layers:                              *)
(*   - a directory in order (WF), and what the changes that calls are made *)
(*     of do to it;                                                        *)
(*   - the plans: each is a chain of host calls from one directory in      *)
(*     order to another, no stage of it loses a file, and a failure is     *)
(*     either not seen yet or taken back (DecStage, LinkStage, UndoStage); *)
(*   - one lemma per action of Next;                                       *)
(*   - the theorems: the counts, the files, and the refinement of          *)
(*     HardLinks.                                                          *)
(*                                                                         *)
(* The theorems are about guests whose calls are handled one at a time and *)
(* that do none of the things Quirks lists (Simple): each of these breaks  *)
(* a property.                                                             *)
(***************************************************************************)
EXTENDS Link2Symlink, TLAPS, FiniteSetTheorems, WellFoundedInduction

Keys == Names \X (1 .. MaxSuffix)

(* The host calls on a directory d, as Done is on dir.                     *)
Move(d, from, to) ==
  [e \in (DOMAIN d \ {from}) \cup {to} |-> IF e = to THEN d[from] ELSE d[e]]
Drop(d, e) == [f \in DOMAIN d \ {e} |-> d[f]]
Put(d, e, x) == [f \in DOMAIN d \cup {e} |-> IF f = e THEN x ELSE d[f]]

(* What the guest sees of a directory d, as View is of dir.                *)
FakedIn(d, n) == Name(n) \in DOMAIN d /\ IsInter(d[Name(n)]) /\ d[Name(n)] \in DOMAIN d
PathIn(d, n) ==
  LET e == IF FakedIn(d, n) THEN d[d[Name(n)]] ELSE Name(n) IN
  IF e \in DOMAIN d /\ d[e][1] = "file" THEN d[e][2] ELSE None
LinkOf(d) == [n \in Names |-> PathIn(d, n)]
CountIn(d, i) ==
  LET At == {e \in DOMAIN d : d[e] = File(i)} IN
  IF At = {} THEN 0
  ELSE LET e == CHOOSE x \in At : TRUE IN IF e[1] = "final" THEN e[3] ELSE 1
ViewOf(d) == [link |-> LinkOf(d), nlink |-> [i \in Inodes |-> CountIn(d, i)]]

(* The names that lead to an intermediate link.                            *)
Leads(d, k) == {n \in Names : Name(n) \in DOMAIN d /\ d[Name(n)] = Inter(k)}

(* Between two calls, each name has a file or leads to an intermediate     *)
(* link, each intermediate link to its final file, and no file is in two   *)
(* places.                                                                 *)
EntriesPart(d) ==
  /\ d = [e \in DOMAIN d |-> d[e]]
  /\ \A e \in DOMAIN d : \/ \E n \in Names : e = Name(n)
                         \/ \E k \in Keys : e = Inter(k)
                         \/ \E k \in Keys, c \in Nat \ {0} : e = Final(k, c)
NamesPart(d) ==
  \A n \in Names : Name(n) \in DOMAIN d =>
    \/ \E i \in Inodes : d[Name(n)] = File(i)
    \/ \E k \in Keys : d[Name(n)] = Inter(k) /\ Inter(k) \in DOMAIN d
IntersPart(d) ==
  \A k \in Keys : Inter(k) \in DOMAIN d =>
    \E c \in Nat \ {0} : d[Inter(k)] = Final(k, c) /\ Final(k, c) \in DOMAIN d
FinalsPart(d) ==
  \A k \in Keys, c \in Nat \ {0} : Final(k, c) \in DOMAIN d =>
    /\ Inter(k) \in DOMAIN d /\ d[Inter(k)] = Final(k, c)
    /\ \E i \in Inodes : d[Final(k, c)] = File(i)
FilesPart(d) ==
  \A e, f \in DOMAIN d, i \in Inodes : d[e] = File(i) /\ d[f] = File(i) => e = f
Shape(d) == EntriesPart(d) /\ NamesPart(d) /\ IntersPart(d) /\ FinalsPart(d) /\ FilesPart(d)

(* The number in the name of a final is the number of names that lead to   *)
(* it.                                                                     *)
Counts(d) ==
  \A k \in Keys, c \in Nat \ {0} : Final(k, c) \in DOMAIN d => c = Cardinality(Leads(d, k))
WF(d) == Shape(d) /\ Counts(d)

-----------------------------------------------------------------------------
(* Entries of different kinds, or with different parts, are different.     *)
LEMMA Entries ==
  /\ \A n : Name(n)[1] = "name" /\ Name(n)[2] = n
  /\ \A k : Inter(k)[1] = "inter" /\ Inter(k)[2] = k
  /\ \A k, c : Final(k, c)[1] = "final" /\ Final(k, c)[2] = k /\ Final(k, c)[3] = c
  /\ \A i : File(i)[1] = "file" /\ File(i)[2] = i
  BY DEF Name, Inter, Final, File

(* Two entries that are the same have the same parts, and entries and      *)
(* files of different kinds are never the same.                            *)
LEMMA Differ ==
  /\ \A n, m : Name(n) = Name(m) => n = m
  /\ \A k, l : Inter(k) = Inter(l) => k = l
  /\ \A k, l, b, c : Final(k, b) = Final(l, c) => k = l /\ b = c
  /\ \A i, j : File(i) = File(j) => i = j
  /\ \A n, k : Name(n) # Inter(k)
  /\ \A n, k, c : Name(n) # Final(k, c)
  /\ \A k, l, c : Inter(k) # Final(l, c)
  /\ \A i, k : File(i) # Inter(k)
  /\ \A i, k, c : File(i) # Final(k, c)
  BY Entries

(* Where a name of a directory that is in order leads.                     *)
LEMMA Leading ==
  ASSUME NEW d, Shape(d), NEW n \in Names
  PROVE  /\ Name(n) \notin DOMAIN d => ~FakedIn(d, n) /\ PathIn(d, n) = None
         /\ \A i \in Inodes : Name(n) \in DOMAIN d /\ d[Name(n)] = File(i) =>
               ~FakedIn(d, n) /\ PathIn(d, n) = i
         /\ \A k \in Keys, c \in Nat \ {0} :
               Name(n) \in DOMAIN d /\ d[Name(n)] = Inter(k) /\ Final(k, c) \in DOMAIN d =>
                 /\ FakedIn(d, n) /\ d[d[Name(n)]] = Final(k, c)
                 /\ PathIn(d, n) \in Inodes /\ d[Final(k, c)] = File(PathIn(d, n))
         /\ Name(n) \in DOMAIN d =>
               \/ \E i \in Inodes : d[Name(n)] = File(i)
               \/ \E k \in Keys, c \in Nat \ {0} :
                    d[Name(n)] = Inter(k) /\ d[Inter(k)] = Final(k, c) /\ Final(k, c) \in DOMAIN d
<1>1. ASSUME Name(n) \notin DOMAIN d PROVE ~FakedIn(d, n) /\ PathIn(d, n) = None
  BY <1>1 DEF FakedIn, PathIn
<1>2. ASSUME NEW i \in Inodes, Name(n) \in DOMAIN d, d[Name(n)] = File(i)
      PROVE  ~FakedIn(d, n) /\ PathIn(d, n) = i
  BY <1>2, Entries DEF FakedIn, PathIn, IsInter
<1>3. ASSUME NEW k \in Keys, NEW c \in Nat \ {0}, Name(n) \in DOMAIN d, d[Name(n)] = Inter(k),
             Final(k, c) \in DOMAIN d
      PROVE  /\ FakedIn(d, n) /\ d[d[Name(n)]] = Final(k, c)
             /\ PathIn(d, n) \in Inodes /\ d[Final(k, c)] = File(PathIn(d, n))
  <2>1. Inter(k) \in DOMAIN d /\ d[Inter(k)] = Final(k, c)
    BY <1>3 DEF Shape, FinalsPart
  <2>2. PICK i \in Inodes : d[Final(k, c)] = File(i)
    BY <1>3 DEF Shape, FinalsPart
  <2>3. FakedIn(d, n)
    BY <1>3, <2>1, Entries DEF FakedIn, IsInter
  <2>4. PathIn(d, n) = i
    BY <1>3, <2>1, <2>2, <2>3, Entries DEF PathIn
  <2> QED BY <1>3, <2>1, <2>2, <2>3, <2>4
<1>4. ASSUME Name(n) \in DOMAIN d
      PROVE  \/ \E i \in Inodes : d[Name(n)] = File(i)
             \/ \E k \in Keys, c \in Nat \ {0} :
                  d[Name(n)] = Inter(k) /\ d[Inter(k)] = Final(k, c) /\ Final(k, c) \in DOMAIN d
  BY <1>4 DEF Shape, NamesPart, IntersPart
<1> QED BY <1>1, <1>2, <1>3, <1>4

(* stat reports the number of names of a file, and 0 of one that is        *)
(* nowhere.                                                                *)
LEMMA NlinkIsCount ==
  ASSUME NEW d, WF(d), NEW i \in Inodes
  PROVE  CountIn(d, i) = Cardinality({n \in Names : LinkOf(d)[n] = i})
<1> DEFINE At == {e \in DOMAIN d : d[e] = File(i)}
           N == {n \in Names : PathIn(d, n) = i}
<1>1. {n \in Names : LinkOf(d)[n] = i} = N
  BY DEF LinkOf
<1>0. i # None
  BY Link2SymlinkAssumption
<1>2. ASSUME NEW n \in N
      PROVE  Name(n) \in DOMAIN d /\
             \/ d[Name(n)] = File(i)
             \/ \E k \in Keys, c \in Nat \ {0} :
                  d[Name(n)] = Inter(k) /\ Final(k, c) \in DOMAIN d /\ d[Final(k, c)] = File(i)
  <2>1. Name(n) \in DOMAIN d
    BY <1>0, <1>2, Leading DEF WF
  <2>2. CASE \E j \in Inodes : d[Name(n)] = File(j)
    BY <1>2, <2>1, <2>2, Leading DEF WF
  <2>3. ASSUME NEW k \in Keys, NEW c \in Nat \ {0}, d[Name(n)] = Inter(k), Final(k, c) \in DOMAIN d
        PROVE  d[Final(k, c)] = File(i)
    BY <1>2, <2>1, <2>3, Leading DEF WF
  <2> QED BY <2>1, <2>2, <2>3, Leading DEF WF
<1>3. CASE At = {}
  <2>1. N = {}
    BY <1>2, <1>3
  <2> QED BY <1>1, <1>3, <2>1, FS_EmptySet DEF CountIn
<1>4. CASE At # {}
  <2> DEFINE e == CHOOSE x \in At : TRUE
  <2>1. e \in At
    BY <1>4
  <2>2. CountIn(d, i) = IF e[1] = "final" THEN e[3] ELSE 1
    BY <1>4 DEF CountIn
  <2> HIDE DEF e
  <2>3. \A f \in At : f = e
    BY <2>1 DEF WF, Shape, FilesPart
  <2>4. ASSUME NEW n \in Names, e = Name(n) PROVE CountIn(d, i) = Cardinality(N)
    <3>1. CountIn(d, i) = 1
      BY <2>2, <2>4, Entries
    <3>2. n \in N
      BY <2>1, <2>4, Leading DEF WF
    <3>3. \A m \in N : m = n
      <4> TAKE m \in N
      <4>1. CASE d[Name(m)] = File(i)
        BY <1>2, <2>3, <2>4, <4>1, Entries
      <4>2. CASE \E k \in Keys, c \in Nat \ {0} : Final(k, c) \in DOMAIN d /\ d[Final(k, c)] = File(i)
        BY <2>3, <2>4, <4>2, Entries
      <4> QED BY <1>2, <4>1, <4>2
    <3>4. N = {n}
      BY <3>2, <3>3
    <3> QED BY <3>1, <3>4, FS_Singleton
  <2>5. ASSUME NEW k \in Keys, NEW c \in Nat \ {0}, e = Final(k, c)
        PROVE  CountIn(d, i) = Cardinality(N)
    <3>1. CountIn(d, i) = c
      BY <2>2, <2>5, Entries
    <3>2. c = Cardinality(Leads(d, k))
      BY <2>1, <2>5 DEF WF, Counts
    <3>3. ASSUME NEW n \in Leads(d, k) PROVE n \in N
      <4>1. d[Final(k, c)] = File(PathIn(d, n))
        BY <2>1, <2>5, <3>3, Leading DEF WF, Leads
      <4> QED BY <2>1, <2>5, <3>3, <4>1, Differ DEF Leads
    <3>4. ASSUME NEW n \in N PROVE n \in Leads(d, k)
      <4>1. d[Name(n)] # File(i)
        BY <1>2, <2>3, <2>5, <3>4, Entries
      <4>2. PICK l \in Keys, b \in Nat \ {0} :
              d[Name(n)] = Inter(l) /\ Final(l, b) \in DOMAIN d /\ d[Final(l, b)] = File(i)
        BY <1>2, <3>4, <4>1
      <4>3. Final(l, b) = Final(k, c)
        BY <2>3, <2>5, <4>2
      <4>4. l = k
        BY <4>3, Entries
      <4> QED BY <1>2, <3>4, <4>2, <4>4 DEF Leads
    <3>5. N = Leads(d, k)
      BY <3>3, <3>4 DEF Leads
    <3> QED BY <3>1, <3>2, <3>5
  <2>6. e \in DOMAIN d /\ d[e] = File(i)
    BY <2>1
  <2>7. ASSUME NEW k \in Keys, e = Inter(k) PROVE FALSE
    <3>1. PICK c \in Nat \ {0} : d[Inter(k)] = Final(k, c)
      BY <2>6, <2>7 DEF WF, Shape, IntersPart
    <3> QED BY <2>6, <2>7, <3>1, Differ
  <2>8. CountIn(d, i) = Cardinality(N)
    BY <2>4, <2>5, <2>6, <2>7 DEF WF, Shape, EntriesPart
  <2> QED BY <1>1, <2>8
<1> QED BY <1>3, <1>4

-----------------------------------------------------------------------------
(* The changes of a directory that calls are made of.                      *)

(* Only one final belongs to a key.                                        *)
LEMMA OneFinal ==
  ASSUME NEW d, Shape(d), NEW k \in Keys, NEW b \in Nat \ {0}, NEW c \in Nat \ {0},
         Final(k, b) \in DOMAIN d, Final(k, c) \in DOMAIN d
  PROVE  b = c
  BY Differ DEF Shape, FinalsPart

(* The final of key k is renamed, and the intermediate link leads to it.   *)
Renum(d, k, b, c) ==
  [e \in (DOMAIN d \ {Final(k, b)}) \cup {Final(k, c)} |->
     IF e = Inter(k) THEN Final(k, c) ELSE IF e = Final(k, c) THEN d[Final(k, b)] ELSE d[e]]
(* It keeps the directory in order and leaves every name where it led.     *)
LEMMA RenumShape ==
  ASSUME NEW d, Shape(d), NEW k \in Keys, NEW b \in Nat \ {0}, NEW c \in Nat \ {0},
         Final(k, b) \in DOMAIN d
  PROVE  LET r == Renum(d, k, b, c) IN
         /\ Shape(r) /\ LinkOf(r) = LinkOf(d) /\ \A l : Leads(r, l) = Leads(d, l)
         /\ \A n : /\ Name(n) \in DOMAIN r <=> Name(n) \in DOMAIN d
                   /\ Name(n) \in DOMAIN d => r[Name(n)] = d[Name(n)]
         /\ Final(k, c) \in DOMAIN r
         /\ \A l \in Keys, a \in Nat \ {0} : Final(l, a) \in DOMAIN r =>
              (l = k /\ a = c) \/ (l # k /\ Final(l, a) \in DOMAIN d)
<1> DEFINE r == Renum(d, k, b, c)
           f == Final(k, b)
           g == Final(k, c)
<1>1. /\ DOMAIN r = (DOMAIN d \ {f}) \cup {g} /\ r = [e \in DOMAIN r |-> r[e]]
      /\ \A e \in DOMAIN r : r[e] = IF e = Inter(k) THEN g ELSE IF e = g THEN d[f] ELSE d[e]
  BY DEF Renum
<1>2. Inter(k) \in DOMAIN d /\ d[Inter(k)] = f /\ \E i \in Inodes : d[f] = File(i)
  BY DEF Shape, FinalsPart
<1> HIDE DEF r
<1>3. \A n : /\ Name(n) \in DOMAIN r <=> Name(n) \in DOMAIN d
             /\ Name(n) \in DOMAIN d => r[Name(n)] = d[Name(n)]
  BY <1>1, Differ
<1>4. \A l : Inter(l) \in DOMAIN r <=> Inter(l) \in DOMAIN d
  BY <1>1, Differ
<1>5. \A l : l # k /\ Inter(l) \in DOMAIN d => r[Inter(l)] = d[Inter(l)]
  BY <1>1, <1>4, Differ
<1>6. r[Inter(k)] = g /\ r[g] = d[f] /\ g \in DOMAIN r
  BY <1>1, <1>2, <1>4, Differ
<1>7. \A l \in Keys, a \in Nat \ {0} : l # k =>
        /\ Final(l, a) \in DOMAIN r <=> Final(l, a) \in DOMAIN d
        /\ Final(l, a) \in DOMAIN d => r[Final(l, a)] = d[Final(l, a)]
  BY <1>1, Differ
<1>8. \A a \in Nat \ {0} : Final(k, a) \in DOMAIN r => a = c
  BY <1>1, Differ, OneFinal
<1>9. EntriesPart(r)
  <2>1. \A e \in DOMAIN d : \/ \E n \in Names : e = Name(n)
                            \/ \E l \in Keys : e = Inter(l)
                            \/ \E l \in Keys, a \in Nat \ {0} : e = Final(l, a)
    BY DEF Shape, EntriesPart
  <2>2. \A e \in DOMAIN r : e \in DOMAIN d \/ e = Final(k, c)
    BY <1>1
  <2> QED BY <1>1, <2>1, <2>2 DEF EntriesPart
<1>10. NamesPart(r)
  BY <1>3, <1>4 DEF Shape, NamesPart
<1>11. IntersPart(r)
  <2> SUFFICES ASSUME NEW l \in Keys, Inter(l) \in DOMAIN r
               PROVE  \E a \in Nat \ {0} : r[Inter(l)] = Final(l, a) /\ Final(l, a) \in DOMAIN r
    BY DEF IntersPart
  <2>1. CASE l = k
    BY <1>6, <2>1
  <2>2. CASE l # k
    <3>1. PICK a \in Nat \ {0} : d[Inter(l)] = Final(l, a) /\ Final(l, a) \in DOMAIN d
      BY <1>4 DEF Shape, IntersPart
    <3> QED BY <1>4, <1>5, <1>7, <2>2, <3>1
  <2> QED BY <2>1, <2>2
<1>12. FinalsPart(r)
  <2> SUFFICES ASSUME NEW l \in Keys, NEW a \in Nat \ {0}, Final(l, a) \in DOMAIN r
               PROVE  /\ Inter(l) \in DOMAIN r /\ r[Inter(l)] = Final(l, a)
                      /\ \E i \in Inodes : r[Final(l, a)] = File(i)
    BY DEF FinalsPart
  <2>1. CASE l = k
    BY <1>2, <1>4, <1>6, <1>8, <2>1
  <2>2. CASE l # k
    <3>1. Final(l, a) \in DOMAIN d /\ r[Final(l, a)] = d[Final(l, a)]
      BY <1>7, <2>2
    <3>2. Inter(l) \in DOMAIN d /\ d[Inter(l)] = Final(l, a)
          /\ \E i \in Inodes : d[Final(l, a)] = File(i)
      BY <3>1 DEF Shape, FinalsPart
    <3> QED BY <1>4, <1>5, <2>2, <3>1, <3>2
  <2> QED BY <2>1, <2>2
<1>13. FilesPart(r)
  <2> SUFFICES ASSUME NEW e \in DOMAIN r, NEW h \in DOMAIN r, NEW i \in Inodes,
                      r[e] = File(i), r[h] = File(i)
               PROVE  e = h
    BY DEF FilesPart
  <2>1. ASSUME NEW x \in DOMAIN r, r[x] = File(i)
        PROVE  x # Inter(k) /\ IF x = g THEN d[f] = File(i)
                               ELSE x \in DOMAIN d /\ x # f /\ d[x] = File(i)
    BY <1>1, <2>1, Differ
  <2>2. \A x, y \in DOMAIN d : d[x] = File(i) /\ d[y] = File(i) => x = y
    BY DEF Shape, FilesPart
  <2> QED BY <2>1, <2>2
<1>14. Shape(r)
  BY <1>9, <1>10, <1>11, <1>12, <1>13 DEF Shape
<1>15. ASSUME NEW n \in Names PROVE PathIn(r, n) = PathIn(d, n)
  <2>1. CASE Name(n) \notin DOMAIN d
    BY <1>3, <1>14, <2>1, Leading
  <2>2. CASE Name(n) \in DOMAIN d
    <3>1. Name(n) \in DOMAIN r /\ r[Name(n)] = d[Name(n)]
      BY <1>3, <2>2
    <3>2. ASSUME NEW i \in Inodes, d[Name(n)] = File(i) PROVE PathIn(r, n) = PathIn(d, n)
      BY <1>14, <2>2, <3>1, <3>2, Leading
    <3>3. ASSUME NEW l \in Keys, NEW a \in Nat \ {0}, d[Name(n)] = Inter(l), Final(l, a) \in DOMAIN d
          PROVE  PathIn(r, n) = PathIn(d, n)
      <4>1. d[Final(l, a)] = File(PathIn(d, n))
        BY <2>2, <3>3, Leading
      <4>2. CASE l = k
        <5>1. a = b
          BY <3>3, <4>2, OneFinal
        <5>2. r[g] = File(PathIn(r, n))
          BY <1>6, <1>14, <3>1, <3>3, <4>2, Leading
        <5> QED BY <1>6, <4>1, <4>2, <5>1, <5>2, Differ
      <4>3. CASE l # k
        <5>1. r[Final(l, a)] = File(PathIn(r, n)) /\ r[Final(l, a)] = d[Final(l, a)]
          BY <1>7, <1>14, <3>1, <3>3, <4>3, Leading
        <5> QED BY <4>1, <5>1, Differ
      <4> QED BY <4>2, <4>3
    <3> QED BY <2>2, <3>2, <3>3, Leading
  <2> QED BY <2>1, <2>2
<1>16. LinkOf(r) = LinkOf(d)
  BY <1>15 DEF LinkOf
<1>17. \A l : Leads(r, l) = Leads(d, l)
  BY <1>3 DEF Leads
<1> QED BY <1>3, <1>6, <1>7, <1>8, <1>14, <1>16, <1>17 DEF r

(* A name that leads where it did has the file it had.                     *)
LEMMA SamePath ==
  ASSUME NEW d, Shape(d), NEW r, Shape(r), NEW n \in Names,
         Name(n) \in DOMAIN r <=> Name(n) \in DOMAIN d,
         Name(n) \in DOMAIN d => r[Name(n)] = d[Name(n)],
         \A k \in Keys, c \in Nat \ {0} :
           Name(n) \in DOMAIN d /\ d[Name(n)] = Inter(k) /\ Final(k, c) \in DOMAIN d =>
             Final(k, c) \in DOMAIN r /\ r[Final(k, c)] = d[Final(k, c)]
  PROVE  PathIn(r, n) = PathIn(d, n)
<1>1. CASE Name(n) \notin DOMAIN d
  BY <1>1, Leading
<1>2. CASE Name(n) \in DOMAIN d
  <2>1. ASSUME NEW i \in Inodes, d[Name(n)] = File(i) PROVE PathIn(r, n) = PathIn(d, n)
    BY <1>2, <2>1, Leading
  <2>2. ASSUME NEW k \in Keys, NEW c \in Nat \ {0}, d[Name(n)] = Inter(k), Final(k, c) \in DOMAIN d
        PROVE  PathIn(r, n) = PathIn(d, n)
    <3>1. d[Final(k, c)] = File(PathIn(d, n))
      BY <1>2, <2>2, Leading
    <3>2. Final(k, c) \in DOMAIN r /\ r[Final(k, c)] = d[Final(k, c)]
      BY <1>2, <2>2
    <3>3. r[Final(k, c)] = File(PathIn(r, n))
      BY <1>2, <2>2, <3>2, Leading
    <3> QED BY <3>1, <3>2, <3>3, Differ
  <2> QED BY <1>2, <2>1, <2>2, Leading
<1> QED BY <1>1, <1>2

(* A name goes.                                                            *)
LEMMA DropNameShape ==
  ASSUME NEW d, Shape(d), NEW n \in Names, Name(n) \in DOMAIN d
  PROVE  LET r == Drop(d, Name(n)) IN
         /\ Shape(r) /\ LinkOf(r) = [LinkOf(d) EXCEPT ![n] = None]
         /\ \A l : Leads(r, l) = Leads(d, l) \ {n}
         /\ \A l, a : Final(l, a) \in DOMAIN r <=> Final(l, a) \in DOMAIN d
<1> DEFINE r == Drop(d, Name(n))
<1>1. /\ DOMAIN r = DOMAIN d \ {Name(n)} /\ r = [e \in DOMAIN r |-> r[e]]
      /\ \A e \in DOMAIN r : r[e] = d[e]
  BY DEF Drop
<1> HIDE DEF r
<1>2. \A m : m # n =>
        /\ Name(m) \in DOMAIN r <=> Name(m) \in DOMAIN d
        /\ Name(m) \in DOMAIN d => r[Name(m)] = d[Name(m)]
  BY <1>1, Differ
<1>3. \A l : /\ Inter(l) \in DOMAIN r <=> Inter(l) \in DOMAIN d
             /\ Inter(l) \in DOMAIN d => r[Inter(l)] = d[Inter(l)]
  BY <1>1, Differ
<1>4. \A l, a : /\ Final(l, a) \in DOMAIN r <=> Final(l, a) \in DOMAIN d
                /\ Final(l, a) \in DOMAIN d => r[Final(l, a)] = d[Final(l, a)]
  BY <1>1, Differ
<1>5. EntriesPart(r)
  BY <1>1 DEF Shape, EntriesPart
<1>6. NamesPart(r)
  BY <1>1, <1>3 DEF Shape, NamesPart
<1>7. IntersPart(r)
  BY <1>3, <1>4 DEF Shape, IntersPart
<1>8. FinalsPart(r)
  BY <1>3, <1>4 DEF Shape, FinalsPart
<1>9. FilesPart(r)
  BY <1>1 DEF Shape, FilesPart
<1>10. Shape(r)
  BY <1>5, <1>6, <1>7, <1>8, <1>9 DEF Shape
<1>11. ASSUME NEW m \in Names, m # n PROVE PathIn(r, m) = PathIn(d, m)
  BY <1>2, <1>4, <1>10, <1>11, SamePath
<1>12. PathIn(r, n) = None
  BY <1>1, <1>10, Leading
<1>13. LinkOf(r) = [LinkOf(d) EXCEPT ![n] = None]
  BY <1>11, <1>12 DEF LinkOf
<1>14. \A l : Leads(r, l) = Leads(d, l) \ {n}
  BY <1>1, <1>2 DEF Leads
<1> QED BY <1>4, <1>10, <1>13, <1>14 DEF r

(* A name comes, and leads to an intermediate link that is there.          *)
LEMMA PutLinkShape ==
  ASSUME NEW d, Shape(d), NEW n \in Names, Name(n) \notin DOMAIN d,
         NEW k \in Keys, NEW c \in Nat \ {0}, Final(k, c) \in DOMAIN d, NEW i, d[Final(k, c)] = File(i)
  PROVE  LET r == Put(d, Name(n), Inter(k)) IN
         /\ Shape(r) /\ LinkOf(r) = [LinkOf(d) EXCEPT ![n] = i]
         /\ Leads(r, k) = Leads(d, k) \cup {n} /\ \A l : l # k => Leads(r, l) = Leads(d, l)
         /\ \A l, a : Final(l, a) \in DOMAIN r <=> Final(l, a) \in DOMAIN d
<1> DEFINE r == Put(d, Name(n), Inter(k))
<1>0. Inter(k) \in DOMAIN d
  BY DEF Shape, FinalsPart
<1>1. /\ DOMAIN r = DOMAIN d \cup {Name(n)} /\ r = [e \in DOMAIN r |-> r[e]]
      /\ r[Name(n)] = Inter(k) /\ \A e \in DOMAIN d : r[e] = d[e]
  BY DEF Put
<1> HIDE DEF r
<1>2. \A m : m # n =>
        /\ Name(m) \in DOMAIN r <=> Name(m) \in DOMAIN d
        /\ Name(m) \in DOMAIN d => r[Name(m)] = d[Name(m)]
  BY <1>1, Differ
<1>3. \A l : /\ Inter(l) \in DOMAIN r <=> Inter(l) \in DOMAIN d
             /\ Inter(l) \in DOMAIN d => r[Inter(l)] = d[Inter(l)]
  BY <1>1, Differ
<1>4. \A l, a : /\ Final(l, a) \in DOMAIN r <=> Final(l, a) \in DOMAIN d
                /\ Final(l, a) \in DOMAIN d => r[Final(l, a)] = d[Final(l, a)]
  BY <1>1, Differ
<1>5. EntriesPart(r)
  BY <1>1 DEF Shape, EntriesPart
<1>6. NamesPart(r)
  BY <1>0, <1>1, <1>2, <1>3 DEF Shape, NamesPart
<1>7. IntersPart(r)
  BY <1>3, <1>4 DEF Shape, IntersPart
<1>8. FinalsPart(r)
  BY <1>3, <1>4 DEF Shape, FinalsPart
<1>9. FilesPart(r)
  <2>1. \A e \in DOMAIN r, j \in Inodes : r[e] = File(j) => e \in DOMAIN d /\ d[e] = File(j)
    BY <1>1, Differ
  <2> QED BY <2>1 DEF Shape, FilesPart
<1>10. Shape(r)
  BY <1>5, <1>6, <1>7, <1>8, <1>9 DEF Shape
<1>11. ASSUME NEW m \in Names, m # n PROVE PathIn(r, m) = PathIn(d, m)
  BY <1>2, <1>4, <1>10, <1>11, SamePath
<1>12. PathIn(r, n) = i
  <2>1. r[Final(k, c)] = File(PathIn(r, n))
    BY <1>1, <1>4, <1>10, Leading
  <2> QED BY <1>4, <2>1, Differ
<1>13. LinkOf(r) = [LinkOf(d) EXCEPT ![n] = i]
  BY <1>11, <1>12 DEF LinkOf
<1>14. Leads(r, k) = Leads(d, k) \cup {n} /\ \A l : l # k => Leads(r, l) = Leads(d, l)
  BY <1>1, <1>2, Differ DEF Leads
<1> QED BY <1>4, <1>10, <1>13, <1>14 DEF r

(* A name comes, with a file that is nowhere else.                         *)
LEMMA PutFileShape ==
  ASSUME NEW d, Shape(d), NEW n \in Names, Name(n) \notin DOMAIN d,
         NEW i \in Inodes, \A e \in DOMAIN d : d[e] # File(i)
  PROVE  LET r == Put(d, Name(n), File(i)) IN
         /\ Shape(r) /\ LinkOf(r) = [LinkOf(d) EXCEPT ![n] = i]
         /\ \A l : Leads(r, l) = Leads(d, l)
         /\ \A l, a : Final(l, a) \in DOMAIN r <=> Final(l, a) \in DOMAIN d
<1> DEFINE r == Put(d, Name(n), File(i))
<1>1. /\ DOMAIN r = DOMAIN d \cup {Name(n)} /\ r = [e \in DOMAIN r |-> r[e]]
      /\ r[Name(n)] = File(i) /\ \A e \in DOMAIN d : r[e] = d[e]
  BY DEF Put
<1> HIDE DEF r
<1>2. \A m : m # n =>
        /\ Name(m) \in DOMAIN r <=> Name(m) \in DOMAIN d
        /\ Name(m) \in DOMAIN d => r[Name(m)] = d[Name(m)]
  BY <1>1, Differ
<1>3. \A l : /\ Inter(l) \in DOMAIN r <=> Inter(l) \in DOMAIN d
             /\ Inter(l) \in DOMAIN d => r[Inter(l)] = d[Inter(l)]
  BY <1>1, Differ
<1>4. \A l, a : /\ Final(l, a) \in DOMAIN r <=> Final(l, a) \in DOMAIN d
                /\ Final(l, a) \in DOMAIN d => r[Final(l, a)] = d[Final(l, a)]
  BY <1>1, Differ
<1>5. EntriesPart(r)
  BY <1>1 DEF Shape, EntriesPart
<1>6. NamesPart(r)
  BY <1>1, <1>2, <1>3 DEF Shape, NamesPart
<1>7. IntersPart(r)
  BY <1>3, <1>4 DEF Shape, IntersPart
<1>8. FinalsPart(r)
  BY <1>3, <1>4 DEF Shape, FinalsPart
<1>9. FilesPart(r)
  <2>1. \A e \in DOMAIN r, j \in Inodes : r[e] = File(j) =>
          (e = Name(n) /\ j = i) \/ (e \in DOMAIN d /\ d[e] = File(j) /\ j # i)
    BY <1>1, Differ
  <2> QED BY <2>1 DEF Shape, FilesPart
<1>10. Shape(r)
  BY <1>5, <1>6, <1>7, <1>8, <1>9 DEF Shape
<1>11. ASSUME NEW m \in Names, m # n PROVE PathIn(r, m) = PathIn(d, m)
  BY <1>2, <1>4, <1>10, <1>11, SamePath
<1>12. PathIn(r, n) = i
  BY <1>1, <1>10, Leading
<1>13. LinkOf(r) = [LinkOf(d) EXCEPT ![n] = i]
  BY <1>11, <1>12 DEF LinkOf
<1>14. \A l : Leads(r, l) = Leads(d, l)
  BY <1>1, <1>2, Differ DEF Leads
<1> QED BY <1>4, <1>10, <1>13, <1>14 DEF r

(* The intermediate link and the final that no name leads to go.           *)
DropKey(d, k, c) == [e \in DOMAIN d \ {Inter(k), Final(k, c)} |-> d[e]]
(* Once no name leads to a key, its links can go.                          *)
LEMMA DropKeyShape ==
  ASSUME NEW d, Shape(d), NEW k \in Keys, NEW c \in Nat \ {0}, Final(k, c) \in DOMAIN d,
         Leads(d, k) = {}
  PROVE  LET r == DropKey(d, k, c) IN
         /\ Shape(r) /\ LinkOf(r) = LinkOf(d) /\ \A l : Leads(r, l) = Leads(d, l)
         /\ \A l \in Keys, a \in Nat \ {0} :
              Final(l, a) \in DOMAIN r => l # k /\ Final(l, a) \in DOMAIN d
<1> DEFINE r == DropKey(d, k, c)
<1>1. /\ DOMAIN r = DOMAIN d \ {Inter(k), Final(k, c)} /\ r = [e \in DOMAIN r |-> r[e]]
      /\ \A e \in DOMAIN r : r[e] = d[e]
  BY DEF DropKey
<1> HIDE DEF r
<1>2. \A m : /\ Name(m) \in DOMAIN r <=> Name(m) \in DOMAIN d
             /\ Name(m) \in DOMAIN d => r[Name(m)] = d[Name(m)]
  BY <1>1, Differ
<1>3. \A l : /\ Inter(l) \in DOMAIN r <=> Inter(l) \in DOMAIN d /\ l # k
             /\ Inter(l) \in DOMAIN d /\ l # k => r[Inter(l)] = d[Inter(l)]
  BY <1>1, Differ
<1>4. \A l, a : l # k =>
        /\ Final(l, a) \in DOMAIN r <=> Final(l, a) \in DOMAIN d
        /\ Final(l, a) \in DOMAIN d => r[Final(l, a)] = d[Final(l, a)]
  BY <1>1, Differ
<1>5. \A a \in Nat \ {0} : Final(k, a) \notin DOMAIN r
  BY <1>1, OneFinal
<1>6. EntriesPart(r)
  BY <1>1 DEF Shape, EntriesPart
<1>7. NamesPart(r)
  <2> SUFFICES ASSUME NEW m \in Names, Name(m) \in DOMAIN r
               PROVE  \/ \E i \in Inodes : r[Name(m)] = File(i)
                      \/ \E l \in Keys : r[Name(m)] = Inter(l) /\ Inter(l) \in DOMAIN r
    BY DEF NamesPart
  <2>1. Name(m) \in DOMAIN d /\ r[Name(m)] = d[Name(m)]
    BY <1>2
  <2>2. d[Name(m)] # Inter(k)
    BY <2>1 DEF Leads
  <2> QED BY <1>3, <2>1, <2>2 DEF Shape, NamesPart
<1>8. IntersPart(r)
  BY <1>3, <1>4 DEF Shape, IntersPart
<1>9. FinalsPart(r)
  BY <1>3, <1>4, <1>5 DEF Shape, FinalsPart
<1>10. FilesPart(r)
  BY <1>1 DEF Shape, FilesPart
<1>11. Shape(r)
  BY <1>6, <1>7, <1>8, <1>9, <1>10 DEF Shape
<1>12. ASSUME NEW m \in Names PROVE PathIn(r, m) = PathIn(d, m)
  <2>1. Name(m) \in DOMAIN d => d[Name(m)] # Inter(k)
    BY DEF Leads
  <2>2. \A l \in Keys, a \in Nat \ {0} :
          Name(m) \in DOMAIN d /\ d[Name(m)] = Inter(l) /\ Final(l, a) \in DOMAIN d =>
            Final(l, a) \in DOMAIN r /\ r[Final(l, a)] = d[Final(l, a)]
    BY <1>4, <2>1
  <2> QED BY <1>2, <1>11, <2>2, SamePath
<1>13. LinkOf(r) = LinkOf(d)
  BY <1>12 DEF LinkOf
<1>14. \A l : Leads(r, l) = Leads(d, l)
  BY <1>2 DEF Leads
<1> QED BY <1>4, <1>5, <1>11, <1>13, <1>14 DEF r

(* The file of a name becomes the final of a key that was free, and the    *)
(* name leads to it.                                                       *)
Convert(d, n, k) ==
  [e \in DOMAIN d \cup {Inter(k), Final(k, 2)} |->
     IF e = Name(n) THEN Inter(k) ELSE IF e = Inter(k) THEN Final(k, 2)
     ELSE IF e = Final(k, 2) THEN d[Name(n)] ELSE d[e]]
(* It keeps the directory in order, and every name has the file it had.    *)
LEMMA ConvertShape ==
  ASSUME NEW d, Shape(d), NEW n \in Names, Name(n) \in DOMAIN d, NEW i \in Inodes, d[Name(n)] = File(i),
         NEW k \in Keys, Inter(k) \notin DOMAIN d
  PROVE  LET r == Convert(d, n, k) IN
         /\ Shape(r) /\ LinkOf(r) = LinkOf(d)
         /\ Leads(r, k) = {n} /\ \A l \in Keys : l # k => Leads(r, l) = Leads(d, l)
         /\ \A m : Name(m) \in DOMAIN r <=> Name(m) \in DOMAIN d
         /\ Final(k, 2) \in DOMAIN r /\ r[Final(k, 2)] = File(i)
         /\ \A l \in Keys, a \in Nat \ {0} : Final(l, a) \in DOMAIN r =>
              (l = k /\ a = 2) \/ (l # k /\ Final(l, a) \in DOMAIN d)
<1> DEFINE r == Convert(d, n, k)
           g == Final(k, 2)
<1>0. /\ \A a \in Nat \ {0} : Final(k, a) \notin DOMAIN d
      /\ \A m \in Names : Name(m) \in DOMAIN d => d[Name(m)] # Inter(k)
  BY Differ DEF Shape, FinalsPart, NamesPart
<1>1. /\ DOMAIN r = DOMAIN d \cup {Inter(k), g} /\ r = [e \in DOMAIN r |-> r[e]]
      /\ \A e \in DOMAIN r : r[e] = IF e = Name(n) THEN Inter(k) ELSE IF e = Inter(k) THEN g
                                    ELSE IF e = g THEN d[Name(n)] ELSE d[e]
  BY DEF Convert
<1> HIDE DEF r
<1>2. \A m : /\ Name(m) \in DOMAIN r <=> Name(m) \in DOMAIN d
             /\ m # n /\ Name(m) \in DOMAIN d => r[Name(m)] = d[Name(m)]
  BY <1>1, Differ
<1>3. r[Name(n)] = Inter(k) /\ r[Inter(k)] = g /\ r[g] = File(i)
      /\ Inter(k) \in DOMAIN r /\ g \in DOMAIN r
  BY <1>1, Differ
<1>4. \A l : l # k =>
        /\ Inter(l) \in DOMAIN r <=> Inter(l) \in DOMAIN d
        /\ Inter(l) \in DOMAIN d => r[Inter(l)] = d[Inter(l)]
  BY <1>1, Differ
<1>5. \A l, a : l # k =>
        /\ Final(l, a) \in DOMAIN r <=> Final(l, a) \in DOMAIN d
        /\ Final(l, a) \in DOMAIN d => r[Final(l, a)] = d[Final(l, a)]
  BY <1>1, Differ
<1>6. \A a \in Nat \ {0} : Final(k, a) \in DOMAIN r => a = 2
  BY <1>0, <1>1, Differ
<1>7. EntriesPart(r)
  <2>1. \A e \in DOMAIN d : \/ \E m \in Names : e = Name(m)
                            \/ \E l \in Keys : e = Inter(l)
                            \/ \E l \in Keys, a \in Nat \ {0} : e = Final(l, a)
    BY DEF Shape, EntriesPart
  <2>2. \A e \in DOMAIN r : e \in DOMAIN d \/ e = Inter(k) \/ e = Final(k, 2)
    BY <1>1
  <2>3. 2 \in Nat \ {0}
    OBVIOUS
  <2> QED BY <1>1, <2>1, <2>2, <2>3 DEF EntriesPart
<1>8. NamesPart(r)
  <2> SUFFICES ASSUME NEW m \in Names, Name(m) \in DOMAIN r
               PROVE  \/ \E j \in Inodes : r[Name(m)] = File(j)
                      \/ \E l \in Keys : r[Name(m)] = Inter(l) /\ Inter(l) \in DOMAIN r
    BY DEF NamesPart
  <2>1. CASE m = n
    BY <1>3, <2>1
  <2>2. CASE m # n
    <3>1. Name(m) \in DOMAIN d /\ r[Name(m)] = d[Name(m)]
      BY <1>2, <2>2
    <3>2. \A l \in Keys : d[Name(m)] = Inter(l) => l # k
      BY <1>0, <3>1
    <3> QED BY <1>4, <3>1, <3>2 DEF Shape, NamesPart
  <2> QED BY <2>1, <2>2
<1>9. IntersPart(r)
  <2> SUFFICES ASSUME NEW l \in Keys, Inter(l) \in DOMAIN r
               PROVE  \E a \in Nat \ {0} : r[Inter(l)] = Final(l, a) /\ Final(l, a) \in DOMAIN r
    BY DEF IntersPart
  <2>1. CASE l = k
    <3>1. 2 \in Nat \ {0}
      OBVIOUS
    <3> QED BY <1>3, <2>1, <3>1
  <2>2. CASE l # k
    BY <1>4, <1>5, <2>2 DEF Shape, IntersPart
  <2> QED BY <2>1, <2>2
<1>10. FinalsPart(r)
  <2> SUFFICES ASSUME NEW l \in Keys, NEW a \in Nat \ {0}, Final(l, a) \in DOMAIN r
               PROVE  /\ Inter(l) \in DOMAIN r /\ r[Inter(l)] = Final(l, a)
                      /\ \E j \in Inodes : r[Final(l, a)] = File(j)
    BY DEF FinalsPart
  <2>1. CASE l = k
    BY <1>3, <1>6, <2>1
  <2>2. CASE l # k
    BY <1>4, <1>5, <2>2 DEF Shape, FinalsPart
  <2> QED BY <2>1, <2>2
<1>11. FilesPart(r)
  <2> SUFFICES ASSUME NEW e \in DOMAIN r, NEW h \in DOMAIN r, NEW j \in Inodes,
                      r[e] = File(j), r[h] = File(j)
               PROVE  e = h
    BY DEF FilesPart
  <2>1. ASSUME NEW x \in DOMAIN r, r[x] = File(j)
        PROVE  IF x = g THEN i = j ELSE x \in DOMAIN d /\ x # Name(n) /\ d[x] = File(j)
    BY <1>1, <2>1, Differ
  <2>2. \A x, y \in DOMAIN d : d[x] = File(j) /\ d[y] = File(j) => x = y
    BY DEF Shape, FilesPart
  <2>3. CASE i = j
    BY <2>1, <2>2, <2>3
  <2>4. CASE i # j
    BY <2>1, <2>2, <2>4
  <2> QED BY <2>3, <2>4
<1>12. Shape(r)
  BY <1>7, <1>8, <1>9, <1>10, <1>11 DEF Shape
<1>13. ASSUME NEW m \in Names PROVE PathIn(r, m) = PathIn(d, m)
  <2>1. CASE m = n
    <3>1. PathIn(d, n) = i
      BY Leading
    <3>2. 2 \in Nat \ {0}
      OBVIOUS
    <3>3. r[g] = File(PathIn(r, n))
      BY <1>2, <1>3, <1>12, <3>2, Leading
    <3> QED BY <1>3, <2>1, <3>1, <3>3, Differ
  <2>2. CASE m # n
    <3>1. \A l \in Keys, a \in Nat \ {0} :
            Name(m) \in DOMAIN d /\ d[Name(m)] = Inter(l) /\ Final(l, a) \in DOMAIN d =>
              Final(l, a) \in DOMAIN r /\ r[Final(l, a)] = d[Final(l, a)]
      BY <1>0, <1>5
    <3> QED BY <1>2, <1>12, <2>2, <3>1, SamePath
  <2> QED BY <2>1, <2>2
<1>14. LinkOf(r) = LinkOf(d)
  BY <1>13 DEF LinkOf
<1>15. Leads(r, k) = {n}
  BY <1>0, <1>2, <1>3, Differ DEF Leads
<1>16. \A l \in Keys : l # k => Leads(r, l) = Leads(d, l)
  BY <1>2, <1>3, Differ DEF Leads
<1> QED BY <1>2, <1>3, <1>5, <1>6, <1>12, <1>14, <1>15, <1>16 DEF r

-----------------------------------------------------------------------------
(* The calls, on a directory that is in order.                             *)

(* The names that lead to a key are finitely many.                         *)
LEMMA LeadsFinite ==
  ASSUME NEW d, NEW k
  PROVE  IsFiniteSet(Leads(d, k)) /\ Cardinality(Leads(d, k)) \in Nat
<1>1. Leads(d, k) \in SUBSET Names
  BY DEF Leads
<1> QED BY <1>1, Link2SymlinkAssumption, FS_Subset, FS_CardinalityType

(* A file is made under a free name.                                       *)
LEMMA CreateWF ==
  ASSUME NEW d, WF(d), NEW n \in Names, Name(n) \notin DOMAIN d,
         NEW i \in Inodes, \A e \in DOMAIN d : d[e] # File(i)
  PROVE  LET r == Put(d, Name(n), File(i)) IN
         WF(r) /\ LinkOf(r) = [LinkOf(d) EXCEPT ![n] = i]
  BY PutFileShape DEF WF, Counts

(* unlink, with what decrement_link_count did before.                      *)
LEMMA UnlinkPlainWF ==
  ASSUME NEW d, WF(d), NEW n \in Names, Name(n) \in DOMAIN d, ~FakedIn(d, n)
  PROVE  LET r == Drop(d, Name(n)) IN WF(r) /\ LinkOf(r) = [LinkOf(d) EXCEPT ![n] = None]
<1> DEFINE r == Drop(d, Name(n))
<1>1. /\ Shape(r) /\ LinkOf(r) = [LinkOf(d) EXCEPT ![n] = None]
      /\ \A l : Leads(r, l) = Leads(d, l) \ {n}
      /\ \A l, a : Final(l, a) \in DOMAIN r <=> Final(l, a) \in DOMAIN d
  BY DropNameShape DEF WF
<1> HIDE DEF r
<1>2. ASSUME NEW l \in Keys, NEW a \in Nat \ {0}, Final(l, a) \in DOMAIN d
      PROVE  n \notin Leads(d, l)
  BY <1>2, Leading DEF WF, Leads
<1>3. Counts(r)
  <2> SUFFICES ASSUME NEW l \in Keys, NEW a \in Nat \ {0}, Final(l, a) \in DOMAIN r
               PROVE  a = Cardinality(Leads(r, l))
    BY DEF Counts
  <2>1. Leads(r, l) = Leads(d, l)
    BY <1>1, <1>2
  <2> QED BY <1>1, <2>1 DEF WF, Counts
<1> QED BY <1>1, <1>3 DEF WF, r

(* Of a name that is one of several, the count goes down by one.           *)
LEMMA UnlinkOneWF ==
  ASSUME NEW d, WF(d), NEW n \in Names, Name(n) \in DOMAIN d, NEW k \in Keys, d[Name(n)] = Inter(k),
         NEW c \in Nat \ {0}, c > 1, Final(k, c) \in DOMAIN d
  PROVE  LET r == Drop(Renum(d, k, c, c - 1), Name(n)) IN
         WF(r) /\ LinkOf(r) = [LinkOf(d) EXCEPT ![n] = None]
<1> DEFINE b == c - 1
           m == Renum(d, k, c, b)
           r == Drop(m, Name(n))
<1>0. b \in Nat \ {0} /\ b + 1 = c
  OBVIOUS
<1>1. c = Cardinality(Leads(d, k)) /\ n \in Leads(d, k)
  BY DEF WF, Counts, Leads
<1>2. Cardinality(Leads(d, k) \ {n}) = b
  BY <1>0, <1>1, LeadsFinite, FS_RemoveElement
<1> HIDE DEF b
<1>3. /\ Shape(m) /\ LinkOf(m) = LinkOf(d) /\ \A l : Leads(m, l) = Leads(d, l)
      /\ Name(n) \in DOMAIN m
      /\ \A l \in Keys, a \in Nat \ {0} : Final(l, a) \in DOMAIN m =>
              (l = k /\ a = b) \/ (l # k /\ Final(l, a) \in DOMAIN d)
  BY <1>0, RenumShape DEF WF
<1> HIDE DEF m
<1>4. /\ Shape(r) /\ LinkOf(r) = [LinkOf(d) EXCEPT ![n] = None]
      /\ \A l : Leads(r, l) = Leads(d, l) \ {n}
      /\ \A l, a : Final(l, a) \in DOMAIN r <=> Final(l, a) \in DOMAIN m
  BY <1>3, DropNameShape
<1> HIDE DEF r
<1>5. Counts(r)
  <2> SUFFICES ASSUME NEW l \in Keys, NEW a \in Nat \ {0}, Final(l, a) \in DOMAIN r
               PROVE  a = Cardinality(Leads(r, l))
    BY DEF Counts
  <2>1. CASE l = k
    BY <1>2, <1>3, <1>4, <2>1
  <2>2. CASE l # k
    <3>1. n \notin Leads(d, l)
      BY <2>2, Differ DEF Leads
    <3>2. Leads(r, l) = Leads(d, l) /\ Final(l, a) \in DOMAIN d
      BY <1>3, <1>4, <2>2, <3>1
    <3> QED BY <3>2 DEF WF, Counts
  <2> QED BY <2>1, <2>2
<1> QED BY <1>4, <1>5 DEF WF, r, m, b

(* With the last name, the intermediate link and the file go.              *)
LEMMA UnlinkLastWF ==
  ASSUME NEW d, WF(d), NEW n \in Names, Name(n) \in DOMAIN d, NEW k \in Keys, d[Name(n)] = Inter(k),
         Final(k, 1) \in DOMAIN d
  PROVE  LET r == DropKey(Drop(d, Name(n)), k, 1) IN
         /\ WF(r) /\ LinkOf(r) = [LinkOf(d) EXCEPT ![n] = None]
         /\ Leads(d, k) = {n}
<1> DEFINE m == Drop(d, Name(n))
           r == DropKey(m, k, 1)
<1>0. 1 \in Nat \ {0}
  OBVIOUS
<1>1. Cardinality(Leads(d, k)) = 1 /\ n \in Leads(d, k)
  BY <1>0 DEF WF, Counts, Leads
<1>2. Leads(d, k) = {n}
  BY <1>1, LeadsFinite, FS_Singleton
<1>3. /\ Shape(m) /\ LinkOf(m) = [LinkOf(d) EXCEPT ![n] = None]
      /\ \A l : Leads(m, l) = Leads(d, l) \ {n}
      /\ \A l, a : Final(l, a) \in DOMAIN m <=> Final(l, a) \in DOMAIN d
  BY DropNameShape DEF WF
<1> HIDE DEF m
<1>4. /\ Shape(r) /\ LinkOf(r) = LinkOf(m) /\ \A l : Leads(r, l) = Leads(m, l)
      /\ \A l \in Keys, a \in Nat \ {0} :
              Final(l, a) \in DOMAIN r => l # k /\ Final(l, a) \in DOMAIN m
  <2>1. Leads(m, k) = {} /\ Final(k, 1) \in DOMAIN m
    BY <1>2, <1>3
  <2> QED BY <1>0, <1>3, <2>1, DropKeyShape
<1> HIDE DEF r
<1>5. Counts(r)
  <2> SUFFICES ASSUME NEW l \in Keys, NEW a \in Nat \ {0}, Final(l, a) \in DOMAIN r
               PROVE  a = Cardinality(Leads(r, l))
    BY DEF Counts
  <2>1. l # k /\ Final(l, a) \in DOMAIN d
    BY <1>3, <1>4
  <2>2. n \notin Leads(d, l)
    BY <2>1, Differ DEF Leads
  <2>3. Leads(r, l) = Leads(d, l)
    BY <1>3, <1>4, <2>2
  <2> QED BY <2>1, <2>3 DEF WF, Counts
<1> QED BY <1>2, <1>3, <1>4, <1>5 DEF WF, r, m

(* link of a name that is faked already.                                   *)
LEMMA LinkFakedWF ==
  ASSUME NEW d, WF(d), NEW o \in Names, Name(o) \in DOMAIN d, NEW k \in Keys, d[Name(o)] = Inter(k),
         NEW c \in Nat \ {0}, Final(k, c) \in DOMAIN d, NEW n \in Names, Name(n) \notin DOMAIN d
  PROVE  LET r == Put(Renum(d, k, c, c + 1), Name(n), Inter(k)) IN
         WF(r) /\ LinkOf(r) = [LinkOf(d) EXCEPT ![n] = PathIn(d, o)]
<1> DEFINE b == c + 1
           m == Renum(d, k, c, b)
           r == Put(m, Name(n), Inter(k))
           i == PathIn(d, o)
<1>0. b \in Nat \ {0}
  OBVIOUS
<1>1. c = Cardinality(Leads(d, k)) /\ n \notin Leads(d, k)
  BY DEF WF, Counts, Leads
<1>2. Cardinality(Leads(d, k) \cup {n}) = b
  BY <1>1, LeadsFinite, FS_AddElement
<1> HIDE DEF b
<1>3. /\ Shape(m) /\ LinkOf(m) = LinkOf(d) /\ \A l : Leads(m, l) = Leads(d, l)
      /\ Name(n) \notin DOMAIN m /\ Final(k, b) \in DOMAIN m
      /\ \A l \in Keys, a \in Nat \ {0} : Final(l, a) \in DOMAIN m =>
              (l = k /\ a = b) \/ (l # k /\ Final(l, a) \in DOMAIN d)
  BY <1>0, RenumShape DEF WF
<1>4. m[Final(k, b)] = File(i)
  <2>1. d[Final(k, c)] = File(i)
    BY Leading DEF WF
  <2>2. Final(k, b) # Inter(k)
    BY Differ
  <2> QED BY <2>1, <2>2 DEF Renum
<1> HIDE DEF m, i
<1>5. /\ Shape(r) /\ LinkOf(r) = [LinkOf(d) EXCEPT ![n] = i]
      /\ Leads(r, k) = Leads(d, k) \cup {n} /\ \A l : l # k => Leads(r, l) = Leads(d, l)
      /\ \A l, a : Final(l, a) \in DOMAIN r <=> Final(l, a) \in DOMAIN m
  BY <1>0, <1>3, <1>4, PutLinkShape
<1> HIDE DEF r
<1>6. Counts(r)
  <2> SUFFICES ASSUME NEW l \in Keys, NEW a \in Nat \ {0}, Final(l, a) \in DOMAIN r
               PROVE  a = Cardinality(Leads(r, l))
    BY DEF Counts
  <2>1. CASE l = k
    BY <1>2, <1>3, <1>5, <2>1
  <2>2. CASE l # k
    BY <1>3, <1>5, <2>2 DEF WF, Counts
  <2> QED BY <2>1, <2>2
<1> QED BY <1>5, <1>6 DEF WF, r, m, b, i

(* link of a name that has a file of its own.                              *)
LEMMA LinkPlainWF ==
  ASSUME NEW d, WF(d), NEW o \in Names, Name(o) \in DOMAIN d, NEW i \in Inodes, d[Name(o)] = File(i),
         NEW k \in Keys, Inter(k) \notin DOMAIN d, NEW n \in Names, Name(n) \notin DOMAIN d
  PROVE  LET r == Put(Convert(d, o, k), Name(n), Inter(k)) IN
         WF(r) /\ LinkOf(r) = [LinkOf(d) EXCEPT ![n] = i]
<1> DEFINE m == Convert(d, o, k)
           r == Put(m, Name(n), Inter(k))
<1>1. /\ Shape(m) /\ LinkOf(m) = LinkOf(d)
      /\ Leads(m, k) = {o} /\ \A l \in Keys : l # k => Leads(m, l) = Leads(d, l)
      /\ Name(n) \notin DOMAIN m
      /\ Final(k, 2) \in DOMAIN m /\ m[Final(k, 2)] = File(i)
      /\ \A l \in Keys, a \in Nat \ {0} : Final(l, a) \in DOMAIN m =>
              (l = k /\ a = 2) \/ (l # k /\ Final(l, a) \in DOMAIN d)
  BY ConvertShape DEF WF
<1> HIDE DEF m
<1>2. 2 \in Nat \ {0}
  OBVIOUS
<1>3. /\ Shape(r) /\ LinkOf(r) = [LinkOf(d) EXCEPT ![n] = i]
      /\ Leads(r, k) = Leads(m, k) \cup {n} /\ \A l : l # k => Leads(r, l) = Leads(m, l)
      /\ \A l, a : Final(l, a) \in DOMAIN r <=> Final(l, a) \in DOMAIN m
  BY <1>1, <1>2, PutLinkShape
<1> HIDE DEF r
<1>4. Cardinality(Leads(r, k)) = 2
  <2>1. Leads(r, k) = {o} \cup {n} /\ n \notin {o}
    BY <1>1, <1>3
  <2>2. IsFiniteSet({o}) /\ Cardinality({o}) = 1
    BY FS_Singleton
  <2>3. Cardinality({o} \cup {n}) = 1 + 1
    BY <2>1, <2>2, FS_AddElement
  <2> QED BY <2>1, <2>3
<1>5. Counts(r)
  <2> SUFFICES ASSUME NEW l \in Keys, NEW a \in Nat \ {0}, Final(l, a) \in DOMAIN r
               PROVE  a = Cardinality(Leads(r, l))
    BY DEF Counts
  <2>1. CASE l = k
    BY <1>1, <1>3, <1>4, <2>1
  <2>2. CASE l # k
    BY <1>1, <1>3, <2>2 DEF WF, Counts
  <2> QED BY <2>1, <2>2
<1> QED BY <1>3, <1>5 DEF WF, r, m

(* rename to a name that is free.                                          *)
LEMMA MoveWF ==
  ASSUME NEW d, WF(d), NEW o \in Names, Name(o) \in DOMAIN d, NEW n \in Names, Name(n) \notin DOMAIN d
  PROVE  LET r == Move(d, Name(o), Name(n)) IN
         WF(r) /\ LinkOf(r) = [LinkOf(d) EXCEPT ![n] = PathIn(d, o), ![o] = None]
<1> DEFINE m == Drop(d, Name(o))
           x == d[Name(o)]
           r == Move(d, Name(o), Name(n))
<1>0. o # n
  OBVIOUS
<1>1. r = Put(m, Name(n), x)
  <2>1. DOMAIN r = (DOMAIN d \ {Name(o)}) \cup {Name(n)}
        /\ r = [e \in DOMAIN r |-> IF e = Name(n) THEN x ELSE d[e]]
    BY DEF Move
  <2>2. DOMAIN m = DOMAIN d \ {Name(o)} /\ \A e \in DOMAIN m : m[e] = d[e]
    BY DEF Drop
  <2>3. Put(m, Name(n), x) = [e \in DOMAIN m \cup {Name(n)} |-> IF e = Name(n) THEN x ELSE m[e]]
    BY DEF Put
  <2> HIDE DEF m, r, x
  <2>4. \A e \in DOMAIN r : (IF e = Name(n) THEN x ELSE m[e]) = (IF e = Name(n) THEN x ELSE d[e])
    BY <2>1, <2>2
  <2> QED BY <2>1, <2>2, <2>3, <2>4
<1>2. /\ Shape(m) /\ LinkOf(m) = [LinkOf(d) EXCEPT ![o] = None]
      /\ \A l : Leads(m, l) = Leads(d, l) \ {o}
      /\ \A l, a : Final(l, a) \in DOMAIN m <=> Final(l, a) \in DOMAIN d
  BY DropNameShape DEF WF
<1>3. DOMAIN m = DOMAIN d \ {Name(o)} /\ \A e \in DOMAIN m : m[e] = d[e]
  BY DEF Drop
<1> HIDE DEF r, m
<1>4. \A i : [[LinkOf(d) EXCEPT ![o] = None] EXCEPT ![n] = i]
               = [LinkOf(d) EXCEPT ![n] = i, ![o] = None]
  BY <1>0 DEF LinkOf
<1>5. ASSUME NEW i \in Inodes, x = File(i)
      PROVE  WF(r) /\ LinkOf(r) = [LinkOf(d) EXCEPT ![n] = PathIn(d, o), ![o] = None]
  <2>1. PathIn(d, o) = i /\ ~FakedIn(d, o)
    BY <1>5, Leading DEF WF
  <2>2. \A e \in DOMAIN m : m[e] # File(i)
    BY <1>3, <1>5 DEF WF, Shape, FilesPart
  <2>3. WF(m)
    BY <2>1, UnlinkPlainWF DEF m
  <2>4. WF(r) /\ LinkOf(r) = [LinkOf(m) EXCEPT ![n] = i]
    BY <1>1, <1>3, <1>5, <2>2, <2>3, CreateWF
  <2> QED BY <1>2, <1>4, <2>1, <2>4
<1>6. ASSUME NEW k \in Keys, NEW c \in Nat \ {0}, x = Inter(k), Final(k, c) \in DOMAIN d
      PROVE  WF(r) /\ LinkOf(r) = [LinkOf(d) EXCEPT ![n] = PathIn(d, o), ![o] = None]
  <2> DEFINE i == PathIn(d, o)
  <2>1. d[Final(k, c)] = File(i)
    BY <1>6, Leading DEF WF
  <2>2. Final(k, c) \in DOMAIN m /\ m[Final(k, c)] = File(i)
    BY <1>2, <1>3, <1>6, <2>1
  <2> HIDE DEF i
  <2>3. /\ Shape(r) /\ LinkOf(r) = [LinkOf(m) EXCEPT ![n] = i]
        /\ Leads(r, k) = Leads(m, k) \cup {n} /\ \A l : l # k => Leads(r, l) = Leads(m, l)
        /\ \A l, a : Final(l, a) \in DOMAIN r <=> Final(l, a) \in DOMAIN m
    BY <1>1, <1>2, <1>3, <1>6, <2>2, PutLinkShape
  <2>4. Cardinality(Leads(r, k)) = Cardinality(Leads(d, k))
    <3>1. o \in Leads(d, k) /\ n \notin Leads(d, k) \ {o}
      BY <1>6 DEF Leads
    <3>2. IsFiniteSet(Leads(d, k) \ {o})
          /\ Cardinality(Leads(d, k) \ {o}) = Cardinality(Leads(d, k)) - 1
      BY <3>1, LeadsFinite, FS_RemoveElement
    <3>3. Cardinality((Leads(d, k) \ {o}) \cup {n}) = (Cardinality(Leads(d, k)) - 1) + 1
      BY <3>1, <3>2, FS_AddElement
    <3>4. Cardinality(Leads(d, k)) \in Nat
      BY LeadsFinite
    <3>5. Leads(r, k) = (Leads(d, k) \ {o}) \cup {n}
      BY <1>2, <2>3
    <3> QED BY <3>3, <3>4, <3>5
  <2>5. Counts(r)
    <3> SUFFICES ASSUME NEW l \in Keys, NEW a \in Nat \ {0}, Final(l, a) \in DOMAIN r
                 PROVE  a = Cardinality(Leads(r, l))
      BY DEF Counts
    <3>1. Final(l, a) \in DOMAIN d /\ a = Cardinality(Leads(d, l))
      BY <1>2, <2>3 DEF WF, Counts
    <3>2. CASE l = k
      BY <2>4, <3>1, <3>2
    <3>3. CASE l # k
      <4>1. o \notin Leads(d, l)
        BY <1>6, <3>3, Differ DEF Leads
      <4>2. Leads(r, l) = Leads(d, l)
        BY <1>2, <2>3, <3>3, <4>1
      <4> QED BY <3>1, <4>2
    <3> QED BY <3>2, <3>3
  <2> QED BY <1>2, <1>4, <2>3, <2>5 DEF WF, i
<1> QED BY <1>5, <1>6, Leading DEF WF, r

-----------------------------------------------------------------------------
(* The host calls, one after the other.                                    *)
Do(d, h) == IF h.do = "rename" THEN Move(d, h.at, h.to)
            ELSE IF h.do = "unlink" THEN Drop(d, h.at) ELSE Put(d, h.at, h.to)
CanDo(d, h) == IF h.do = "symlink" THEN h.at \notin DOMAIN d
               ELSE h.do = "l2s_symlink" \/ h.at \in DOMAIN d

(* They are those of the model.                                            *)
LEMMA DoneIsDo ==
  ASSUME NEW h PROVE Done(h) = Do(dir, h) /\ (Possible(h) <=> CanDo(dir, h))
  BY DEF Done, Do, Move, Drop, Put, Without, With, Restrict, Possible, CanDo, Exists

(* What each of them does, and when it can.                                *)
LEMMA DoMoves ==
  ASSUME NEW d, NEW a, NEW b
  PROVE  /\ Do(d, Rename(a, b)) = Move(d, a, b) /\ (CanDo(d, Rename(a, b)) <=> a \in DOMAIN d)
         /\ Do(d, Unlink(a)) = Drop(d, a) /\ (CanDo(d, Unlink(a)) <=> a \in DOMAIN d)
         /\ Do(d, L2sSymlink(b, a)) = Put(d, a, b) /\ CanDo(d, L2sSymlink(b, a))
         /\ Do(d, Symlink(b, a)) = Put(d, a, b) /\ (CanDo(d, Symlink(b, a)) <=> a \notin DOMAIN d)
  BY DEF Do, CanDo, Rename, Unlink, L2sSymlink, Symlink

(* The calls still to do of a plan of two, three or four.                  *)
P2(d, a, b, td, x) ==
  \/ td = <<a, b>> /\ x = d
  \/ td = <<b>> /\ x = Do(d, a)
  \/ td = <<>> /\ x = Do(Do(d, a), b)
P3(d, a, b, c, td, x) == (td = <<a, b, c>> /\ x = d) \/ P2(Do(d, a), b, c, td, x)
P4(d, a, b, c, e, td, x) == (td = <<a, b, c, e>> /\ x = d) \/ P3(Do(d, a), b, c, e, td, x)

(* Doing the next call goes on to the next stage.                          *)
LEMMA P2Step ==
  ASSUME NEW d, NEW a, NEW b, NEW td, NEW x, td # <<>>, P2(d, a, b, td, x)
  PROVE  P2(d, a, b, Tail(td), Do(x, Head(td)))
<1>1. CASE td = <<a, b>> /\ x = d
  <2>1. Head(td) = a /\ Tail(td) = <<b>>
    BY <1>1
  <2> QED BY <1>1, <2>1 DEF P2
<1>2. CASE td = <<b>> /\ x = Do(d, a)
  <2>1. Head(td) = b /\ Tail(td) = <<>>
    BY <1>2
  <2> QED BY <1>2, <2>1 DEF P2
<1> QED BY <1>1, <1>2 DEF P2

(* The same of a plan of three.                                            *)
LEMMA P3Step ==
  ASSUME NEW d, NEW a, NEW b, NEW c, NEW td, NEW x, td # <<>>, P3(d, a, b, c, td, x)
  PROVE  P3(d, a, b, c, Tail(td), Do(x, Head(td)))
<1>1. CASE td = <<a, b, c>> /\ x = d
  <2>1. Head(td) = a /\ Tail(td) = <<b, c>>
    BY <1>1
  <2> QED BY <1>1, <2>1 DEF P3, P2
<1>2. CASE P2(Do(d, a), b, c, td, x)
  BY <1>2, P2Step DEF P3
<1> QED BY <1>1, <1>2 DEF P3

(* The same of a plan of four.                                             *)
LEMMA P4Step ==
  ASSUME NEW d, NEW a, NEW b, NEW c, NEW e, NEW td, NEW x, td # <<>>, P4(d, a, b, c, e, td, x)
  PROVE  P4(d, a, b, c, e, Tail(td), Do(x, Head(td)))
<1>1. CASE td = <<a, b, c, e>> /\ x = d
  <2>1. Head(td) = a /\ Tail(td) = <<b, c, e>>
    BY <1>1
  <2> QED BY <1>1, <2>1 DEF P4, P3
<1>2. CASE P3(Do(d, a), b, c, e, td, x)
  BY <1>2, P3Step DEF P4
<1> QED BY <1>1, <1>2 DEF P4

(* Files that are somewhere in d are somewhere in x.                       *)
Kept(d, x) == \A i \in Inodes : (\E e \in DOMAIN d : d[e] = File(i)) =>
                                  \E e \in DOMAIN x : x[e] = File(i)

(* Which host calls keep the files: a rename to an entry that is free, and *)
(* what removes or replaces an entry that is not a file.                   *)
LEMMA KeptSteps ==
  ASSUME NEW d, NEW a, NEW b
  PROVE  /\ a \in DOMAIN d /\ b \notin DOMAIN d => Kept(d, Move(d, a, b))
         /\ (\A i \in Inodes : a \in DOMAIN d => d[a] # File(i)) => Kept(d, Drop(d, a))
         /\ (\A i \in Inodes : a \in DOMAIN d => d[a] # File(i)) => Kept(d, Put(d, a, b))
         /\ \A x : Kept(d, x) => \A y : Kept(x, y) => Kept(d, y)
<1>1. ASSUME a \in DOMAIN d, b \notin DOMAIN d PROVE Kept(d, Move(d, a, b))
  <2> SUFFICES ASSUME NEW i \in Inodes, NEW e \in DOMAIN d, d[e] = File(i)
               PROVE  \E f \in DOMAIN Move(d, a, b) : Move(d, a, b)[f] = File(i)
    BY DEF Kept
  <2>1. CASE e = a
    BY <1>1, <2>1 DEF Move
  <2>2. CASE e # a
    BY <1>1, <2>2 DEF Move
  <2> QED BY <2>1, <2>2
<1>2. ASSUME \A i \in Inodes : a \in DOMAIN d => d[a] # File(i) PROVE Kept(d, Drop(d, a))
  BY <1>2 DEF Kept, Drop
<1>3. ASSUME \A i \in Inodes : a \in DOMAIN d => d[a] # File(i) PROVE Kept(d, Put(d, a, b))
  BY <1>3 DEF Kept, Put
<1>4. \A x : Kept(d, x) => \A y : Kept(x, y) => Kept(d, y)
  BY DEF Kept
<1> QED BY <1>1, <1>2, <1>3, <1>4

(* Two directories with the same entries.                                  *)
LEMMA Extensional ==
  ASSUME NEW x, NEW y, x = [e \in DOMAIN x |-> x[e]], y = [e \in DOMAIN y |-> y[e]],
         DOMAIN x = DOMAIN y, \A e \in DOMAIN x : x[e] = y[e]
  PROVE  x = y
  OBVIOUS

(* A final is renamed, and the intermediate link made anew.                *)
LEMMA RenumSteps ==
  ASSUME NEW d, Shape(d), NEW k \in Keys, NEW b \in Nat \ {0}, NEW c \in Nat \ {0}, b # c,
         Final(k, b) \in DOMAIN d
  PROVE  LET d1 == Move(d, Final(k, b), Final(k, c))
             d2 == Drop(d1, Inter(k))
             d3 == Put(d2, Inter(k), Final(k, c))
         IN  /\ d3 = Renum(d, k, b, c) /\ Inter(k) \in DOMAIN d1
             /\ Kept(d, d1) /\ Kept(d, d2) /\ Kept(d, d3)
             /\ \A n \in Names : Name(n) \in DOMAIN d /\ d[Name(n)] = Inter(k) =>
                  PathIn(d1, n) = None /\ PathIn(d2, n) = None
<1> DEFINE f == Final(k, b)
           g == Final(k, c)
           d1 == Move(d, f, g)
           d2 == Drop(d1, Inter(k))
           d3 == Put(d2, Inter(k), g)
           r == Renum(d, k, b, c)
<1>1. Inter(k) \in DOMAIN d /\ d[Inter(k)] = f /\ g \notin DOMAIN d /\ f # g
      /\ Inter(k) # f /\ Inter(k) # g
  BY OneFinal, Differ DEF Shape, FinalsPart
<1>2. /\ DOMAIN d1 = (DOMAIN d \ {f}) \cup {g} /\ d1[g] = d[f]
      /\ \A e \in DOMAIN d \ {f} : d1[e] = d[e]
  BY <1>1 DEF Move
<1>3. /\ DOMAIN d2 = DOMAIN d1 \ {Inter(k)} /\ \A e \in DOMAIN d2 : d2[e] = d1[e]
  BY DEF Drop
<1>4. /\ DOMAIN d3 = DOMAIN d2 \cup {Inter(k)} /\ d3 = [e \in DOMAIN d3 |-> d3[e]]
      /\ d3[Inter(k)] = g /\ \A e \in DOMAIN d2 \ {Inter(k)} : d3[e] = d2[e]
  BY DEF Put
<1>5. /\ DOMAIN r = (DOMAIN d \ {f}) \cup {g} /\ r = [e \in DOMAIN r |-> r[e]]
      /\ \A e \in DOMAIN r : r[e] = IF e = Inter(k) THEN g ELSE IF e = g THEN d[f] ELSE d[e]
  BY DEF Renum
<1>6. Kept(d, d1)
  BY <1>1, KeptSteps
<1>7. Kept(d1, d2)
  <2>1. d1[Inter(k)] = f
    BY <1>1, <1>2
  <2>2. \A i \in Inodes : d1[Inter(k)] # File(i)
    BY <2>1, Differ
  <2> QED BY <2>2, KeptSteps
<1>8. Kept(d2, d3)
  BY <1>3, KeptSteps
<1> HIDE DEF d1, d2, d3, r
<1>9. d3 = r
  <2>1. DOMAIN d3 = DOMAIN r
    BY <1>1, <1>2, <1>3, <1>4, <1>5
  <2>2. \A e \in DOMAIN d3 : d3[e] = r[e]
    BY <1>1, <1>2, <1>3, <1>4, <1>5
  <2> QED BY <1>4, <1>5, <2>1, <2>2, Extensional
<1>10. ASSUME NEW n \in Names, Name(n) \in DOMAIN d, d[Name(n)] = Inter(k)
       PROVE  PathIn(d1, n) = None /\ PathIn(d2, n) = None
  <2>1. Name(n) # f /\ Name(n) # g /\ Name(n) # Inter(k)
    BY Differ
  <2>2. Name(n) \in DOMAIN d1 /\ d1[Name(n)] = Inter(k) /\ Inter(k) \in DOMAIN d1 /\ d1[Inter(k)] = f
        /\ f \notin DOMAIN d1
    BY <1>1, <1>2, <1>10, <2>1
  <2>3. Name(n) \in DOMAIN d2 /\ d2[Name(n)] = Inter(k) /\ Inter(k) \notin DOMAIN d2
    BY <1>3, <2>1, <2>2
  <2>4. FakedIn(d1, n) /\ ~FakedIn(d2, n)
    BY <2>2, <2>3, Entries DEF FakedIn, IsInter
  <2>5. d2[Name(n)][1] # "file"
    BY <2>3, Entries
  <2> QED BY <2>2, <2>3, <2>4, <2>5 DEF PathIn
<1>11. Inter(k) \in DOMAIN d1 /\ Kept(d, d2) /\ Kept(d, d3)
  BY <1>1, <1>2, <1>6, <1>7, <1>8, KeptSteps
<1> QED BY <1>6, <1>9, <1>10, <1>11 DEF d1, d2, d3, r

(* The last link goes, and with it the final.                              *)
LEMMA LastSteps ==
  ASSUME NEW d, WF(d), NEW n \in Names, Name(n) \in DOMAIN d, NEW k \in Keys, d[Name(n)] = Inter(k),
         Final(k, 1) \in DOMAIN d
  PROVE  LET d1 == Drop(d, Inter(k))
             d2 == Drop(d1, Final(k, 1))
         IN  /\ Drop(d2, Name(n)) = DropKey(Drop(d, Name(n)), k, 1)
             /\ \A m : /\ Name(m) \in DOMAIN d2 <=> Name(m) \in DOMAIN d
                       /\ Name(m) \in DOMAIN d => d2[Name(m)] = d[Name(m)]
             /\ Inter(k) \in DOMAIN d /\ Final(k, 1) \in DOMAIN d1 /\ Kept(d, d1)
             /\ PathIn(d1, n) = None
             /\ \A m \in Names \ {n} : PathIn(d, m) # None =>
                  \E e \in DOMAIN d2 : d2[e] = File(PathIn(d, m))
<1> DEFINE f == Final(k, 1)
           d1 == Drop(d, Inter(k))
           d2 == Drop(d1, f)
           x == Drop(d2, Name(n))
           m0 == Drop(d, Name(n))
           y == DropKey(m0, k, 1)
<1>0. 1 \in Nat \ {0}
  OBVIOUS
<1>1. Inter(k) \in DOMAIN d /\ d[Inter(k)] = f /\ Inter(k) # f
  BY <1>0, Differ DEF WF, Shape, FinalsPart
<1>2. /\ DOMAIN d1 = DOMAIN d \ {Inter(k)} /\ \A e \in DOMAIN d1 : d1[e] = d[e]
  BY DEF Drop
<1>3. /\ DOMAIN d2 = DOMAIN d1 \ {f} /\ \A e \in DOMAIN d2 : d2[e] = d1[e]
  BY DEF Drop
<1>4. /\ DOMAIN x = DOMAIN d2 \ {Name(n)} /\ \A e \in DOMAIN x : x[e] = d2[e]
      /\ x = [e \in DOMAIN x |-> x[e]]
  BY DEF Drop
<1>5. /\ DOMAIN m0 = DOMAIN d \ {Name(n)} /\ \A e \in DOMAIN m0 : m0[e] = d[e]
  BY DEF Drop
<1>6. /\ DOMAIN y = DOMAIN m0 \ {Inter(k), f} /\ \A e \in DOMAIN y : y[e] = m0[e]
      /\ y = [e \in DOMAIN y |-> y[e]]
  BY DEF DropKey
<1>7. Kept(d, d1)
  BY <1>1, Differ, KeptSteps
<1> HIDE DEF d1, d2, x, m0, y
<1>8. x = y
  <2>1. DOMAIN x = DOMAIN y /\ \A e \in DOMAIN x : x[e] = y[e]
    BY <1>2, <1>3, <1>4, <1>5, <1>6
  <2> QED BY <1>4, <1>6, <2>1, Extensional
<1>9. \A m : /\ Name(m) \in DOMAIN d2 <=> Name(m) \in DOMAIN d
             /\ Name(m) \in DOMAIN d => d2[Name(m)] = d[Name(m)]
  BY <1>2, <1>3, Differ
<1>10. PathIn(d1, n) = None
  <2>1. Name(n) \in DOMAIN d1 /\ d1[Name(n)] = Inter(k) /\ Inter(k) \notin DOMAIN d1
    BY <1>2, Differ
  <2>2. d1[Name(n)][1] # "file"
    BY <2>1, Entries
  <2> QED BY <2>1, <2>2 DEF PathIn, FakedIn
<1>11. ASSUME NEW m \in Names \ {n}, PathIn(d, m) # None
       PROVE  \E e \in DOMAIN d2 : d2[e] = File(PathIn(d, m))
  <2>1. Name(m) \in DOMAIN d
    BY <1>11, Leading DEF WF
  <2>2. ASSUME NEW i \in Inodes, d[Name(m)] = File(i)
        PROVE  \E e \in DOMAIN d2 : d2[e] = File(PathIn(d, m))
    <3>1. PathIn(d, m) = i
      BY <2>1, <2>2, Leading DEF WF
    <3> QED BY <1>9, <2>1, <2>2, <3>1
  <2>3. ASSUME NEW l \in Keys, NEW a \in Nat \ {0}, d[Name(m)] = Inter(l), Final(l, a) \in DOMAIN d
        PROVE  \E e \in DOMAIN d2 : d2[e] = File(PathIn(d, m))
    <3>1. Leads(d, k) = {n}
      BY UnlinkLastWF
    <3>2. l # k
      BY <1>11, <2>1, <2>3, <3>1 DEF Leads
    <3>3. Final(l, a) \in DOMAIN d2 /\ d2[Final(l, a)] = d[Final(l, a)]
      BY <1>2, <1>3, <2>3, <3>2, Differ
    <3>4. d[Final(l, a)] = File(PathIn(d, m))
      BY <2>1, <2>3, Leading DEF WF
    <3> QED BY <3>3, <3>4
  <2> QED BY <2>1, <2>2, <2>3, Leading DEF WF
<1>12. f \in DOMAIN d1
  BY <1>1, <1>2
<1> QED BY <1>1, <1>7, <1>8, <1>9, <1>10, <1>11, <1>12 DEF d1, d2, x, m0, y

(* A file becomes a final, the links to it are made; and the way back.     *)
LEMMA ConvertSteps ==
  ASSUME NEW d, Shape(d), NEW o \in Names, Name(o) \in DOMAIN d, NEW i \in Inodes, d[Name(o)] = File(i),
         NEW k \in Keys, Inter(k) \notin DOMAIN d
  PROVE  LET d1 == Move(d, Name(o), Final(k, 2))
             d2 == Put(d1, Inter(k), Final(k, 2))
             d3 == Put(d2, Name(o), Inter(k))
         IN  /\ d3 = Convert(d, o, k) /\ Kept(d, d1) /\ Kept(d, d2) /\ Kept(d, d3)
             /\ Name(o) \notin DOMAIN d2 /\ PathIn(d1, o) = None /\ PathIn(d2, o) = None
<1> DEFINE g == Final(k, 2)
           d1 == Move(d, Name(o), g)
           d2 == Put(d1, Inter(k), g)
           d3 == Put(d2, Name(o), Inter(k))
           r == Convert(d, o, k)
<1>1. g \notin DOMAIN d /\ g # Name(o) /\ g # Inter(k) /\ Inter(k) # Name(o)
  <2>1. 2 \in Nat \ {0}
    OBVIOUS
  <2> QED BY <2>1, Differ DEF Shape, FinalsPart
<1>2. /\ DOMAIN d1 = (DOMAIN d \ {Name(o)}) \cup {g} /\ d1[g] = d[Name(o)]
      /\ \A e \in DOMAIN d \ {Name(o)} : d1[e] = d[e]
  BY <1>1 DEF Move
<1>3. /\ DOMAIN d2 = DOMAIN d1 \cup {Inter(k)} /\ d2[Inter(k)] = g
      /\ \A e \in DOMAIN d1 \ {Inter(k)} : d2[e] = d1[e]
  BY DEF Put
<1>4. /\ DOMAIN d3 = DOMAIN d2 \cup {Name(o)} /\ d3[Name(o)] = Inter(k)
      /\ d3 = [e \in DOMAIN d3 |-> d3[e]] /\ \A e \in DOMAIN d2 \ {Name(o)} : d3[e] = d2[e]
  BY DEF Put
<1>5. /\ DOMAIN r = DOMAIN d \cup {Inter(k), g} /\ r = [e \in DOMAIN r |-> r[e]]
      /\ \A e \in DOMAIN r : r[e] = IF e = Name(o) THEN Inter(k) ELSE IF e = Inter(k) THEN g
                                    ELSE IF e = g THEN d[Name(o)] ELSE d[e]
  BY DEF Convert
<1>6. Kept(d, d1)
  BY <1>1, KeptSteps
<1>7. Kept(d1, d2)
  <2>1. Inter(k) \notin DOMAIN d1
    BY <1>1, <1>2
  <2> QED BY <2>1, KeptSteps
<1>8. Name(o) \notin DOMAIN d1 /\ Name(o) \notin DOMAIN d2
  BY <1>1, <1>2, <1>3
<1>9. Kept(d2, d3)
  BY <1>8, KeptSteps
<1> HIDE DEF d1, d2, d3, r
<1>10. d3 = r
  <2>1. DOMAIN d3 = DOMAIN r
    BY <1>1, <1>2, <1>3, <1>4, <1>5
  <2>2. \A e \in DOMAIN d3 : d3[e] = r[e]
    BY <1>1, <1>2, <1>3, <1>4, <1>5
  <2> QED BY <1>4, <1>5, <2>1, <2>2, Extensional
<1>11. PathIn(d1, o) = None /\ PathIn(d2, o) = None
  BY <1>8 DEF PathIn, FakedIn
<1>12. Kept(d, d2) /\ Kept(d, d3)
  BY <1>6, <1>7, <1>9, KeptSteps
<1> QED BY <1>6, <1>8, <1>10, <1>11, <1>12 DEF d1, d2, d3, r

(* The calls of UndoLink give the file its name back.                      *)
LEMMA UnconvertSteps ==
  ASSUME NEW d, Shape(d), NEW o \in Names, Name(o) \in DOMAIN d, NEW i \in Inodes, d[Name(o)] = File(i),
         NEW k \in Keys, Inter(k) \notin DOMAIN d
  PROVE  LET d3 == Convert(d, o, k)
             u1 == Drop(d3, Name(o))
             u2 == Move(u1, Final(k, 2), Name(o))
             u3 == Drop(u2, Inter(k))
         IN  u3 = d /\ Kept(d, u1) /\ Kept(d, u2)
<1> DEFINE g == Final(k, 2)
           d3 == Convert(d, o, k)
           u1 == Drop(d3, Name(o))
           u2 == Move(u1, g, Name(o))
           u3 == Drop(u2, Inter(k))
<1>1. g \notin DOMAIN d /\ g # Name(o) /\ g # Inter(k) /\ Inter(k) # Name(o)
  <2>1. 2 \in Nat \ {0}
    OBVIOUS
  <2> QED BY <2>1, Differ DEF Shape, FinalsPart
<1>2. /\ DOMAIN d3 = DOMAIN d \cup {Inter(k), g}
      /\ d3[Name(o)] = Inter(k) /\ d3[Inter(k)] = g /\ d3[g] = d[Name(o)]
      /\ \A e \in DOMAIN d \ {Name(o)} : d3[e] = d[e]
  BY <1>1 DEF Convert
<1>3. /\ DOMAIN u1 = DOMAIN d3 \ {Name(o)} /\ \A e \in DOMAIN u1 : u1[e] = d3[e]
  BY DEF Drop
<1>4. /\ DOMAIN u2 = (DOMAIN u1 \ {g}) \cup {Name(o)} /\ u2[Name(o)] = u1[g]
      /\ \A e \in DOMAIN u1 \ {g, Name(o)} : u2[e] = u1[e]
  BY <1>1 DEF Move
<1>5. /\ DOMAIN u3 = DOMAIN u2 \ {Inter(k)} /\ u3 = [e \in DOMAIN u3 |-> u3[e]]
      /\ \A e \in DOMAIN u3 : u3[e] = u2[e]
  BY DEF Drop
<1>6. d = [e \in DOMAIN d |-> d[e]]
  BY DEF Shape, EntriesPart
<1>7. Kept(d, d3)
  BY ConvertSteps
<1>8. Kept(d3, u1)
  BY <1>2, Differ, KeptSteps
<1>9. Kept(u1, u2)
  BY <1>1, <1>2, <1>3, KeptSteps
<1> HIDE DEF d3, u1, u2, u3
<1>10. u3 = d
  <2>1. DOMAIN u3 = DOMAIN d
    BY <1>1, <1>2, <1>3, <1>4, <1>5
  <2>2. \A e \in DOMAIN u3 : u3[e] = d[e]
    BY <1>1, <1>2, <1>3, <1>4, <1>5
  <2> QED BY <1>5, <1>6, <2>1, <2>2, Extensional
<1> QED BY <1>7, <1>8, <1>9, <1>10, KeptSteps DEF d3, u1, u2, u3

(* A count up is taken back by a count down.                               *)
LEMMA RenumBack ==
  ASSUME NEW d, Shape(d), NEW k \in Keys, NEW b \in Nat \ {0}, NEW c \in Nat \ {0}, b # c,
         Final(k, b) \in DOMAIN d
  PROVE  Renum(Renum(d, k, b, c), k, c, b) = d
<1> DEFINE f == Final(k, b)
           g == Final(k, c)
           m == Renum(d, k, b, c)
           r == Renum(m, k, c, b)
<1>1. Inter(k) \in DOMAIN d /\ d[Inter(k)] = f /\ g \notin DOMAIN d /\ f # g
      /\ Inter(k) # f /\ Inter(k) # g
  BY OneFinal, Differ DEF Shape, FinalsPart
<1>2. /\ DOMAIN m = (DOMAIN d \ {f}) \cup {g}
      /\ \A e \in DOMAIN m : m[e] = IF e = Inter(k) THEN g ELSE IF e = g THEN d[f] ELSE d[e]
  BY DEF Renum
<1>3. /\ DOMAIN r = (DOMAIN m \ {g}) \cup {f} /\ r = [e \in DOMAIN r |-> r[e]]
      /\ \A e \in DOMAIN r : r[e] = IF e = Inter(k) THEN f ELSE IF e = f THEN m[g] ELSE m[e]
  BY DEF Renum
<1>4. d = [e \in DOMAIN d |-> d[e]]
  BY DEF Shape, EntriesPart
<1> HIDE DEF m, r
<1>5. DOMAIN r = DOMAIN d
  BY <1>1, <1>2, <1>3
<1>6. \A e \in DOMAIN r : r[e] = d[e]
  BY <1>1, <1>2, <1>3, <1>5
<1>7. r = d
  BY <1>3, <1>4, <1>5, <1>6, Extensional
<1> QED BY <1>7 DEF r, m

-----------------------------------------------------------------------------
(* The stages of the handlers, from a directory d that is in order: td is  *)
(* still to do, and x the directory by then.                               *)

(* The stages of a plan of two, by the call that comes next.               *)
LEMMA P2Cases ==
  ASSUME NEW d, NEW a, NEW b, NEW td, NEW x, P2(d, a, b, td, x)
  PROVE  \/ td # <<>> /\ Head(td) = a /\ Len(td) = 2 /\ x = d
         \/ td # <<>> /\ Head(td) = b /\ Len(td) = 1 /\ x = Do(d, a)
         \/ td = <<>> /\ x = Do(Do(d, a), b)
<1>1. CASE td = <<a, b>> /\ x = d
  <2>1. td # <<>> /\ Head(td) = a /\ Len(td) = 2
    BY <1>1
  <2> QED BY <1>1, <2>1
<1>2. CASE td = <<b>> /\ x = Do(d, a)
  <2>1. td # <<>> /\ Head(td) = b /\ Len(td) = 1
    BY <1>2
  <2> QED BY <1>2, <2>1
<1> QED BY <1>1, <1>2 DEF P2

(* The same of a plan of three.                                            *)
LEMMA P3Cases ==
  ASSUME NEW d, NEW a, NEW b, NEW c, NEW td, NEW x, P3(d, a, b, c, td, x)
  PROVE  \/ td # <<>> /\ Head(td) = a /\ Len(td) = 3 /\ x = d
         \/ td # <<>> /\ Head(td) = b /\ Len(td) = 2 /\ x = Do(d, a)
         \/ td # <<>> /\ Head(td) = c /\ Len(td) = 1 /\ x = Do(Do(d, a), b)
         \/ td = <<>> /\ x = Do(Do(Do(d, a), b), c)
<1>1. CASE td = <<a, b, c>> /\ x = d
  <2>1. td # <<>> /\ Head(td) = a /\ Len(td) = 3
    BY <1>1
  <2> QED BY <1>1, <2>1
<1>2. CASE P2(Do(d, a), b, c, td, x)
  BY <1>2, P2Cases
<1> QED BY <1>1, <1>2 DEF P3

(* The same of a plan of four.                                             *)
LEMMA P4Cases ==
  ASSUME NEW d, NEW a, NEW b, NEW c, NEW e, NEW td, NEW x, P4(d, a, b, c, e, td, x)
  PROVE  \/ td # <<>> /\ Head(td) = a /\ Len(td) = 4 /\ x = d
         \/ td # <<>> /\ Head(td) = b /\ Len(td) = 3 /\ x = Do(d, a)
         \/ td # <<>> /\ Head(td) = c /\ Len(td) = 2 /\ x = Do(Do(d, a), b)
         \/ td # <<>> /\ Head(td) = e /\ Len(td) = 1 /\ x = Do(Do(Do(d, a), b), c)
         \/ td = <<>> /\ x = Do(Do(Do(Do(d, a), b), c), e)
<1>1. CASE td = <<a, b, c, e>> /\ x = d
  <2>1. td # <<>> /\ Head(td) = a /\ Len(td) = 4
    BY <1>1
  <2> QED BY <1>1, <2>1
<1>2. CASE P3(Do(d, a), b, c, e, td, x)
  BY <1>2, P3Cases
<1> QED BY <1>1, <1>2 DEF P4

(* A name that leads somewhere has a file that is somewhere.               *)
LEMMA PathKept ==
  ASSUME NEW d, WF(d), NEW m \in Names, PathIn(d, m) # None
  PROVE  /\ PathIn(d, m) \in Inodes
         /\ \E e \in DOMAIN d : d[e] = File(PathIn(d, m))
         /\ Name(m) \in DOMAIN d
<1>1. Name(m) \in DOMAIN d
  BY Leading DEF WF
<1>2. ASSUME NEW i \in Inodes, d[Name(m)] = File(i)
      PROVE  PathIn(d, m) \in Inodes /\ \E e \in DOMAIN d : d[e] = File(PathIn(d, m))
  BY <1>1, <1>2, Leading DEF WF
<1>3. ASSUME NEW l \in Keys, NEW a \in Nat \ {0}, d[Name(m)] = Inter(l), Final(l, a) \in DOMAIN d
      PROVE  PathIn(d, m) \in Inodes /\ \E e \in DOMAIN d : d[e] = File(PathIn(d, m))
  BY <1>1, <1>3, Leading DEF WF
<1> QED BY <1>1, <1>2, <1>3, Leading DEF WF

HasKey(d, n, k, c) == Name(n) \in DOMAIN d /\ d[Name(n)] = Inter(k) /\ Final(k, c) \in DOMAIN d
HasFile(d, n, i) == Name(n) \in DOMAIN d /\ d[Name(n)] = File(i)

(* decrement_link_count of the name n.                                     *)
DecStage(d, n, td, x) ==
  \/ ~FakedIn(d, n) /\ td = <<>> /\ x = d
  \/ \E k \in Keys, c \in Nat \ {0} :
       /\ HasKey(d, n, k, c) /\ c > 1
       /\ P3(d, Rename(Final(k, c), Final(k, c - 1)), Unlink(Inter(k)),
             L2sSymlink(Final(k, c - 1), Inter(k)), td, x)
  \/ \E k \in Keys : HasKey(d, n, k, 1) /\ P2(d, Unlink(Inter(k)), Unlink(Final(k, 1)), td, x)

(* It goes on as long as there is a call to do.                            *)
LEMMA DecStageStep ==
  ASSUME NEW d, NEW n, NEW td, NEW x, td # <<>>, DecStage(d, n, td, x)
  PROVE  DecStage(d, n, Tail(td), Do(x, Head(td)))
<1>1. ASSUME NEW k \in Keys, NEW c \in Nat \ {0}, HasKey(d, n, k, c), c > 1,
             P3(d, Rename(Final(k, c), Final(k, c - 1)), Unlink(Inter(k)),
                L2sSymlink(Final(k, c - 1), Inter(k)), td, x)
      PROVE  DecStage(d, n, Tail(td), Do(x, Head(td)))
  <2>1. P3(d, Rename(Final(k, c), Final(k, c - 1)), Unlink(Inter(k)),
           L2sSymlink(Final(k, c - 1), Inter(k)), Tail(td), Do(x, Head(td)))
    BY <1>1, P3Step
  <2> QED BY <1>1, <2>1 DEF DecStage
<1>2. ASSUME NEW k \in Keys, HasKey(d, n, k, 1), P2(d, Unlink(Inter(k)), Unlink(Final(k, 1)), td, x)
      PROVE  DecStage(d, n, Tail(td), Do(x, Head(td)))
  <2>1. P2(d, Unlink(Inter(k)), Unlink(Final(k, 1)), Tail(td), Do(x, Head(td)))
    BY <1>2, P2Step
  <2> QED BY <1>2, <2>1 DEF DecStage
<1> QED BY <1>1, <1>2 DEF DecStage

(* Every stage can go on; a stage that fails and shows nothing is the      *)
(* first; the files of other names are kept; and once it is all done the   *)
(* name can go.                                                            *)
DecFacts(d, n, td, x) ==
  /\ td # <<>> => CanDo(x, Head(td)) /\ (LinkOf(x) = LinkOf(d) => x = d)
  /\ \A m \in Names \ {n} : PathIn(d, m) # None => \E e \in DOMAIN x : x[e] = File(PathIn(d, m))
  /\ td = <<>> =>
       /\ \A m : /\ Name(m) \in DOMAIN x <=> Name(m) \in DOMAIN d
                 /\ Name(m) \in DOMAIN d => x[Name(m)] = d[Name(m)]
       /\ Name(n) \notin DOMAIN d => x = d
       /\ Name(n) \in DOMAIN d =>
            /\ WF(Drop(x, Name(n)))
            /\ LinkOf(Drop(x, Name(n))) = [LinkOf(d) EXCEPT ![n] = None]

(* These hold of every stage.                                              *)
LEMMA DecStageFacts ==
  ASSUME NEW d, WF(d), NEW n \in Names, NEW td, NEW x, DecStage(d, n, td, x)
  PROVE  DecFacts(d, n, td, x)
<1>1. CASE ~FakedIn(d, n) /\ td = <<>> /\ x = d
  <2>1. \A m \in Names \ {n} : PathIn(d, m) # None => \E e \in DOMAIN x : x[e] = File(PathIn(d, m))
    BY <1>1, PathKept
  <2>2. Name(n) \in DOMAIN d =>
            /\ WF(Drop(x, Name(n)))
            /\ LinkOf(Drop(x, Name(n))) = [LinkOf(d) EXCEPT ![n] = None]
    BY <1>1, UnlinkPlainWF
  <2> QED BY <1>1, <2>1, <2>2 DEF DecFacts
<1>2. ASSUME NEW k \in Keys, NEW c \in Nat \ {0}, HasKey(d, n, k, c), c > 1,
             P3(d, Rename(Final(k, c), Final(k, c - 1)), Unlink(Inter(k)),
                L2sSymlink(Final(k, c - 1), Inter(k)), td, x)
      PROVE  DecFacts(d, n, td, x)
  <2> DEFINE b == c - 1
             d1 == Move(d, Final(k, c), Final(k, b))
             d2 == Drop(d1, Inter(k))
             d3 == Put(d2, Inter(k), Final(k, b))
             h1 == Rename(Final(k, c), Final(k, b))
             h2 == Unlink(Inter(k))
             h3 == L2sSymlink(Final(k, b), Inter(k))
             r == Renum(d, k, c, b)
  <2>1. b \in Nat \ {0} /\ b # c
    BY <1>2
  <2>2. P3(d, h1, h2, h3, td, x)
    BY <1>2
  <2>3. WF(Drop(r, Name(n))) /\ LinkOf(Drop(r, Name(n))) = [LinkOf(d) EXCEPT ![n] = None]
    BY <1>2, UnlinkOneWF DEF HasKey
  <2> HIDE DEF b
  <2>4. /\ d3 = r /\ Inter(k) \in DOMAIN d1 /\ Kept(d, d) /\ Kept(d, d1) /\ Kept(d, d2) /\ Kept(d, d3)
        /\ PathIn(d1, n) = None /\ PathIn(d2, n) = None
    <3>1. Kept(d, d)
      BY DEF Kept
    <3> QED BY <1>2, <2>1, <3>1, RenumSteps DEF HasKey, WF
  <2>5. /\ Do(d, h1) = d1 /\ Do(d1, h2) = d2 /\ Do(d2, h3) = d3
        /\ CanDo(d, h1) /\ CanDo(d1, h2) /\ CanDo(d2, h3)
    BY <1>2, <2>4, DoMoves DEF HasKey
  <2>6. \A m : /\ Name(m) \in DOMAIN r <=> Name(m) \in DOMAIN d
               /\ Name(m) \in DOMAIN d => r[Name(m)] = d[Name(m)]
    BY <1>2, <2>1, RenumShape DEF HasKey, WF
  <2>7. PathIn(d, n) # None
    BY <1>2, Leading, Link2SymlinkAssumption DEF HasKey, WF
  <2>8. LinkOf(d1) # LinkOf(d) /\ LinkOf(d2) # LinkOf(d)
    <3>1. LinkOf(d1)[n] # LinkOf(d)[n] /\ LinkOf(d2)[n] # LinkOf(d)[n]
      BY <2>4, <2>7 DEF LinkOf
    <3> QED BY <3>1
  <2>9. Name(n) \in DOMAIN d
    BY <1>2 DEF HasKey
  <2> HIDE DEF d1, d2, d3, h1, h2, h3, r
  <2>10. /\ Kept(d, x)
         /\ td # <<>> => CanDo(x, Head(td)) /\ (LinkOf(x) = LinkOf(d) => x = d)
         /\ td = <<>> => x = r
    BY <2>2, <2>4, <2>5, <2>8, P3Cases
  <2>11. \A m \in Names \ {n} : PathIn(d, m) # None => \E e \in DOMAIN x : x[e] = File(PathIn(d, m))
    BY <2>10, PathKept DEF Kept
  <2> QED BY <2>3, <2>6, <2>9, <2>10, <2>11 DEF DecFacts
<1>3. ASSUME NEW k \in Keys, HasKey(d, n, k, 1), P2(d, Unlink(Inter(k)), Unlink(Final(k, 1)), td, x)
      PROVE  DecFacts(d, n, td, x)
  <2> DEFINE d1 == Drop(d, Inter(k))
             d2 == Drop(d1, Final(k, 1))
             h1 == Unlink(Inter(k))
             h2 == Unlink(Final(k, 1))
  <2>1. P2(d, h1, h2, td, x)
    BY <1>3
  <2>2. Name(n) \in DOMAIN d /\ d[Name(n)] = Inter(k) /\ Final(k, 1) \in DOMAIN d
    BY <1>3 DEF HasKey
  <2>3. /\ Drop(d2, Name(n)) = DropKey(Drop(d, Name(n)), k, 1)
        /\ \A m : /\ Name(m) \in DOMAIN d2 <=> Name(m) \in DOMAIN d
                  /\ Name(m) \in DOMAIN d => d2[Name(m)] = d[Name(m)]
        /\ Inter(k) \in DOMAIN d /\ Final(k, 1) \in DOMAIN d1 /\ Kept(d, d1)
        /\ PathIn(d1, n) = None
        /\ \A m \in Names \ {n} : PathIn(d, m) # None =>
             \E e \in DOMAIN d2 : d2[e] = File(PathIn(d, m))
    BY <2>2, LastSteps
  <2>4. WF(Drop(d2, Name(n))) /\ LinkOf(Drop(d2, Name(n))) = [LinkOf(d) EXCEPT ![n] = None]
    BY <2>2, <2>3, UnlinkLastWF
  <2>5. Do(d, h1) = d1 /\ Do(d1, h2) = d2 /\ CanDo(d, h1) /\ CanDo(d1, h2)
    BY <2>3, DoMoves
  <2>6. PathIn(d, n) # None
    <3>1. 1 \in Nat \ {0}
      OBVIOUS
    <3> QED BY <2>2, <3>1, Leading, Link2SymlinkAssumption DEF WF
  <2>7. LinkOf(d1) # LinkOf(d)
    <3>1. LinkOf(d1)[n] # LinkOf(d)[n]
      BY <2>3, <2>6 DEF LinkOf
    <3> QED BY <3>1
  <2>8. \A m \in Names \ {n} : PathIn(d, m) # None =>
          /\ \E e \in DOMAIN d : d[e] = File(PathIn(d, m))
          /\ \E e \in DOMAIN d1 : d1[e] = File(PathIn(d, m))
    BY <2>3, PathKept DEF Kept
  <2> HIDE DEF d1, d2, h1, h2
  <2>9. /\ td # <<>> => CanDo(x, Head(td)) /\ (LinkOf(x) = LinkOf(d) => x = d)
        /\ td = <<>> => x = d2
        /\ x = d \/ x = d1 \/ x = d2
    BY <2>1, <2>5, <2>7, P2Cases
  <2>10. \A m \in Names \ {n} : PathIn(d, m) # None => \E e \in DOMAIN x : x[e] = File(PathIn(d, m))
    BY <2>3, <2>8, <2>9
  <2> QED BY <2>2, <2>3, <2>4, <2>9, <2>10 DEF DecFacts
<1> QED BY <1>1, <1>2, <1>3 DEF DecStage

(* What takes a link back, from the directory that the last symlink found. *)
UndoStage(d, o, td, x) ==
  \/ \E k \in Keys, c \in Nat \ {0} :
       /\ HasKey(d, o, k, c)
       /\ P3(Renum(d, k, c, c + 1), Rename(Final(k, c + 1), Final(k, c)), Unlink(Inter(k)),
             L2sSymlink(Final(k, c), Inter(k)), td, x)
  \/ \E k \in Keys, i \in Inodes :
       /\ HasFile(d, o, i) /\ Inter(k) \notin DOMAIN d
       /\ P3(Convert(d, o, k), Unlink(Name(o)), Rename(Final(k, 2), Name(o)),
             Unlink(Inter(k)), td, x)

(* It goes on as long as there is a call to do.                            *)
LEMMA UndoStageStep ==
  ASSUME NEW d, NEW o, NEW td, NEW x, td # <<>>, UndoStage(d, o, td, x)
  PROVE  UndoStage(d, o, Tail(td), Do(x, Head(td)))
<1>1. ASSUME NEW k \in Keys, NEW c \in Nat \ {0}, HasKey(d, o, k, c),
             P3(Renum(d, k, c, c + 1), Rename(Final(k, c + 1), Final(k, c)), Unlink(Inter(k)),
                L2sSymlink(Final(k, c), Inter(k)), td, x)
      PROVE  UndoStage(d, o, Tail(td), Do(x, Head(td)))
  <2>1. P3(Renum(d, k, c, c + 1), Rename(Final(k, c + 1), Final(k, c)), Unlink(Inter(k)),
           L2sSymlink(Final(k, c), Inter(k)), Tail(td), Do(x, Head(td)))
    BY <1>1, P3Step
  <2> QED BY <1>1, <2>1 DEF UndoStage
<1>2. ASSUME NEW k \in Keys, NEW i \in Inodes, HasFile(d, o, i), Inter(k) \notin DOMAIN d,
             P3(Convert(d, o, k), Unlink(Name(o)), Rename(Final(k, 2), Name(o)),
                Unlink(Inter(k)), td, x)
      PROVE  UndoStage(d, o, Tail(td), Do(x, Head(td)))
  <2>1. P3(Convert(d, o, k), Unlink(Name(o)), Rename(Final(k, 2), Name(o)),
           Unlink(Inter(k)), Tail(td), Do(x, Head(td)))
    BY <1>2, P3Step
  <2> QED BY <1>2, <2>1 DEF UndoStage
<1> QED BY <1>1, <1>2 DEF UndoStage

(* No file is lost on the way back, and at its end the directory is as it  *)
(* was before the link.                                                    *)
LEMMA UndoStageFacts ==
  ASSUME NEW d, WF(d), NEW o \in Names, NEW td, NEW x, UndoStage(d, o, td, x)
  PROVE  Kept(d, x) /\ (td = <<>> => x = d)
<1>1. ASSUME NEW k \in Keys, NEW c \in Nat \ {0}, HasKey(d, o, k, c),
             P3(Renum(d, k, c, c + 1), Rename(Final(k, c + 1), Final(k, c)), Unlink(Inter(k)),
                L2sSymlink(Final(k, c), Inter(k)), td, x)
      PROVE  Kept(d, x) /\ (td = <<>> => x = d)
  <2> DEFINE b == c + 1
             m == Renum(d, k, c, b)
             d1 == Move(m, Final(k, b), Final(k, c))
             d2 == Drop(d1, Inter(k))
             d3 == Put(d2, Inter(k), Final(k, c))
             h1 == Rename(Final(k, b), Final(k, c))
             h2 == Unlink(Inter(k))
             h3 == L2sSymlink(Final(k, c), Inter(k))
  <2>1. b \in Nat \ {0} /\ b # c
    BY <1>1
  <2>2. P3(m, h1, h2, h3, td, x)
    BY <1>1
  <2> HIDE DEF b
  <2>3. Shape(m) /\ Final(k, b) \in DOMAIN m
    BY <1>1, <2>1, RenumShape DEF HasKey, WF
  <2>4. Kept(d, m)
    BY <1>1, <2>1, RenumSteps DEF HasKey, WF
  <2>5. Renum(m, k, b, c) = d
    BY <1>1, <2>1, RenumBack DEF HasKey, WF
  <2> HIDE DEF m
  <2>6. d3 = d /\ Kept(m, d1) /\ Kept(m, d2)
    BY <2>1, <2>3, <2>5, RenumSteps
  <2>7. Do(m, h1) = d1 /\ Do(d1, h2) = d2 /\ Do(d2, h3) = d3
    BY DoMoves
  <2>8. Kept(d, d1) /\ Kept(d, d2) /\ Kept(d, d)
    <3>1. Kept(d, d)
      BY DEF Kept
    <3> QED BY <2>4, <2>6, <3>1, KeptSteps
  <2> HIDE DEF d1, d2, d3, h1, h2, h3
  <2> QED BY <2>2, <2>4, <2>6, <2>7, <2>8, P3Cases
<1>2. ASSUME NEW k \in Keys, NEW i \in Inodes, HasFile(d, o, i), Inter(k) \notin DOMAIN d,
             P3(Convert(d, o, k), Unlink(Name(o)), Rename(Final(k, 2), Name(o)),
                Unlink(Inter(k)), td, x)
      PROVE  Kept(d, x) /\ (td = <<>> => x = d)
  <2> DEFINE m == Convert(d, o, k)
             d1 == Drop(m, Name(o))
             d2 == Move(d1, Final(k, 2), Name(o))
             d3 == Drop(d2, Inter(k))
             h1 == Unlink(Name(o))
             h2 == Rename(Final(k, 2), Name(o))
             h3 == Unlink(Inter(k))
  <2>1. P3(m, h1, h2, h3, td, x)
    BY <1>2
  <2>2. Kept(d, m)
    BY <1>2, ConvertSteps DEF HasFile, WF
  <2>3. d3 = d /\ Kept(d, d1) /\ Kept(d, d2)
    BY <1>2, UnconvertSteps DEF HasFile, WF
  <2>4. Do(m, h1) = d1 /\ Do(d1, h2) = d2 /\ Do(d2, h3) = d3
    BY DoMoves
  <2>5. Kept(d, d)
    BY DEF Kept
  <2> HIDE DEF m, d1, d2, d3, h1, h2, h3
  <2> QED BY <2>1, <2>2, <2>3, <2>4, <2>5, P3Cases
<1> QED BY <1>1, <1>2 DEF UndoStage

(* move_and_symlink_path of the names o and n, with un to take it back.    *)
FakedLink(d, o, n, td, x, un, k, c) ==
  /\ HasKey(d, o, k, c)
  /\ un = <<Rename(Final(k, c + 1), Final(k, c)), Unlink(Inter(k)),
            L2sSymlink(Final(k, c), Inter(k))>>
  /\ P4(d, Rename(Final(k, c), Final(k, c + 1)), Unlink(Inter(k)),
        L2sSymlink(Final(k, c + 1), Inter(k)), Symlink(Inter(k), Name(n)), td, x)
PlainLink(d, o, n, td, x, un, k, i) ==
  /\ HasFile(d, o, i) /\ Inter(k) \notin DOMAIN d
  /\ un = <<Unlink(Name(o)), Rename(Final(k, 2), Name(o)), Unlink(Inter(k))>>
  /\ P4(d, Rename(Name(o), Final(k, 2)), L2sSymlink(Final(k, 2), Inter(k)),
        Symlink(Inter(k), Name(o)), Symlink(Inter(k), Name(n)), td, x)
LinkStage(d, o, n, td, x, un) ==
  \/ \E k \in Keys, c \in Nat \ {0} : FakedLink(d, o, n, td, x, un, k, c)
  \/ \E k \in Keys, i \in Inodes : PlainLink(d, o, n, td, x, un, k, i)

(* It goes on as long as there is a call to do.                            *)
LEMMA LinkStageStep ==
  ASSUME NEW d, NEW o, NEW n, NEW td, NEW x, NEW un, td # <<>>, LinkStage(d, o, n, td, x, un)
  PROVE  LinkStage(d, o, n, Tail(td), Do(x, Head(td)), un)
<1>1. ASSUME NEW k \in Keys, NEW c \in Nat \ {0}, FakedLink(d, o, n, td, x, un, k, c)
      PROVE  FakedLink(d, o, n, Tail(td), Do(x, Head(td)), un, k, c)
  BY <1>1, P4Step DEF FakedLink
<1>2. ASSUME NEW k \in Keys, NEW i \in Inodes, PlainLink(d, o, n, td, x, un, k, i)
      PROVE  PlainLink(d, o, n, Tail(td), Do(x, Head(td)), un, k, i)
  BY <1>2, P4Step DEF PlainLink
<1> QED BY <1>1, <1>2 DEF LinkStage

(* Every stage can go on; a stage but the last that fails and shows        *)
(* nothing is the first; no file is lost; the last call makes the link,    *)
(* and if it fails un takes everything back.                               *)
LinkFacts(d, o, n, td, x, un) ==
  /\ td # <<>> => CanDo(x, Head(td)) /\ (Len(td) # 1 /\ LinkOf(x) = LinkOf(d) => x = d)
  /\ Kept(d, x)
  /\ Len(td) = 1 => UndoStage(d, o, un, x)
  /\ td = <<>> => WF(x) /\ LinkOf(x) = [LinkOf(d) EXCEPT ![n] = PathIn(d, o)]

(* These hold of every stage.                                              *)
LEMMA LinkStageFacts ==
  ASSUME NEW d, WF(d), NEW o \in Names, NEW n \in Names, Name(n) \notin DOMAIN d,
         NEW td, NEW x, NEW un, LinkStage(d, o, n, td, x, un)
  PROVE  LinkFacts(d, o, n, td, x, un)
<1>1. ASSUME NEW k \in Keys, NEW c \in Nat \ {0}, FakedLink(d, o, n, td, x, un, k, c)
      PROVE  LinkFacts(d, o, n, td, x, un)
  <2> DEFINE b == c + 1
             d1 == Move(d, Final(k, c), Final(k, b))
             d2 == Drop(d1, Inter(k))
             d3 == Put(d2, Inter(k), Final(k, b))
             d4 == Put(d3, Name(n), Inter(k))
             h1 == Rename(Final(k, c), Final(k, b))
             h2 == Unlink(Inter(k))
             h3 == L2sSymlink(Final(k, b), Inter(k))
             h4 == Symlink(Inter(k), Name(n))
             m == Renum(d, k, c, b)
  <2>1. b \in Nat \ {0} /\ b # c
    OBVIOUS
  <2>2. P4(d, h1, h2, h3, h4, td, x)
    BY <1>1 DEF FakedLink
  <2>3. Name(o) \in DOMAIN d /\ d[Name(o)] = Inter(k) /\ Final(k, c) \in DOMAIN d
    BY <1>1 DEF FakedLink, HasKey
  <2>4. WF(Put(m, Name(n), Inter(k)))
        /\ LinkOf(Put(m, Name(n), Inter(k))) = [LinkOf(d) EXCEPT ![n] = PathIn(d, o)]
    BY <2>3, LinkFakedWF
  <2>5. UndoStage(d, o, un, m)
    <3>1. P3(m, Rename(Final(k, b), Final(k, c)), Unlink(Inter(k)),
             L2sSymlink(Final(k, c), Inter(k)), un, m)
      BY <1>1 DEF FakedLink, P3
    <3> QED BY <1>1, <3>1 DEF FakedLink, UndoStage
  <2> HIDE DEF b
  <2>6. /\ d3 = m /\ Inter(k) \in DOMAIN d1 /\ Kept(d, d1) /\ Kept(d, d2) /\ Kept(d, d3)
        /\ PathIn(d1, o) = None /\ PathIn(d2, o) = None
    BY <2>1, <2>3, RenumSteps DEF WF
  <2>7. Name(n) \notin DOMAIN m
    BY <2>1, <2>3, RenumShape DEF WF
  <2>8. /\ Do(d, h1) = d1 /\ Do(d1, h2) = d2 /\ Do(d2, h3) = d3 /\ Do(d3, h4) = d4
        /\ CanDo(d, h1) /\ CanDo(d1, h2) /\ CanDo(d2, h3) /\ CanDo(d3, h4)
    BY <2>3, <2>6, <2>7, DoMoves
  <2>9. Kept(d, d4) /\ Kept(d, d)
    <3>1. Kept(d, d)
      BY DEF Kept
    <3>2. Kept(d3, d4)
      BY <2>6, <2>7, KeptSteps
    <3> QED BY <2>6, <3>1, <3>2, KeptSteps
  <2>10. LinkOf(d1) # LinkOf(d) /\ LinkOf(d2) # LinkOf(d)
    <3>1. PathIn(d, o) # None
      BY <2>3, Leading, Link2SymlinkAssumption DEF WF
    <3>2. LinkOf(d1)[o] # LinkOf(d)[o] /\ LinkOf(d2)[o] # LinkOf(d)[o]
      BY <2>6, <3>1 DEF LinkOf
    <3> QED BY <3>2
  <2>11. d4 = Put(m, Name(n), Inter(k))
    BY <2>6
  <2> HIDE DEF d1, d2, d3, d4, h1, h2, h3, h4, m
  <2>12. /\ td # <<>> => CanDo(x, Head(td)) /\ (Len(td) # 1 /\ LinkOf(x) = LinkOf(d) => x = d)
         /\ Kept(d, x) /\ (Len(td) = 1 => x = m) /\ (td = <<>> => x = d4)
    BY <2>2, <2>6, <2>8, <2>9, <2>10, P4Cases
  <2> QED BY <2>4, <2>5, <2>11, <2>12 DEF LinkFacts
<1>2. ASSUME NEW k \in Keys, NEW i \in Inodes, PlainLink(d, o, n, td, x, un, k, i)
      PROVE  LinkFacts(d, o, n, td, x, un)
  <2> DEFINE d1 == Move(d, Name(o), Final(k, 2))
             d2 == Put(d1, Inter(k), Final(k, 2))
             d3 == Put(d2, Name(o), Inter(k))
             d4 == Put(d3, Name(n), Inter(k))
             h1 == Rename(Name(o), Final(k, 2))
             h2 == L2sSymlink(Final(k, 2), Inter(k))
             h3 == Symlink(Inter(k), Name(o))
             h4 == Symlink(Inter(k), Name(n))
             m == Convert(d, o, k)
  <2>1. P4(d, h1, h2, h3, h4, td, x)
    BY <1>2 DEF PlainLink
  <2>2. Name(o) \in DOMAIN d /\ d[Name(o)] = File(i) /\ Inter(k) \notin DOMAIN d
    BY <1>2 DEF PlainLink, HasFile
  <2>3. PathIn(d, o) = i /\ PathIn(d, o) # None
    BY <2>2, Leading, Link2SymlinkAssumption DEF WF
  <2>4. WF(Put(m, Name(n), Inter(k)))
        /\ LinkOf(Put(m, Name(n), Inter(k))) = [LinkOf(d) EXCEPT ![n] = PathIn(d, o)]
    BY <2>2, <2>3, LinkPlainWF
  <2>5. UndoStage(d, o, un, m)
    <3>1. P3(m, Unlink(Name(o)), Rename(Final(k, 2), Name(o)), Unlink(Inter(k)), un, m)
      BY <1>2 DEF PlainLink, P3
    <3> QED BY <1>2, <3>1 DEF PlainLink, UndoStage
  <2>6. /\ d3 = m /\ Kept(d, d1) /\ Kept(d, d2) /\ Kept(d, d3)
        /\ Name(o) \notin DOMAIN d2 /\ PathIn(d1, o) = None /\ PathIn(d2, o) = None
    BY <2>2, ConvertSteps DEF WF
  <2>7. Name(n) \notin DOMAIN m
    BY <2>2, ConvertShape DEF WF
  <2>8. /\ Do(d, h1) = d1 /\ Do(d1, h2) = d2 /\ Do(d2, h3) = d3 /\ Do(d3, h4) = d4
        /\ CanDo(d, h1) /\ CanDo(d1, h2) /\ CanDo(d2, h3) /\ CanDo(d3, h4)
    BY <2>2, <2>6, <2>7, DoMoves
  <2>9. Kept(d, d4) /\ Kept(d, d)
    <3>1. Kept(d, d)
      BY DEF Kept
    <3>2. Kept(d3, d4)
      BY <2>6, <2>7, KeptSteps
    <3> QED BY <2>6, <3>1, <3>2, KeptSteps
  <2>10. LinkOf(d1) # LinkOf(d) /\ LinkOf(d2) # LinkOf(d)
    <3>1. LinkOf(d1)[o] # LinkOf(d)[o] /\ LinkOf(d2)[o] # LinkOf(d)[o]
      BY <2>3, <2>6 DEF LinkOf
    <3> QED BY <3>1
  <2>11. d4 = Put(m, Name(n), Inter(k))
    BY <2>6
  <2> HIDE DEF d1, d2, d3, d4, h1, h2, h3, h4, m
  <2>12. /\ td # <<>> => CanDo(x, Head(td)) /\ (Len(td) # 1 /\ LinkOf(x) = LinkOf(d) => x = d)
         /\ Kept(d, x) /\ (Len(td) = 1 => x = m) /\ (td = <<>> => x = d4)
    BY <2>1, <2>6, <2>8, <2>9, <2>10, P4Cases
  <2> QED BY <2>4, <2>5, <2>11, <2>12 DEF LinkFacts
<1> QED BY <1>1, <1>2 DEF LinkStage

(* The suffix that is chosen for a new intermediate link is free.          *)
LEMMA NewInterFree ==
  ASSUME NEW n \in Names, Free(n) # {}
  PROVE  NewInter(n) \in Keys /\ Inter(NewInter(n)) \notin DOMAIN dir
<1>1. Free(n) \subseteq Nat /\ Free(n) \subseteq 1 .. MaxSuffix
  BY Link2SymlinkAssumption DEF Free
<1>2. PICK s \in Free(n) : \A r \in Free(n) : ~(<<r, s>> \in OpToRel(<, Nat))
  BY <1>1, NatLessThanWellFounded, WFMin
<1>3. \A r \in Free(n) : s <= r
  <2> TAKE r \in Free(n)
  <2>1. r \in Nat /\ s \in Nat
    BY <1>1
  <2>2. <<r, s>> \in Nat \X Nat /\ <<r, s>>[1] = r /\ <<r, s>>[2] = s
    BY <2>1
  <2>3. ~(r < s)
    BY <1>2, <2>2 DEF OpToRel
  <2> QED BY <2>1, <2>3
<1> DEFINE t == CHOOSE q \in Free(n) : \A r \in Free(n) : q <= r
<1>4. t \in Free(n)
  BY <1>3
<1>5. NewInter(n) = <<n, t>>
  BY DEF NewInter
<1> HIDE DEF t
<1>6. Inter(<<n, t>>) \notin DOMAIN dir
  BY <1>4 DEF Free, Exists
<1> QED BY <1>1, <1>4, <1>5, <1>6 DEF Keys

(* The plan of decrement_link_count.                                       *)
LEMMA DecPlan ==
  ASSUME WF(dir), NEW n \in Names
  PROVE  /\ DecStage(dir, n, decrement_link_count(n), dir)
         /\ decrement_link_count(n) # <<>> => Name(n) \in DOMAIN dir
<1>1. IsFaked(n) <=> FakedIn(dir, n)
  BY DEF IsFaked, FakedIn, Exists
<1>2. CASE ~FakedIn(dir, n)
  BY <1>1, <1>2 DEF DecStage, decrement_link_count
<1>3. CASE FakedIn(dir, n)
  <2>1. Name(n) \in DOMAIN dir
    BY <1>3 DEF FakedIn
  <2>2. PICK k \in Keys, c \in Nat \ {0} : HasKey(dir, n, k, c)
    BY <1>3, <2>1, Leading DEF WF, HasKey
  <2>3. Through(n) = Final(k, c)
    BY <2>2, Leading DEF WF, HasKey, Through
  <2>4. Through(n)[2] = k /\ Through(n)[3] = c
    BY <2>3, Entries
  <2>5. CASE c > 1
    <3>1. decrement_link_count(n) = <<Rename(Final(k, c), Final(k, c - 1)), Unlink(Inter(k)),
                                      L2sSymlink(Final(k, c - 1), Inter(k))>>
      BY <1>1, <1>3, <2>3, <2>4, <2>5 DEF decrement_link_count
    <3> HIDE DEF decrement_link_count
    <3>2. P3(dir, Rename(Final(k, c), Final(k, c - 1)), Unlink(Inter(k)),
             L2sSymlink(Final(k, c - 1), Inter(k)), decrement_link_count(n), dir)
      BY <3>1 DEF P3
    <3> QED BY <2>1, <2>2, <2>5, <3>2 DEF DecStage
  <2>6. CASE ~(c > 1)
    <3>0. c = 1
      BY <2>6
    <3>1. decrement_link_count(n) = <<Unlink(Inter(k)), Unlink(Final(k, 1))>>
      BY <1>1, <1>3, <2>3, <2>4, <3>0 DEF decrement_link_count
    <3>2. P2(dir, Unlink(Inter(k)), Unlink(Final(k, 1)), decrement_link_count(n), dir)
      BY <3>1 DEF P2
    <3> QED BY <2>1, <2>2, <3>0, <3>2 DEF DecStage
  <2> QED BY <2>5, <2>6
<1> QED BY <1>2, <1>3

(* The plan of move_and_symlink_path.                                      *)
LEMMA LinkPlan ==
  ASSUME WF(dir), NEW o \in Names, NEW n \in Names, Name(o) \in DOMAIN dir,
         ~IsFaked(o) => Free(o) # {}
  PROVE  /\ LinkStage(dir, o, n, move_and_symlink_path(o, n), dir, UndoLink(o))
         /\ move_and_symlink_path(o, n) # <<>>
<1>1. IsFaked(o) <=> FakedIn(dir, o)
  BY DEF IsFaked, FakedIn, Exists
<1>2. CASE FakedIn(dir, o)
  <2>2. PICK k \in Keys, c \in Nat \ {0} : HasKey(dir, o, k, c)
    BY <1>2, Leading DEF WF, HasKey
  <2>3. Through(o) = Final(k, c)
    BY <2>2, Leading DEF WF, HasKey, Through
  <2>4. Through(o)[2] = k /\ Through(o)[3] = c
    BY <2>3, Entries
  <2> DEFINE td == move_and_symlink_path(o, n)
             h1 == Rename(Final(k, c), Final(k, c + 1))
             h2 == Unlink(Inter(k))
             h3 == L2sSymlink(Final(k, c + 1), Inter(k))
             h4 == Symlink(Inter(k), Name(n))
  <2>5. td = <<h1, h2, h3, h4>>
    BY <1>1, <1>2, <2>3, <2>4 DEF move_and_symlink_path
  <2>6. UndoLink(o) = <<Rename(Final(k, c + 1), Final(k, c)), Unlink(Inter(k)),
                        L2sSymlink(Final(k, c), Inter(k))>>
    BY <1>1, <1>2, <2>3, <2>4 DEF UndoLink
  <2> HIDE DEF td
  <2>7. P4(dir, h1, h2, h3, h4, td, dir) /\ td # <<>>
    BY <2>5 DEF P4
  <2>8. FakedLink(dir, o, n, td, dir, UndoLink(o), k, c)
    BY <2>2, <2>6, <2>7 DEF FakedLink
  <2> QED BY <2>7, <2>8 DEF LinkStage, td
<1>3. CASE ~FakedIn(dir, o)
  <2> DEFINE k == NewInter(o)
  <2>1. k \in Keys /\ Inter(k) \notin DOMAIN dir
    BY <1>1, <1>3, NewInterFree
  <2>2. PICK i \in Inodes : dir[Name(o)] = File(i)
    BY <1>3, Leading DEF WF
  <2> DEFINE td == move_and_symlink_path(o, n)
             h1 == Rename(Name(o), Final(k, 2))
             h2 == L2sSymlink(Final(k, 2), Inter(k))
             h3 == Symlink(Inter(k), Name(o))
             h4 == Symlink(Inter(k), Name(n))
  <2>5. td = <<h1, h2, h3, h4>>
    BY <1>1, <1>3 DEF move_and_symlink_path
  <2>6. UndoLink(o) = <<Unlink(Name(o)), Rename(Final(k, 2), Name(o)), Unlink(Inter(k))>>
    BY <1>1, <1>3 DEF UndoLink
  <2> HIDE DEF td, k
  <2>7. P4(dir, h1, h2, h3, h4, td, dir) /\ td # <<>>
    BY <2>5 DEF P4
  <2>8. PlainLink(dir, o, n, td, dir, UndoLink(o), k, i)
    BY <2>1, <2>2, <2>6, <2>7 DEF PlainLink, HasFile
  <2> QED BY <2>1, <2>7, <2>8 DEF LinkStage, td
<1> QED BY <1>2, <1>3

-----------------------------------------------------------------------------
(* The inductive invariant.  The calls of guests are handled one at a time *)
(* (Quirks is empty): between two of them the directory is in order, and   *)
(* during one it is a stage of the call's handler, from a directory d that *)
(* was in order and that guests still see.                                 *)
Simple == Quirks = {}

Unlinking(n) == [nr |-> "unlink", path |-> n]
Renaming(o, n, b) == [nr |-> "rename", from |-> o, path |-> n, noreplace |-> b]
Linking == [nr |-> "link"]
Undoing == [nr |-> "undo"]
Only(g, c) == call = [h \in Guests |-> IF h = g THEN c ELSE NoCall]

Idle == busy = None /\ todo = <<>> /\ call = [h \in Guests |-> NoCall]

Removes(d, n, c) ==
  \/ c = Unlinking(n)
  \/ \E o \in Names, b \in BOOLEAN :
       /\ c = Renaming(o, n, b) /\ o # n /\ Name(o) \in DOMAIN d
       /\ b => Name(n) \notin DOMAIN d
InRemove(d, g, n, c) ==
  /\ Removes(d, n, c) /\ Only(g, c) /\ DecStage(d, n, todo, dir)
  /\ busy = IF todo = <<>> THEN None ELSE g
InLink(d, g, o, n) ==
  /\ Only(g, Linking) /\ LinkStage(d, o, n, todo, dir, undo)
  /\ Name(o) \in DOMAIN d /\ Name(n) \notin DOMAIN d
  /\ todo # <<>> /\ busy = g
InUndo(d, g, o) ==
  Only(g, Undoing) /\ UndoStage(d, o, todo, dir) /\ todo # <<>> /\ busy = g
InCall(d) ==
  /\ snap = ViewOf(d)
  /\ \E g \in Guests : \/ \E n \in Names : \E c : InRemove(d, g, n, c)
                       \/ \E o, n \in Names : InLink(d, g, o, n)
                       \/ \E o \in Names : InUndo(d, g, o)

(* d is the directory that guests see.                                     *)
Shows(d) == WF(d) /\ ((Idle /\ dir = d) \/ InCall(d))
Inv == \E d : Shows(d)

(* What HardLinks allows of the names, as a relation of two values.        *)
May(l, m) ==
  \/ \E n \in Names, i \in Inodes : l[n] = None /\ {x \in Names : l[x] = i} = {} /\ m = [l EXCEPT ![n] = i]
  \/ \E n \in Names : l[n] # None /\ m = [l EXCEPT ![n] = None]
  \/ \E o, n \in Names : l[o] # None /\ l[n] = None /\ m = [l EXCEPT ![n] = l[o]]
  \/ \E o, n \in Names : l[o] # None /\ l[o] # l[n] /\ m = [l EXCEPT ![n] = l[o], ![o] = None]
Goes(d) == \E e : Shows(e)' /\ (LinkOf(e) = LinkOf(d) \/ May(LinkOf(d), LinkOf(e)))

(* The kinds of calls can be told apart.                                   *)
LEMMA Kinds ==
  /\ NoCall.nr = "none" /\ Linking.nr = "link" /\ Undoing.nr = "undo"
  /\ \A n : Unlinking(n).nr = "unlink" /\ Unlinking(n).path = n
  /\ \A o, n, b : /\ Renaming(o, n, b).nr = "rename" /\ Renaming(o, n, b).from = o
                  /\ Renaming(o, n, b).path = n /\ Renaming(o, n, b).noreplace = b
  BY DEF NoCall, Linking, Undoing, Unlinking, Renaming

(* A call that removes a name says which.                                  *)
LEMMA RemovesKinds ==
  ASSUME NEW d, NEW n, NEW c, Removes(d, n, c)
  PROVE  c.nr \in {"unlink", "rename"} /\ c.path = n
  BY Kinds DEF Removes

(* The one call there is.                                                  *)
LEMMA OnlyCall ==
  ASSUME NEW g \in Guests, NEW c, Only(g, c)
  PROVE  /\ call[g] = c /\ \A h \in Guests : h # g => call[h] = NoCall
         /\ c # NoCall => ~Quiet
         /\ \A e : [call EXCEPT ![g] = e] = [h \in Guests |-> IF h = g THEN e ELSE NoCall]
         /\ [call EXCEPT ![g] = NoCall] = [h \in Guests |-> NoCall]
         /\ g # None
<1>1. call[g] = c /\ \A h \in Guests : h # g => call[h] = NoCall
  BY DEF Only
<1>2. ASSUME NEW e PROVE [call EXCEPT ![g] = e] = [h \in Guests |-> IF h = g THEN e ELSE NoCall]
  BY DEF Only
<1>3. [call EXCEPT ![g] = NoCall] = [h \in Guests |-> NoCall]
  BY DEF Only
<1>4. c # NoCall => ~Quiet
  BY <1>1 DEF Quiet
<1> QED BY <1>1, <1>2, <1>3, <1>4, Link2SymlinkAssumption

(* Guests see what View shows between two calls, and snap during one.      *)
LEMMA ViewIs == View = ViewOf(dir)
<1>1. \A n : translated_path(n) = PathIn(dir, n)
  BY DEF translated_path, PathIn, IsFaked, FakedIn, Exists, Through
<1>2. \A i : handle_sysexit_end(i) = CountIn(dir, i)
  BY DEF handle_sysexit_end, CountIn
<1> QED BY <1>1, <1>2 DEF View, ViewOf, LinkOf

(* During a call, not every guest is without a call.                       *)
LEMMA InCallNotQuiet == ASSUME NEW d, InCall(d) PROVE ~Quiet
<1>1. PICK g \in Guests : \/ \E n \in Names : \E c : InRemove(d, g, n, c)
                          \/ \E o, n \in Names : InLink(d, g, o, n)
                          \/ \E o \in Names : InUndo(d, g, o)
  BY DEF InCall
<1>2. ASSUME NEW n, NEW c, InRemove(d, g, n, c) PROVE ~Quiet
  <2>1. c.nr \in {"unlink", "rename"} /\ Only(g, c)
    BY <1>2, RemovesKinds DEF InRemove
  <2>2. c # NoCall
    BY <2>1, Kinds
  <2> QED BY <2>1, <2>2, OnlyCall
<1>3. ASSUME NEW o, NEW n, InLink(d, g, o, n) PROVE ~Quiet
  BY <1>3, Kinds, OnlyCall DEF InLink
<1>4. ASSUME NEW o, InUndo(d, g, o) PROVE ~Quiet
  BY <1>4, Kinds, OnlyCall DEF InUndo
<1> QED BY <1>1, <1>2, <1>3, <1>4

(* What guests see is the directory that Shows names.                      *)
LEMMA ShowsSeen ==
  ASSUME NEW d, Shows(d)
  PROVE  Seen = ViewOf(d) /\ (Quiet => Idle /\ dir = d)
<1>1. CASE Idle /\ dir = d
  BY <1>1, ViewIs DEF Seen, Idle, Quiet
<1>2. CASE InCall(d)
  BY <1>2, InCallNotQuiet DEF Seen, InCall
<1> QED BY <1>1, <1>2 DEF Shows

(* A name that is there leads to a file.                                   *)
LEMMA PathThere ==
  ASSUME NEW d, WF(d), NEW n \in Names
  PROVE  /\ LinkOf(d)[n] = PathIn(d, n)
         /\ Name(n) \in DOMAIN d => PathIn(d, n) # None
         /\ Name(n) \notin DOMAIN d => PathIn(d, n) = None
<1>1. ASSUME NEW i \in Inodes, Name(n) \in DOMAIN d, d[Name(n)] = File(i) PROVE PathIn(d, n) # None
  BY <1>1, Leading, Link2SymlinkAssumption DEF WF
<1>2. ASSUME NEW k \in Keys, NEW c \in Nat \ {0}, Name(n) \in DOMAIN d, d[Name(n)] = Inter(k),
             Final(k, c) \in DOMAIN d
      PROVE  PathIn(d, n) # None
  BY <1>2, Leading, Link2SymlinkAssumption DEF WF
<1> QED BY <1>1, <1>2, Leading DEF WF, LinkOf

-----------------------------------------------------------------------------
(* The steps, one by one.                                                  *)

(* A file appears under a name that was free.                              *)
LEMMA NewFileGoes ==
  ASSUME NEW d, Shows(d), Quiet, NEW n \in Names, NEW i \in Inodes,
         Name(n) \notin DOMAIN dir, \A e \in DOMAIN dir : dir[e] # File(i),
         dir' = With(Name(n), File(i)), UNCHANGED <<todo, busy, call>>
  PROVE  Goes(d)
<1>1. Idle /\ dir = d /\ WF(d)
  BY ShowsSeen DEF Shows
<1> DEFINE e == Put(d, Name(n), File(i))
<1>2. dir' = e
  BY <1>1 DEF With, Put
<1>3. WF(e) /\ LinkOf(e) = [LinkOf(d) EXCEPT ![n] = i]
  BY <1>1, CreateWF
<1> HIDE DEF e
<1>4. {x \in Names : LinkOf(d)[x] = i} = {}
  <2> SUFFICES ASSUME NEW x \in Names, LinkOf(d)[x] = i PROVE FALSE
    OBVIOUS
  <2>1. PathIn(d, x) = i /\ i # None
    BY <1>1, PathThere, Link2SymlinkAssumption
  <2> QED BY <1>1, <2>1, PathKept
<1>5. LinkOf(d)[n] = None
  BY <1>1, PathThere
<1>6. May(LinkOf(d), LinkOf(e))
  BY <1>3, <1>4, <1>5 DEF May
<1>7. Shows(e)'
  BY <1>1, <1>2, <1>3 DEF Shows, Idle
<1> QED BY <1>6, <1>7 DEF Goes

(* A call begins between two calls only.                                   *)
LEMMA EnterIdle ==
  ASSUME Simple, NEW d, Shows(d), NEW g \in Guests, NEW c, NEW plan, NEW un, Enter(g, c, plan, un)
  PROVE  /\ Idle /\ dir = d /\ WF(d) /\ WF(dir) /\ dir' = d /\ snap' = ViewOf(d)
         /\ Only(g, c)' /\ todo' = plan /\ undo' = un /\ busy' = IF plan = <<>> THEN None ELSE g
<1>1. Quiet
  BY DEF Simple, Enter
<1>2. Idle /\ dir = d /\ WF(d)
  BY <1>1, ShowsSeen DEF Shows
<1>3. Only(g, c)'
  BY <1>2 DEF Enter, Idle, Only
<1> QED BY <1>1, <1>2, <1>3, ViewIs DEF Enter

(* unlink begins: decrement_link_count has its plan, nothing is seen yet.  *)
LEMMA UnlinkGoes ==
  ASSUME Simple, NEW d, Shows(d), NEW g \in Guests, NEW n \in Names, EnterUnlink(g, n)
  PROVE  Goes(d)
<1> DEFINE c == Unlinking(n)
           plan == decrement_link_count(n)
<1>1. Enter(g, c, plan, <<>>)
  BY DEF EnterUnlink, Unlinking
<1> HIDE DEF c
<1>2. /\ dir = d /\ WF(d) /\ WF(dir) /\ dir' = d /\ snap' = ViewOf(d)
      /\ Only(g, c)' /\ todo' = plan /\ busy' = IF plan = <<>> THEN None ELSE g
  BY <1>1, EnterIdle
<1>3. DecStage(d, n, plan, d)
  BY <1>2, DecPlan
<1> HIDE DEF plan
<1>4. Removes(d, n, c)
  BY DEF Removes, c
<1>5. InRemove(d, g, n, c)'
  BY <1>2, <1>3, <1>4 DEF InRemove
<1>6. Shows(d)'
  BY <1>2, <1>5 DEF Shows, InCall
<1> QED BY <1>6 DEF Goes

(* rename begins: the name it replaces is counted down as by unlink.       *)
LEMMA RenameGoes ==
  ASSUME Simple, NEW d, Shows(d), NEW g \in Guests, NEW o \in Names, NEW n \in Names, NEW b \in BOOLEAN,
         EnterRename(g, o, n, b)
  PROVE  Goes(d)
<1> DEFINE c == Renaming(o, n, b)
           plan == decrement_link_count(n)
<1>1. Enter(g, c, plan, <<>>)
  BY DEF EnterRename, Renaming
<1>2. o # n /\ Name(o) \in DOMAIN dir /\ (b => Name(n) \notin DOMAIN dir)
  BY DEF EnterRename, Simple, Exists
<1> HIDE DEF c
<1>3. /\ dir = d /\ WF(d) /\ WF(dir) /\ dir' = d /\ snap' = ViewOf(d)
      /\ Only(g, c)' /\ todo' = plan /\ busy' = IF plan = <<>> THEN None ELSE g
  BY <1>1, EnterIdle
<1>4. DecStage(d, n, plan, d)
  BY <1>3, DecPlan
<1> HIDE DEF plan
<1>5. Removes(d, n, c)
  BY <1>2, <1>3 DEF Removes, c
<1>6. InRemove(d, g, n, c)'
  BY <1>3, <1>4, <1>5 DEF InRemove
<1>7. Shows(d)'
  BY <1>3, <1>6 DEF Shows, InCall
<1> QED BY <1>7 DEF Goes

(* link begins: move_and_symlink_path has its plan.                        *)
LEMMA LinkGoes ==
  ASSUME Simple, NEW d, Shows(d), NEW g \in Guests, NEW o \in Names, NEW n \in Names,
         EnterLink(g, o, n)
  PROVE  Goes(d)
<1> DEFINE plan == move_and_symlink_path(o, n)
           un == UndoLink(o)
<1>1. Enter(g, Linking, plan, un)
  BY DEF EnterLink, Linking
<1>2. Name(o) \in DOMAIN dir /\ Name(n) \notin DOMAIN dir /\ (~IsFaked(o) => Free(o) # {})
  BY DEF EnterLink, Exists
<1>3. /\ dir = d /\ WF(d) /\ WF(dir) /\ dir' = d /\ snap' = ViewOf(d)
      /\ Only(g, Linking)' /\ todo' = plan /\ undo' = un /\ busy' = IF plan = <<>> THEN None ELSE g
  BY <1>1, EnterIdle
<1>4. LinkStage(d, o, n, plan, d, un) /\ plan # <<>>
  BY <1>2, <1>3, LinkPlan
<1> HIDE DEF plan, un
<1>5. InLink(d, g, o, n)'
  BY <1>2, <1>3, <1>4 DEF InLink
<1>6. Shows(d)'
  BY <1>3, <1>5 DEF Shows, InCall
<1> QED BY <1>6 DEF Goes

(* What follows the end of a call.                                         *)
LEMMA IdleShows ==
  ASSUME NEW e, WF(e), dir' = e, busy' = None, todo' = <<>>, call' = [h \in Guests |-> NoCall]
  PROVE  Shows(e)'
  BY DEF Shows, Idle

(* One host call of a handler.                                             *)
LEMMA HostCallGoes ==
  ASSUME NEW d, Shows(d), HostCall
  PROVE  Goes(d)
<1>1. todo # <<>> /\ WF(d) /\ InCall(d) /\ UNCHANGED <<undo, snap>>
  BY DEF HostCall, Shows, Idle
<1>2. dir' = Do(dir, Head(todo)) /\ todo' = Tail(todo)
  BY DoneIsDo DEF HostCall
<1>3. /\ busy' = IF Tail(todo) = <<>> THEN None ELSE busy
      /\ call' = IF Tail(todo) = <<>> /\ call[busy].nr \in {"link", "undo"}
                 THEN [call EXCEPT ![busy] = NoCall] ELSE call
  BY DEF HostCall
<1>4. snap' = ViewOf(d)
  BY <1>1 DEF InCall
<1>5. ASSUME NEW g \in Guests, NEW n \in Names, NEW c, InRemove(d, g, n, c) PROVE Goes(d)
  <2>1. busy = g /\ call[busy] = c
    BY <1>1, <1>5, OnlyCall DEF InRemove
  <2>2. c.nr \in {"unlink", "rename"}
    BY <1>5, RemovesKinds DEF InRemove
  <2>3. call' = call
    BY <1>3, <2>1, <2>2
  <2>4. DecStage(d, n, todo', dir')
    BY <1>1, <1>2, <1>5, DecStageStep DEF InRemove
  <2>5. InRemove(d, g, n, c)'
    BY <1>2, <1>3, <1>5, <2>1, <2>3, <2>4 DEF InRemove, Only
  <2>6. Shows(d)'
    BY <1>1, <1>4, <2>5 DEF Shows, InCall
  <2> QED BY <2>6 DEF Goes
<1>6. ASSUME NEW g \in Guests, NEW o \in Names, NEW n \in Names, InLink(d, g, o, n) PROVE Goes(d)
  <2>1. busy = g /\ call[busy] = Linking /\ Name(o) \in DOMAIN d /\ Name(n) \notin DOMAIN d
    BY <1>6, OnlyCall DEF InLink
  <2>2. LinkStage(d, o, n, todo', dir', undo')
    BY <1>1, <1>2, <1>6, LinkStageStep DEF InLink
  <2>3. CASE Tail(todo) = <<>>
    <3>1. call' = [h \in Guests |-> NoCall]
      BY <1>3, <1>6, <2>1, <2>3, Kinds, OnlyCall DEF InLink
    <3>2. PICK e : e = dir'
      OBVIOUS
    <3>3. WF(e) /\ LinkOf(e) = [LinkOf(d) EXCEPT ![n] = PathIn(d, o)]
      <4>1. LinkFacts(d, o, n, todo', dir', undo')
        BY <1>1, <2>1, <2>2, LinkStageFacts
      <4> QED BY <1>2, <2>3, <3>2, <4>1 DEF LinkFacts
    <3>4. Shows(e)'
      BY <1>2, <1>3, <2>3, <3>1, <3>2, <3>3, IdleShows
    <3>5. LinkOf(d)[o] = PathIn(d, o) /\ LinkOf(d)[o] # None /\ LinkOf(d)[n] = None
      BY <1>1, <2>1, PathThere
    <3>6. May(LinkOf(d), LinkOf(e))
      BY <3>3, <3>5 DEF May
    <3> QED BY <3>4, <3>6 DEF Goes
  <2>4. CASE Tail(todo) # <<>>
    <3>1. InLink(d, g, o, n)'
      BY <1>2, <1>3, <1>6, <2>1, <2>2, <2>4 DEF InLink, Only
    <3>2. Shows(d)'
      BY <1>1, <1>4, <3>1 DEF Shows, InCall
    <3> QED BY <3>2 DEF Goes
  <2> QED BY <2>3, <2>4
<1>7. ASSUME NEW g \in Guests, NEW o \in Names, InUndo(d, g, o) PROVE Goes(d)
  <2>1. busy = g /\ call[busy] = Undoing
    BY <1>7, OnlyCall DEF InUndo
  <2>2. UndoStage(d, o, todo', dir')
    BY <1>1, <1>2, <1>7, UndoStageStep DEF InUndo
  <2>3. CASE Tail(todo) = <<>>
    <3>1. call' = [h \in Guests |-> NoCall]
      BY <1>3, <1>7, <2>1, <2>3, Kinds, OnlyCall DEF InUndo
    <3>2. dir' = d
      BY <1>1, <1>2, <2>2, <2>3, UndoStageFacts
    <3>3. Shows(d)'
      BY <1>1, <1>2, <1>3, <2>3, <3>1, <3>2, IdleShows
    <3> QED BY <3>3 DEF Goes
  <2>4. CASE Tail(todo) # <<>>
    <3>1. InUndo(d, g, o)'
      BY <1>2, <1>3, <1>7, <2>1, <2>2, <2>4 DEF InUndo, Only
    <3>2. Shows(d)'
      BY <1>1, <1>4, <3>1 DEF Shows, InCall
    <3> QED BY <3>2 DEF Goes
  <2> QED BY <2>3, <2>4
<1> QED BY <1>1, <1>5, <1>6, <1>7 DEF InCall

(* There is something to do to take a link back.                           *)
LEMMA UndoIsThere ==
  ASSUME NEW d, NEW o, NEW n, NEW td, NEW x, NEW un, LinkStage(d, o, n, td, x, un)
  PROVE  un # <<>>
<1>1. \A a, b, c : <<a, b, c>> # <<>>
  OBVIOUS
<1> QED BY <1>1 DEF LinkStage, FakedLink, PlainLink

(* A host call fails: the first one, or the last one of a link.            *)
LEMMA HostCallFailsGoes ==
  ASSUME Simple, NEW d, Shows(d), HostCallFails
  PROVE  Goes(d)
<1>1. /\ todo # <<>> /\ WF(d) /\ InCall(d) /\ UNCHANGED <<dir, undo, snap>>
      /\ call[busy].nr # "undo" /\ snap = ViewOf(d)
  BY DEF HostCallFails, Shows, Idle, InCall
<1>2. ASSUME CanDo(dir, Head(todo)), ~Undone PROVE LinkOf(dir) = LinkOf(d)
  <2>1. View = snap
    BY <1>2, DoneIsDo DEF HostCallFails, Simple
  <2> QED BY <1>1, <2>1, ViewIs DEF ViewOf
<1>3. ASSUME ~Undone
      PROVE  todo' = <<>> /\ call' = [call EXCEPT ![busy] = NoCall] /\ busy' = None
  BY <1>3 DEF HostCallFails
<1>4. ASSUME Undone
      PROVE  todo' = undo /\ call' = [call EXCEPT ![busy].nr = "undo"] /\ busy' = busy
  BY <1>4 DEF HostCallFails
<1>5. ASSUME NEW g \in Guests, NEW n \in Names, NEW c, InRemove(d, g, n, c) PROVE Goes(d)
  <2>1. busy = g /\ call[busy] = c
    BY <1>1, <1>5, OnlyCall DEF InRemove
  <2>2. c.nr \in {"unlink", "rename"}
    BY <1>5, RemovesKinds DEF InRemove
  <2>3. ~Undone
    BY <2>1, <2>2 DEF Undone
  <2>4. DecFacts(d, n, todo, dir)
    BY <1>1, <1>5, DecStageFacts DEF InRemove
  <2>5. dir = d
    BY <1>1, <1>2, <2>3, <2>4 DEF DecFacts
  <2>6. call' = [h \in Guests |-> NoCall]
    BY <1>3, <1>5, <2>1, <2>3, OnlyCall DEF InRemove
  <2>7. Shows(d)'
    BY <1>1, <1>3, <2>3, <2>5, <2>6, IdleShows
  <2> QED BY <2>7 DEF Goes
<1>6. ASSUME NEW g \in Guests, NEW o \in Names, NEW n \in Names, InLink(d, g, o, n) PROVE Goes(d)
  <2>1. busy = g /\ call[busy] = Linking /\ call[g] = Linking /\ call[busy].nr = "link"
    BY <1>6, OnlyCall, Kinds DEF InLink
  <2>2. LinkStage(d, o, n, todo, dir, undo) /\ LinkFacts(d, o, n, todo, dir, undo)
    BY <1>1, <1>6, LinkStageFacts DEF InLink
  <2>3. CASE Undone
    <3>1. UndoStage(d, o, undo, dir) /\ undo # <<>>
      BY <2>2, <2>3, UndoIsThere DEF Undone, LinkFacts
    <3>2. [call[g] EXCEPT !.nr = "undo"] = Undoing
      BY <2>1 DEF Linking, Undoing
    <3>3. call' = [call EXCEPT ![g] = Undoing]
      BY <1>4, <2>1, <2>3, <3>2
    <3>4. call' = [h \in Guests |-> IF h = g THEN Undoing ELSE NoCall]
      BY <1>6, <3>3, OnlyCall DEF InLink
    <3>5. InUndo(d, g, o)'
      BY <1>1, <1>4, <2>1, <2>3, <3>1, <3>4 DEF InUndo, Only
    <3>6. Shows(d)'
      BY <1>1, <3>5 DEF Shows, InCall
    <3> QED BY <3>6 DEF Goes
  <2>4. CASE ~Undone
    <3>1. Len(todo) # 1
      BY <2>1, <2>4 DEF Undone
    <3>2. dir = d
      BY <1>1, <1>2, <2>2, <2>4, <3>1 DEF LinkFacts
    <3>3. call' = [h \in Guests |-> NoCall]
      BY <1>3, <1>6, <2>1, <2>4, OnlyCall DEF InLink
    <3>4. Shows(d)'
      BY <1>1, <1>3, <2>4, <3>2, <3>3, IdleShows
    <3> QED BY <3>4 DEF Goes
  <2> QED BY <2>3, <2>4
<1>7. ASSUME NEW g \in Guests, NEW o \in Names, InUndo(d, g, o) PROVE FALSE
  BY <1>1, <1>7, OnlyCall, Kinds DEF InUndo
<1> QED BY <1>1, <1>5, <1>6, <1>7 DEF InCall

(* The kernel renames o to n once the handler of the rename is done.  If n *)
(* was another name of the same file, o goes and nothing else changes.     *)
LEMMA RenameOver ==
  ASSUME NEW d, WF(d), NEW o \in Names, NEW n \in Names, o # n, Name(o) \in DOMAIN d,
         NEW x, DecFacts(d, n, <<>>, x)
  PROVE  LET r == Move(x, Name(o), Name(n)) IN
         WF(r) /\ May(LinkOf(d), LinkOf(r))
<1> DEFINE r == Move(x, Name(o), Name(n))
           l == LinkOf(d)
<1>1. l[o] = PathIn(d, o) /\ l[o] # None
  BY PathThere
<1>2. CASE Name(n) \notin DOMAIN d
  <2>1. x = d
    BY <1>2 DEF DecFacts
  <2>2. WF(r) /\ LinkOf(r) = [l EXCEPT ![n] = l[o], ![o] = None]
    BY <1>1, <1>2, <2>1, MoveWF
  <2>3. l[n] = None
    BY <1>2, PathThere
  <2> QED BY <1>1, <2>2, <2>3 DEF May
<1>3. CASE Name(n) \in DOMAIN d
  <2> DEFINE y == Drop(x, Name(n))
  <2>1. WF(y) /\ LinkOf(y) = [l EXCEPT ![n] = None] /\ Name(o) \in DOMAIN x /\ Name(n) \in DOMAIN x
    BY <1>3 DEF DecFacts
  <2>2. DOMAIN y = DOMAIN x \ {Name(n)} /\ \A e \in DOMAIN y : y[e] = x[e]
    BY DEF Drop
  <2>3. Name(o) # Name(n)
    BY Differ
  <2>4. Name(o) \in DOMAIN y /\ Name(n) \notin DOMAIN y
    BY <2>1, <2>2, <2>3
  <2> HIDE DEF y
  <2>5. r = Move(y, Name(o), Name(n))
    <3>1. (DOMAIN x \ {Name(o)}) \cup {Name(n)} = (DOMAIN y \ {Name(o)}) \cup {Name(n)}
      BY <2>1, <2>2
    <3>2. \A e \in (DOMAIN y \ {Name(o)}) \cup {Name(n)} :
            (IF e = Name(n) THEN x[Name(o)] ELSE x[e]) = (IF e = Name(n) THEN y[Name(o)] ELSE y[e])
      BY <2>2, <2>4
    <3> QED BY <3>1, <3>2 DEF Move
  <2> HIDE DEF r
  <2>6. WF(r) /\ LinkOf(r) = [LinkOf(y) EXCEPT ![n] = PathIn(y, o), ![o] = None]
    BY <2>1, <2>4, <2>5, MoveWF
  <2>7. l = [m \in Names |-> l[m]]
    BY DEF LinkOf
  <2> HIDE DEF l
  <2>8. PathIn(y, o) = l[o]
    BY <2>1, <2>7, PathThere
  <2>9. LinkOf(r) = [l EXCEPT ![n] = l[o], ![o] = None]
    BY <2>1, <2>6, <2>7, <2>8
  <2>10. ASSUME l[o] # l[n] PROVE May(l, LinkOf(r))
    BY <1>1, <2>9, <2>10 DEF May
  <2>11. ASSUME l[o] = l[n] PROVE May(l, LinkOf(r))
    <3>1. LinkOf(r) = [l EXCEPT ![o] = None]
      BY <2>7, <2>9, <2>11
    <3> QED BY <1>1, <3>1 DEF May
  <2> QED BY <2>6, <2>10, <2>11 DEF r, l
<1> QED BY <1>2, <1>3

(* The kernel runs the call of a guest whose handler is done.              *)
LEMMA KernelCallGoes ==
  ASSUME NEW d, Shows(d), NEW h \in Guests, KernelCall(h)
  PROVE  Goes(d)
<1>1. /\ busy # h /\ call[h].nr \in {"unlink", "rename"}
      /\ call' = [call EXCEPT ![h] = NoCall] /\ UNCHANGED <<todo, undo, busy, snap>>
  BY DEF KernelCall
<1>2. InCall(d) /\ WF(d)
  BY <1>1, Kinds DEF Shows, Idle
<1>3. ASSUME NEW g \in Guests, NEW n \in Names, NEW c, InRemove(d, g, n, c) PROVE Goes(d)
  <2>1. h = g
    BY <1>1, <1>3, OnlyCall, Kinds DEF InRemove
  <2>2. call[h] = c /\ call' = [x \in Guests |-> NoCall]
    BY <1>1, <1>3, <2>1, OnlyCall DEF InRemove
  <2>3. todo = <<>> /\ busy = None
    BY <1>1, <1>3, <2>1 DEF InRemove
  <2>4. DecFacts(d, n, <<>>, dir)
    BY <1>2, <1>3, <2>3, DecStageFacts DEF InRemove
  <2>5. busy' = None /\ todo' = <<>>
    BY <1>1, <2>3
  <2>6. \A m : Name(m) \in DOMAIN dir <=> Name(m) \in DOMAIN d
    BY <2>4 DEF DecFacts
  <2>7. PICK e : e = dir'
    OBVIOUS
  <2>8. CASE c = Unlinking(n)
    <3>0. c.nr = "unlink" /\ c.path = n /\ c.nr # "rename"
      BY <2>8, Kinds
    <3>1. CASE Name(n) \in DOMAIN d
      <4>1. dir' = Without(Name(n))
        BY <2>2, <2>6, <3>0, <3>1 DEF KernelCall, Exists
      <4>2. e = Drop(dir, Name(n))
        BY <2>7, <4>1 DEF Without, Restrict, Drop
      <4>3. WF(e) /\ LinkOf(e) = [LinkOf(d) EXCEPT ![n] = None]
        BY <2>4, <3>1, <4>2 DEF DecFacts
      <4>4. Shows(e)'
        BY <2>2, <2>5, <2>7, <4>3, IdleShows
      <4>5. LinkOf(d)[n] # None
        BY <1>2, <3>1, PathThere
      <4>6. May(LinkOf(d), LinkOf(e))
        BY <4>3, <4>5 DEF May
      <4> QED BY <4>4, <4>6 DEF Goes
    <3>2. CASE Name(n) \notin DOMAIN d
      <4>1. dir' = dir
        BY <2>2, <2>6, <3>0, <3>2 DEF KernelCall, Exists
      <4>2. dir' = d
        BY <2>4, <3>2, <4>1 DEF DecFacts
      <4>3. Shows(d)'
        BY <1>2, <2>2, <2>5, <4>2, IdleShows
      <4> QED BY <4>3 DEF Goes
    <3> QED BY <3>1, <3>2
  <2>9. ASSUME NEW o \in Names, NEW b \in BOOLEAN, c = Renaming(o, n, b), o # n, Name(o) \in DOMAIN d,
               b => Name(n) \notin DOMAIN d
        PROVE  Goes(d)
    <3>0. c.nr = "rename" /\ c.path = n /\ c.nr # "unlink" /\ c.from = o /\ c.noreplace = b
      BY <2>9, Kinds
    <3>1. dir' = Done(Rename(Name(o), Name(n)))
      BY <2>2, <2>6, <2>9, <3>0 DEF KernelCall, Exists
    <3>2. e = Move(dir, Name(o), Name(n))
      BY <2>7, <3>1, DoneIsDo, DoMoves
    <3>3. WF(e) /\ May(LinkOf(d), LinkOf(e))
      BY <1>2, <2>4, <2>9, <3>2, RenameOver
    <3>4. Shows(e)'
      BY <2>2, <2>5, <2>7, <3>3, IdleShows
    <3> QED BY <3>3, <3>4 DEF Goes
  <2>10. Removes(d, n, c)
    BY <1>3 DEF InRemove
  <2> QED BY <2>8, <2>9, <2>10 DEF Removes
<1>4. ASSUME NEW g \in Guests, NEW o \in Names, NEW n \in Names, InLink(d, g, o, n) PROVE FALSE
  BY <1>1, <1>4, OnlyCall, Kinds DEF InLink
<1>5. ASSUME NEW g \in Guests, NEW o \in Names, InUndo(d, g, o) PROVE FALSE
  BY <1>1, <1>5, OnlyCall, Kinds DEF InUndo
<1> QED BY <1>2, <1>3, <1>4, <1>5 DEF InCall

(* A step that leaves the directory and the calls alone.                   *)
LEMMA StutterGoes ==
  ASSUME NEW d, Shows(d), UNCHANGED <<dir, todo, undo, busy, call, snap>>
  PROVE  Goes(d)
<1>1. Shows(d)'
  BY DEF Shows, Idle, InCall, InRemove, InLink, InUndo, Only
<1> QED BY <1>1 DEF Goes

(* Every step of the guests, of PRoot, of the host and of the kernel.      *)
LEMMA StepGoes ==
  ASSUME Simple, NEW d, Shows(d), [Next]_vars
  PROVE  Goes(d)
<1>1. ASSUME NEW n \in Names, NEW i \in Inodes, Create(n, i) PROVE Goes(d)
  BY <1>1, NewFileGoes DEF Create, Exists
<1>2. ASSUME NEW g \in Guests, NEW n \in Names, NEW i \in Inodes, LinkFromProcFd(g, n, i) PROVE Goes(d)
  BY <1>2, NewFileGoes DEF LinkFromProcFd, Exists, Simple
<1>3. ASSUME Crash PROVE Goes(d)
  BY <1>3, StutterGoes DEF Crash
<1>4. ASSUME UNCHANGED vars PROVE Goes(d)
  BY <1>4, StutterGoes DEF vars
<1> QED
  BY <1>1, <1>2, <1>3, <1>4, UnlinkGoes, LinkGoes, RenameGoes, HostCallGoes, HostCallFailsGoes,
     KernelCallGoes DEF Next

(* The directory is empty at first.                                        *)
LEMMA InitShows ==
  ASSUME Init
  PROVE  Shows([e \in {} |-> <<>>]) /\ LinkOf(dir) = [n \in Names |-> None] /\ Inv
<1> DEFINE d == [e \in {} |-> <<>>]
<1>1. DOMAIN d = {} /\ d = [e \in DOMAIN d |-> d[e]]
  OBVIOUS
<1> HIDE DEF d
<1>2. WF(d)
  BY <1>1 DEF WF, Shape, Counts, EntriesPart, NamesPart, IntersPart, FinalsPart, FilesPart
<1>3. Shows(d) /\ dir = d
  BY <1>2 DEF Init, Shows, Idle, d
<1>4. \A n \in Names : PathIn(d, n) = None
  BY <1>1, <1>2, PathThere
<1> QED BY <1>3, <1>4 DEF LinkOf, Inv, d

(* The invariant holds of every state.                                     *)
LEMMA Invariance == ASSUME Simple PROVE Spec => []Inv
<1>1. Init => Inv
  BY InitShows
<1>2. Inv /\ [Next]_vars => Inv'
  <2> SUFFICES ASSUME Inv, [Next]_vars PROVE Inv'
    OBVIOUS
  <2>1. PICK d : Shows(d)
    BY DEF Inv
  <2>2. PICK e : Shows(e)'
    BY <2>1, StepGoes DEF Goes
  <2> QED BY <2>2 DEF Inv
<1> QED BY <1>1, <1>2, PTL DEF Spec

-----------------------------------------------------------------------------
(* The number in the name of a final file is the number of names that lead *)
(* to it, whatever sequence of links, unlinks and renames made it, those   *)
(* that failed included: move_and_symlink_path and decrement_link_count    *)
(* count up and down exactly once for each name that comes and goes.       *)
THEOREM CountsAreLinks == ASSUME Simple PROVE Spec => []CountIsLinks
<1>1. Inv => CountIsLinks
  <2> SUFFICES ASSUME Inv, Quiet, NEW e \in DOMAIN dir, e[1] = "final"
               PROVE  e[3] = Cardinality({n \in Names : IsFaked(n) /\ Through(n) = e})
    BY DEF CountIsLinks
  <2>1. WF(dir)
    <3>1. PICK d : Shows(d)
      BY DEF Inv
    <3> QED BY <3>1, ShowsSeen DEF Shows
  <2>2. PICK k \in Keys, c \in Nat \ {0} : e = Final(k, c)
    BY <2>1, Entries DEF WF, Shape, EntriesPart
  <2>3. e[3] = c /\ c = Cardinality(Leads(dir, k))
    BY <2>1, <2>2, Entries DEF WF, Counts
  <2>4. \A n : (IsFaked(n) <=> FakedIn(dir, n)) /\ Through(n) = dir[dir[Name(n)]]
    BY DEF IsFaked, FakedIn, Exists, Through
  <2>5. ASSUME NEW n \in Leads(dir, k) PROVE n \in Names /\ IsFaked(n) /\ Through(n) = e
    BY <2>1, <2>2, <2>4, <2>5, Leading DEF WF, Leads
  <2>6. ASSUME NEW n \in Names, IsFaked(n), Through(n) = e PROVE n \in Leads(dir, k)
    <3>1. Name(n) \in DOMAIN dir
      BY <2>4, <2>6 DEF FakedIn
    <3>2. PICK l \in Keys, b \in Nat \ {0} : dir[Name(n)] = Inter(l) /\ Final(l, b) \in DOMAIN dir
      BY <2>1, <2>4, <2>6, <3>1, Leading DEF WF
    <3>3. Through(n) = Final(l, b)
      BY <2>1, <2>4, <3>1, <3>2, Leading DEF WF
    <3>4. l = k
      BY <2>2, <2>6, <3>3, Differ
    <3> QED BY <3>1, <3>2, <3>4 DEF Leads
  <2>7. {n \in Names : IsFaked(n) /\ Through(n) = e} = Leads(dir, k)
    BY <2>5, <2>6
  <2> QED BY <2>3, <2>7
<1> QED BY <1>1, Invariance, PTL

(* Whatever fails and whenever PRoot is killed, a file that keeps a name   *)
(* is still somewhere in the directory.                                    *)
THEOREM FilesAreKept == ASSUME Simple PROVE Spec => []FileIsKept
<1>1. Inv => FileIsKept
  <2> SUFFICES ASSUME Inv, NEW i \in Inodes, NEW n \in Names \ Removed, Seen.link[n] = i
               PROVE  \E e \in DOMAIN dir : dir[e] = File(i)
    BY DEF FileIsKept
  <2>1. PICK d : Shows(d)
    BY DEF Inv
  <2>2. WF(d) /\ Seen.link = LinkOf(d)
    BY <2>1, ShowsSeen DEF Shows, ViewOf
  <2>3. PathIn(d, n) = i /\ i # None
    BY <2>2, PathThere, Link2SymlinkAssumption
  <2>4. \E e \in DOMAIN d : d[e] = File(i)
    BY <2>2, <2>3, PathKept
  <2>5. ASSUME NEW g \in Guests, NEW m \in Names, NEW c, InRemove(d, g, m, c)
        PROVE  \E e \in DOMAIN dir : dir[e] = File(i)
    <3>1. call[g] = c /\ c.nr \in {"unlink", "rename"} /\ c.path = m
      BY <2>5, RemovesKinds, OnlyCall DEF InRemove
    <3>2. m \in Removed
      BY <3>1 DEF Removed
    <3>3. DecFacts(d, m, todo, dir)
      BY <2>2, <2>5, DecStageFacts DEF InRemove
    <3> QED BY <2>3, <3>2, <3>3 DEF DecFacts
  <2>6. ASSUME NEW g \in Guests, NEW o \in Names, NEW m \in Names, InLink(d, g, o, m)
        PROVE  \E e \in DOMAIN dir : dir[e] = File(i)
    <3>1. LinkFacts(d, o, m, todo, dir, undo)
      BY <2>2, <2>6, LinkStageFacts DEF InLink
    <3> QED BY <2>4, <3>1 DEF LinkFacts, Kept
  <2>7. ASSUME NEW g \in Guests, NEW o \in Names, InUndo(d, g, o)
        PROVE  \E e \in DOMAIN dir : dir[e] = File(i)
    BY <2>2, <2>4, <2>7, UndoStageFacts DEF InUndo, Kept
  <2> QED BY <2>1, <2>4, <2>5, <2>6, <2>7 DEF Shows, InCall
<1> QED BY <1>1, Invariance, PTL

(* Guests see hard links: what HardLinks allows of the names, the files    *)
(* and the counts is all that ever happens between two calls, a rename to  *)
(* another name of the same file being seen as the unlink of the old name. *)
THEOREM LinksAreHardLinks == ASSUME Simple PROVE Spec => ImplementsHardLinks
<1>0. \A S : Abstract!Cardinality(S) = Cardinality(S)
  BY DEF Abstract!Cardinality, Cardinality, Abstract!IsFiniteSet, IsFiniteSet
<1>1. ASSUME NEW d, WF(d)
      PROVE  ViewOf(d).link = LinkOf(d) /\ ViewOf(d).nlink = Abstract!Counted(LinkOf(d))
  BY <1>0, <1>1, NlinkIsCount DEF ViewOf, Abstract!Counted
<1>2. Init => Abstract!Init
  <2> SUFFICES ASSUME Init PROVE Abstract!Init
    OBVIOUS
  <2>1. PICK d : Shows(d) /\ d = dir /\ LinkOf(d) = [n \in Names |-> None]
    BY InitShows DEF Init
  <2>2. Seen = ViewOf(d) /\ WF(d)
    BY <2>1, ShowsSeen DEF Shows
  <2> QED BY <1>1, <2>1, <2>2 DEF Abstract!Init, Abstract!None, None
<1>3. (\A e : Shows(e) => Seen = ViewOf(e))'
  <2>1. \A e : Shows(e) => Seen = ViewOf(e)
    BY ShowsSeen
  <2> QED BY <2>1, PTL
<1>4. Inv /\ [Next]_vars => [Abstract!Next]_<<Seen.link, Seen.nlink>>
  <2> SUFFICES ASSUME Inv, [Next]_vars PROVE [Abstract!Next]_<<Seen.link, Seen.nlink>>
    OBVIOUS
  <2>1. PICK d : Shows(d)
    BY DEF Inv
  <2>2. PICK e : Shows(e)' /\ (LinkOf(e) = LinkOf(d) \/ May(LinkOf(d), LinkOf(e)))
    BY <2>1, StepGoes DEF Goes
  <2> DEFINE l == LinkOf(d)
             m == LinkOf(e)
  <2>3. Seen.link = l /\ Seen.nlink = Abstract!Counted(l)
    BY <1>1, <2>1, ShowsSeen DEF Shows
  <2>4. Seen.link' = m /\ Seen.nlink' = Abstract!Counted(m)
    <3>1. WF(e)
      BY <2>2 DEF Shows
    <3>2. Seen' = ViewOf(e)
      BY <1>3, <2>2
    <3> QED BY <1>1, <3>1, <3>2
  <2>5. CASE m = l
    BY <2>3, <2>4, <2>5
  <2>6. CASE May(l, m)
    <3>1. Abstract!Becomes(m)
      BY <2>4 DEF Abstract!Becomes
    <3> HIDE DEF l, m
    <3>2. ASSUME NEW n \in Names, NEW i \in Inodes, l[n] = None, {x \in Names : l[x] = i} = {},
                 m = [l EXCEPT ![n] = i]
          PROVE  Abstract!Create(n, i)
      BY <2>3, <3>1, <3>2 DEF Abstract!Create, Abstract!Named, Abstract!None, None
    <3>3. ASSUME NEW n \in Names, l[n] # None, m = [l EXCEPT ![n] = None]
          PROVE  Abstract!Unlink(n)
      BY <2>3, <3>1, <3>3 DEF Abstract!Unlink, Abstract!None, None
    <3>4. ASSUME NEW o \in Names, NEW n \in Names, l[o] # None, l[n] = None, m = [l EXCEPT ![n] = l[o]]
          PROVE  Abstract!Link(o, n)
      BY <2>3, <3>1, <3>4 DEF Abstract!Link, Abstract!None, None
    <3>5. ASSUME NEW o \in Names, NEW n \in Names, l[o] # None, l[o] # l[n],
                 m = [l EXCEPT ![n] = l[o], ![o] = None]
          PROVE  Abstract!Rename(o, n)
      BY <2>3, <3>1, <3>5 DEF Abstract!Rename, Abstract!None, None
    <3> QED BY <2>6, <3>2, <3>3, <3>4, <3>5 DEF May, Abstract!Next
  <2> QED BY <2>2, <2>5, <2>6
<1> QED BY <1>2, <1>4, Invariance, PTL DEF Spec, ImplementsHardLinks, Abstract!Spec
=============================================================================
