----------------------------- MODULE HardLinks -----------------------------
(***************************************************************************)
(* What a guest may expect of hard links: several names for one file, and  *)
(* a count of them that stat reports.  The link2symlink extension promises *)
(* this on hosts without hard links (Link2Symlink implements it).          *)
(***************************************************************************)
EXTENDS Naturals, FiniteSets

CONSTANTS Names, Inodes
VARIABLES link,   \* the file each name leads to, None if there is none
          nlink   \* what stat reports of each file, 0 if it does not exist

None == 0
Named(i) == {n \in Names : link[n] = i}
Counted(l) == [i \in Inodes |-> Cardinality({n \in Names : l[n] = i})]

Init == link = [n \in Names |-> None] /\ nlink = Counted(link)

Becomes(l) == link' = l /\ nlink' = Counted(l)

Create(n, i) == link[n] = None /\ Named(i) = {} /\ Becomes([link EXCEPT ![n] = i])

Link(old, new) == /\ link[old] # None /\ link[new] = None
                  /\ Becomes([link EXCEPT ![new] = link[old]])

Unlink(n) == link[n] # None /\ Becomes([link EXCEPT ![n] = None])

Rename(old, new) == /\ link[old] # None /\ link[old] # link[new]
                    /\ Becomes([link EXCEPT ![new] = link[old], ![old] = None])

Next == \/ \E n \in Names, i \in Inodes : Create(n, i)
        \/ \E n \in Names : Unlink(n)
        \/ \E old, new \in Names : Link(old, new) \/ Rename(old, new)

Spec == Init /\ [][Next]_<<link, nlink>>
=============================================================================
