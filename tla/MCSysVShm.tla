----------------------------- MODULE MCSysVShm -----------------------------
(* Small instances of SysVShm: two threads of one process, and a process    *)
(* that one of them may fork.                                               *)
EXTENDS SysVShm

MCProcOf == [t \in Tracees |-> IF t \in Newborn THEN "child" ELSE "parent"]
=============================================================================
