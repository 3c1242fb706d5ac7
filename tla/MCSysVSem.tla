----------------------------- MODULE MCSysVSem -----------------------------
(* Small instances of SysVSem: takers of one and two units, a giver, a      *)
(* wait for zero, a polling taker and a two-semaphore operation.            *)
EXTENDS SysVSem

Op(num, op) == [num |-> num, op |-> op, nowait |-> FALSE]
MCSops == { <<Op(1, -1)>>, <<Op(1, 2)>>, <<Op(2, 0), Op(2, 1), Op(1, -2)>>,
            <<[num |-> 1, op |-> -1, nowait |-> TRUE]>> }
=============================================================================
