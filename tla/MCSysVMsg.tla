----------------------------- MODULE MCSysVMsg -----------------------------
(* Small instances of SysVMsg: two types of messages, one longer than a     *)
(* receiver's buffer; receivers by type, by range, by exclusion, copying,   *)
(* polling and with an unwritable buffer.                                   *)
EXTENDS SysVMsg

MCMessages == {[mtype |-> 1, len |-> 1], [mtype |-> 2, len |-> 2]}

Arg(typ, sz, flg, ok) == [typ |-> typ, sz |-> sz, flg |-> flg, buf_ok |-> ok]
MCRcvArgs ==
  { Arg(0, 1, {}, TRUE), Arg(-1, 1, {}, FALSE),
    Arg(1, 1, {"MSG_EXCEPT", "MSG_NOERROR", "IPC_NOWAIT"}, TRUE),
    Arg(0, 2, {"MSG_COPY", "IPC_NOWAIT"}, FALSE), Arg(0, -1, {}, TRUE) }
=============================================================================
