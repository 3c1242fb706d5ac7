------------------------------- MODULE FakeIds -------------------------------
(***************************************************************************)
(* extension/fake_id0/fake_id0.c: the user and group ids of a process that *)
(* believes it is root.  The calls that set ids never reach the kernel:    *)
(* PRoot keeps the ids, decides what is permitted and answers the getters. *)
(*                                                                         *)
(* kernel is what Linux would keep for the same calls, the reference this  *)
(* emulation is held against.  Quirks let a process do what the emulation  *)
(* answers differently: "reuid" setreuid of the real id alone, "both"      *)
(* setreuid to the effective and the saved id, "same" setuid of the        *)
(* effective id, "held" calls made with an effective id other than root    *)
(* while the fake capability is held, "exec" an execve that changes the    *)
(* saved ids.                                                              *)
(***************************************************************************)
EXTENDS Integers, FiniteSets

CONSTANTS Uids, Gids,   \* small sets of ids, 0 is root
          MaxGroups,    \* 64 in the code
          MaxCalls, Quirks

VARIABLES config,  \* Config: r, e, s, fs for "u" and "g", caps_active, keep_caps, groups
          auxv,    \* what the last execve told the program of its ids
          kernel,  \* the reference: r, e, s, permitted and effective capability, keep_caps
          told, calls
vars == <<config, auxv, kernel, told, calls>>

Kinds == {"u", "g"}
Ids(k) == IF k = "u" THEN Uids ELSE Gids
Unset == -1
OK == "ok"
EPERM == "EPERM"

Given(id, old) == IF id = Unset THEN old ELSE id
AnyRoot(c) == 0 \in {c.r["u"], c.e["u"], c.s["u"]}

(* INITIALIZATION, with the ids of the command line.                       *)
Init ==
  /\ \E u \in Uids, g \in Gids :
       LET ids == [k \in Kinds |-> IF k = "u" THEN u ELSE g]
       IN  /\ config = [r |-> ids, e |-> ids, s |-> ids, fs |-> ids, caps_active |-> (u = 0), keep_caps |-> FALSE,
                        groups |-> IF g = 0 THEN {0} ELSE {}]
           /\ kernel = [r |-> ids, e |-> ids, s |-> ids, permitted |-> (u = 0), effective |-> (u = 0), keep |-> FALSE]
           /\ auxv = [e |-> ids]
  /\ told = [proot |-> OK, linux |-> OK] /\ calls = 0

-----------------------------------------------------------------------------
(* The emulation.  A call gives the new configuration, or refuses.         *)
Privileged(c) == c.e["u"] = 0 \/ c.caps_active

MAYBE_DROP_CAPS(c, prev_root) ==
  IF prev_root /\ ~c.keep_caps /\ ~AnyRoot(c) THEN [c EXCEPT !.caps_active = FALSE] ELSE c

Granted(c, allowed, new) == IF allowed THEN [res |-> OK, c |-> MAYBE_DROP_CAPS(new, AnyRoot(c))]
                            ELSE [res |-> EPERM, c |-> c]

SETXID(c, k, id) ==
  LET all == [c EXCEPT !.r[k] = id, !.s[k] = id, !.e[k] = id, !.fs[k] = id]
  IN  Granted(c, Privileged(c) \/ id \in {c.r[k], c.e[k], c.s[k]},
              IF Privileged(c) THEN all ELSE [c EXCEPT !.e[k] = id, !.fs[k] = id])

(* Fault: the effective id alone moves, the saved one is never set.     *)
ReuidNeverSaves(c, k, rid, eid) ==
  LET allowed == Privileged(c) \/ ({rid, eid} \subseteq {Unset, c.r[k], c.e[k]})
  IN  Granted(c, allowed, [c EXCEPT !.r[k] = Given(rid, @), !.e[k] = Given(eid, @), !.fs[k] = Given(eid, @)])

SETREXID(c, k, rid, eid) ==
  LET UnchangedR == rid \in {Unset, c.r[k]}
      UnchangedE == eid \in {Unset, c.e[k]}
      allowed == \/ Privileged(c) \/ (UnchangedE /\ UnchangedR)
                 \/ rid = c.e[k] /\ (eid = c.r[k] \/ UnchangedE)
                 \/ eid = c.r[k] /\ (rid = c.e[k] \/ UnchangedR)
                 \/ eid = c.s[k] /\ UnchangedR
      saved == IF eid # Unset /\ (eid # c.r[k] \/ rid # Unset) THEN eid ELSE c.s[k]
  IN  Granted(c, allowed, [c EXCEPT !.r[k] = Given(rid, @), !.e[k] = Given(eid, @), !.fs[k] = Given(eid, @), !.s[k] = saved])

SETRESXID(c, k, rid, eid, sid) ==
  Granted(c, Privileged(c) \/ {rid, eid, sid} \subseteq {Unset, c.r[k], c.e[k], c.s[k]},
          [c EXCEPT !.r[k] = Given(rid, @), !.e[k] = Given(eid, @), !.fs[k] = Given(eid, @), !.s[k] = Given(sid, @)])

SETFSXID(c, k, id) ==
  IF Privileged(c) \/ id \in {c.fs[k], c.r[k], c.e[k], c.s[k]} THEN [c EXCEPT !.fs[k] = id] ELSE c

-----------------------------------------------------------------------------
(* Linux, for the same calls: the effective capability goes with an        *)
(* effective id of root, and the permitted one with the last id of root.   *)
Fixup(old, new) ==
  LET dropped == AnyRoot(old) /\ ~AnyRoot(new) /\ ~new.keep
      permitted == new.permitted /\ ~dropped
  IN  [new EXCEPT !.permitted = permitted,
                  !.effective = CASE old.e["u"] = 0 /\ new.e["u"] # 0 -> FALSE
                                  [] old.e["u"] # 0 /\ new.e["u"] = 0 -> permitted
                                  [] OTHER                            -> new.effective /\ permitted]
Linux(n, allowed, new) == IF allowed THEN [res |-> OK, c |-> Fixup(n, new)] ELSE [res |-> EPERM, c |-> n]

LinuxSetId(n, k, id) ==
  Linux(n, n.effective \/ id \in {n.r[k], n.s[k]},
        IF n.effective THEN [n EXCEPT !.r[k] = id, !.e[k] = id, !.s[k] = id] ELSE [n EXCEPT !.e[k] = id])
LinuxSetReId(n, k, rid, eid) ==
  LET e == Given(eid, n.e[k])
  IN  Linux(n, n.effective \/ (rid \in {Unset, n.r[k], n.e[k]} /\ eid \in {Unset, n.r[k], n.e[k], n.s[k]}),
            [n EXCEPT !.r[k] = Given(rid, @), !.e[k] = e,
                      !.s[k] = IF rid # Unset \/ (eid # Unset /\ eid # n.r[k]) THEN e ELSE @])
LinuxSetResId(n, k, rid, eid, sid) ==
  Linux(n, n.effective \/ {rid, eid, sid} \subseteq {Unset, n.r[k], n.e[k], n.s[k]},
        [n EXCEPT !.r[k] = Given(rid, @), !.e[k] = Given(eid, @), !.s[k] = Given(sid, @)])

-----------------------------------------------------------------------------
(* handle_sysexit_end and handle_sigsys: the call on both sides.           *)
Both(mine, theirs) ==
  /\ calls < MaxCalls /\ calls' = calls + 1
  /\ \E m \in {mine}, t \in {theirs} :
       config' = m.c /\ kernel' = t.c /\ told' = [proot |-> m.res, linux |-> t.res]
  /\ UNCHANGED auxv

(* Only set*id calls to ids of its own are sure to be the same to a        *)
(* process that gave up an effective id of root and not the others.        *)
Agreed == Privileged(config) = kernel.effective \/ "held" \in Quirks

setxid(k, id) ==
  /\ Agreed
  /\ "same" \in Quirks \/ Privileged(config) \/ id # config.e[k] \/ id \in {config.r[k], config.s[k]}
  /\ Both(SETXID(config, k, id), LinuxSetId(kernel, k, id))
(* The real id from the effective one and that from the saved one at once. *)
Crossed(k, rid, eid) ==
  rid = config.e[k] /\ rid # config.r[k] /\ eid = config.s[k] /\ eid \notin {config.r[k], config.e[k]}
setrexid(k, rid, eid) ==
  /\ Agreed
  /\ (rid # Unset /\ eid = Unset /\ config.s[k] # config.e[k]) => "reuid" \in Quirks
  /\ Privileged(config) \/ ~Crossed(k, rid, eid) \/ "both" \in Quirks
  /\ Both(SETREXID(config, k, rid, eid), LinuxSetReId(kernel, k, rid, eid))
setresxid(k, rid, eid, sid) ==
  /\ {rid, eid, sid} \subseteq {Unset, config.r[k], config.e[k], config.s[k]} \/ Agreed
  /\ Both(SETRESXID(config, k, rid, eid, sid), LinuxSetResId(kernel, k, rid, eid, sid))
setfsxid(k, id) ==
  /\ calls < MaxCalls /\ calls' = calls + 1
  /\ config' = SETFSXID(config, k, id)
  /\ UNCHANGED <<auxv, kernel, told>>

(* prctl(PR_SET_KEEPCAPS), which the kernel performs.                      *)
prctl(keep) ==
  /\ calls < MaxCalls /\ calls' = calls + 1
  /\ keep => "held" \in Quirks
  /\ config' = [config EXCEPT !.keep_caps = keep] /\ kernel' = [kernel EXCEPT !.keep = keep]
  /\ UNCHANGED <<auxv, told>>

setgroups(gs) ==
  /\ calls < MaxCalls /\ calls' = calls + 1
  /\ config' = IF (config.e["g"] = 0 \/ config.caps_active) /\ Cardinality(gs) <= MaxGroups
               THEN [config EXCEPT !.groups = gs] ELSE config
  /\ UNCHANGED <<auxv, kernel, told>>
(* getgroups makes up a group of root for an effective group of root.      *)
getgroups ==
  /\ config.groups = {} /\ config.e["g"] = 0
  /\ config' = [config EXCEPT !.groups = {0}]
  /\ UNCHANGED <<auxv, kernel, told, calls>>

(* handle_sysexit_start, after a successful execve: the auxiliary vector   *)
(* is filled before the set-id bits of the program are looked at.          *)
Execed(c, setuid, setgid) ==
  [c EXCEPT !.keep_caps = FALSE,
            !.e["u"] = IF setuid THEN 0 ELSE @, !.s["u"] = IF setuid THEN 0 ELSE @,
            !.e["g"] = IF setgid THEN 0 ELSE @, !.s["g"] = IF setgid THEN 0 ELSE @,
            !.caps_active = setuid \/ @]
LinuxExeced(n, setuid, setgid) ==
  LET e == [k \in Kinds |-> IF (k = "u" /\ setuid) \/ (k = "g" /\ setgid) THEN 0 ELSE n.e[k]]
  IN  [n EXCEPT !.e = e, !.s = e, !.keep = FALSE, !.effective = (e["u"] = 0), !.permitted = (0 \in {e["u"], n.r["u"]})]
execve(setuid, setgid) ==
  /\ calls < MaxCalls /\ calls' = calls + 1
  /\ "exec" \in Quirks \/ config.s = config.e
  /\ auxv' = [e |-> config.e]
  /\ config' = Execed(config, setuid, setgid) /\ kernel' = LinuxExeced(kernel, setuid, setgid)
  /\ UNCHANGED told

Next ==
  \/ \E k \in Kinds : \E id \in Ids(k) : setxid(k, id) \/ setfsxid(k, id)
  \/ \E k \in Kinds : \E rid, eid \in Ids(k) \cup {Unset} : setrexid(k, rid, eid)
  \/ \E k \in Kinds : \E rid, eid, sid \in Ids(k) \cup {Unset} : setresxid(k, rid, eid, sid)
  \/ \E keep \in BOOLEAN : prctl(keep)
  \/ \E gs \in SUBSET Gids : setgroups(gs)
  \/ getgroups
  \/ \E setuid, setgid \in BOOLEAN : execve(setuid, setgid)

Spec == Init /\ [][Next]_vars

-----------------------------------------------------------------------------
(* Calls that set ids, in any order, are granted or refused as Linux would *)
(* and leave the same real, effective and saved ids: what was dropped for  *)
(* good cannot be taken back, and what was set aside can.                  *)
IdsLikeLinux ==
  /\ told.proot = told.linux
  /\ config.r = kernel.r /\ config.e = kernel.e /\ config.s = kernel.s
=============================================================================
