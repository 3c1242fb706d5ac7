------------------------------- MODULE Netlink -------------------------------
(***************************************************************************)
(* syscall/enter.c, syscall/exit.c: NETLINK_ROUTE sockets.  Where the host *)
(* refuses them PRoot substitutes an AF_UNIX socket and answers itself; a  *)
(* real one keeps its answers, but for the refusals a tracee gets that     *)
(* believes it has a network namespace of its own.                         *)
(*                                                                         *)
(* A message is [kind, seq, err]; err is meaningful for kind "error", an   *)
(* answer that only reports a status.  pretend is a history field: the     *)
(* message answers a reconfiguration asked for in a pretended namespace.   *)
(***************************************************************************)
EXTENDS Naturals, Sequences, SequencesExt, FiniteSets, FiniteSetsExt

CONSTANTS Tracees, Fds,
          Sockets,               \* the open sockets there can be
          MAX_FAKE_NETLINK_FDS, MAX_NETLINK_ROUTE_FDS,
          MaxItems,              \* messages that fit in a reply
          Seqs, MaxSends

VARIABLES host,       \* blocked: host_blocks_af_netlink; filter: PRoot's seccomp filter is on
          alive, files,          \* the kernel's view: the file behind each descriptor
          queue,                 \* and what waits on each real socket
          fake,       \* fake_netlink_fds: the pending reply of each tracked descriptor
          route,      \* netlink_route_fds
          netns,      \* fake_netns
          ack,        \* netlink_ack_*
          guest,      \* what each tracee is doing
          sends
vars == <<host, alive, files, queue, fake, route, netns, ack, guest, sends>>
kernel == <<host, alive, files, queue>>

None == "none"
NoAck == [fd |-> 0, seq |-> 0]
Closed == <<None, None>>
Idle == [does |-> "idle"]
Msg(kind, seq, err) == [kind |-> kind, seq |-> seq, err |-> err, pretend |-> FALSE]
Refusals == {"EPERM", "EACCES"}

Init ==
  /\ host \in [blocked : BOOLEAN, filter : BOOLEAN]
  /\ alive = {CHOOSE t \in Tracees : TRUE}
  /\ files = [t \in Tracees |-> [f \in Fds |-> Closed]]
  /\ queue = [s \in Sockets |-> <<>>]
  /\ fake = [t \in Tracees |-> <<>>] /\ route = [t \in Tracees |-> {}]
  /\ netns = [t \in Tracees |-> FALSE]
  /\ ack = [t \in Tracees |-> NoAck] /\ guest = [t \in Tracees |-> Idle]
  /\ sends = 0

Free(t) == t \in alive /\ guest[t] = Idle
Is(t, fd, kind) == files[t][fd][2] = kind

-----------------------------------------------------------------------------
(* fake_netlink_fds is an array of (fd, reply); a reply is what is left of *)
(* it to read.                                                             *)
Tracked(t) == {fake[t][i].fd : i \in DOMAIN fake[t]}
EntryOf(t, fd) == CHOOSE i \in DOMAIN fake[t] : fake[t][i].fd = fd
Reply(t, fd) == fake[t][EntryOf(t, fd)].reply
SetReply(t, fd, r) == fake' = [fake EXCEPT ![t][EntryOf(t, fd)].reply = r]

(* unmark_fake_netlink_fd: the last entry takes the place.                 *)
Unmarked(t, fd) ==
  IF fd \notin Tracked(t) THEN fake[t]
  ELSE Front([fake[t] EXCEPT ![EntryOf(t, fd)] = Last(fake[t])])

(* socket(2): the enter stage decides, the exit stage records what the     *)
(* kernel returned: nothing if it failed or the array is full.             *)
Lowest(t) == CHOOSE f \in Fds : files[t][f] = Closed /\ \A g \in Fds : files[t][g] = Closed => f <= g
HasRoom(t) == \E f \in Fds : files[t][f] = Closed
Recorded(t, fd) ==
  IF host.blocked
  THEN /\ fake' = IF Len(fake[t]) < MAX_FAKE_NETLINK_FDS /\ fd \notin Tracked(t)
                  THEN [fake EXCEPT ![t] = Append(@, [fd |-> fd, reply |-> <<>>])] ELSE fake
       /\ UNCHANGED route
  ELSE /\ route' = IF Cardinality(route[t]) < MAX_NETLINK_ROUTE_FDS
                   THEN [route EXCEPT ![t] = @ \cup {fd}] ELSE route
       /\ UNCHANGED fake
Socket(t) ==
  LET new == {s \in Sockets : \A u \in alive, f \in Fds : files[u][f][1] # s}
      s == CHOOSE s \in new : TRUE
  IN  /\ Free(t) /\ HasRoom(t) /\ new # {}
      /\ files' = [files EXCEPT ![t][Lowest(t)] = <<s, IF host.blocked THEN "fake" ELSE "real">>]
      /\ Recorded(t, Lowest(t))
      /\ UNCHANGED <<host, alive, queue, netns, ack, guest, sends>>

(* close(2) is a stop for PRoot unless the filter is on: it is in no list  *)
(* of filtered calls.  The other ways a descriptor is lost or replaced,    *)
(* dup2(2) and close-on-exec, are out of the model as of the code.         *)
KeepsRoute(t, fd) ==     \* Fault: only substitutes are unmarked
  fake' = [fake EXCEPT ![t] = Unmarked(t, fd)] /\ UNCHANGED <<route, ack>>
PR_close(t, fd) ==
  /\ fake' = [fake EXCEPT ![t] = Unmarked(t, fd)]
  /\ route' = [route EXCEPT ![t] = @ \ {fd}]
  /\ ack' = [ack EXCEPT ![t] = IF @.fd = fd THEN NoAck ELSE @]
Close(t, fd) ==
  /\ Free(t) /\ files[t][fd] # Closed
  /\ files' = [files EXCEPT ![t][fd] = Closed]
  /\ IF host.filter THEN UNCHANGED <<fake, route, ack>> ELSE PR_close(t, fd)
  /\ UNCHANGED <<host, alive, queue, netns, guest, sends>>

(* clone(2) with CLONE_NEWNET, and new_child: descriptors and tracking are *)
(* copied, pending replies are not.                                        *)
new_child(t, c, newnet) ==
  /\ Free(t) /\ c \notin alive /\ alive' = alive \cup {c}
  /\ files' = [files EXCEPT ![c] = files[t]]
  /\ fake' = [fake EXCEPT ![c] = [i \in DOMAIN fake[t] |-> [fd |-> fake[t][i].fd, reply |-> <<>>]]]
  /\ route' = [route EXCEPT ![c] = route[t]]
  /\ netns' = [netns EXCEPT ![c] = netns[t] \/ newnet]
  /\ UNCHANGED <<host, queue, ack, guest, sends>>

-----------------------------------------------------------------------------
(* build_fake_netlink_reply: n is what the host's enumeration yields, got  *)
(* what its relayed route dump holds (its own terminator may be missing).  *)
Items(n, seq) == [i \in 1..n |-> Msg("item", seq, None)]
Terminated(r, seq) == Append(r, Msg("done", seq, None))
Status(seq, e) == <<Msg("error", seq, e)>>

build_fake_netlink_reply(r, n) ==
  LET shown == IF n > MaxItems THEN MaxItems ELSE n IN
  CASE r.type = "GETLINK" /\ r.dump -> Terminated(Items(IF n = 0 THEN 1 ELSE shown, r.seq), r.seq)
    [] r.type = "GETLINK" /\ ~r.dump ->
         IF n > 0 \/ r.lo THEN Items(1, r.seq) ELSE Status(r.seq, "ENODEV")
    [] r.type = "GETROUTE" /\ r.dump -> Terminated(Items(shown, r.seq), r.seq)
    [] r.type = "short" -> Status(0, "EINVAL")
    [] OTHER -> IF r.dump THEN Terminated(<<>>, r.seq) ELSE Status(r.seq, "ok")

(* fake_netlink_datagram_len: the terminator has a datagram of its own.    *)
(* Fault: all that is left of the reply is one datagram.                   *)
WholeReply(reply) == Len(reply)
fake_netlink_datagram_len(reply) ==
  LET d == {i \in DOMAIN reply : reply[i].kind = "done"} IN
  IF d = {} \/ Min(d) = 1 THEN Len(reply) ELSE Min(d) - 1

(* note_netns_netlink_request: everything but a GET reconfigures.          *)
nl_type_reconfigures(r) == r.type = "NEWADDR"
is_netns_netlink_fd(t, fd) == netns[t] /\ fd \in route[t]

(* sendto(2), sendmsg(2): the tracee then reads what it waits for.         *)
Waiting(r) == [does |-> "read", fd |-> r.fd, seq |-> r.seq, style |-> r.style, peeked |-> FALSE,
               until |-> IF r.dump THEN "done" ELSE "any"]
SendFake(t, r, n) ==
  /\ r.fd \in Tracked(t)
  /\ SetReply(t, r.fd, build_fake_netlink_reply(r, n))
  /\ guest' = [guest EXCEPT ![t] = Waiting(r)]
  /\ UNCHANGED <<queue, ack>>

(* The kernel answers a real socket; a tracee has no right to reconfigure, *)
(* and the call itself may fail.  Tracees that share a socket take turns.  *)
KernelAnswer(r, pretend, e) ==
  IF r.dump THEN Terminated(Items(1, r.seq), r.seq)
  ELSE <<[Msg(IF nl_type_reconfigures(r) THEN "error" ELSE "item", r.seq, e)
            EXCEPT !.pretend = pretend]>>
SendReal(t, r, e) ==
  /\ r.fd \notin Tracked(t) /\ Is(t, r.fd, "real")
  /\ \A u \in alive : guest[u].does = "read" => files[u][guest[u].fd] # files[t][r.fd]
  /\ ack' = [ack EXCEPT ![t] = IF is_netns_netlink_fd(t, r.fd) /\ nl_type_reconfigures(r)
                               THEN [fd |-> r.fd, seq |-> r.seq] ELSE @]
  /\ \/ /\ queue' = [queue EXCEPT ![files[t][r.fd][1]] =
                       @ \o KernelAnswer(r, netns[t] /\ nl_type_reconfigures(r), e)]
        /\ guest' = [guest EXCEPT ![t] = Waiting(r)]
     \/ UNCHANGED <<queue, guest>>
  /\ UNCHANGED fake

Send(t, r, n, e) ==
  /\ Free(t) /\ sends < MaxSends /\ sends' = sends + 1
  /\ r.seq = 1 + (sends % Cardinality(Seqs))
  /\ SendFake(t, r, n) \/ SendReal(t, r, e)
  /\ UNCHANGED <<host, alive, files, route, netns>>

-----------------------------------------------------------------------------
(* What a read tells the tracee.  A tracee of style "first" stops walking  *)
(* a datagram at the first answer, one of style "peek" looks before it reads *)
(* and then walks the datagram whole.                                      *)
Walked(style, d) == IF style = "first" THEN <<Head(d)>> ELSE d
Ends(g, d) == \E m \in ToSet(Walked(g.style, d)) : g.until = "any" \/ m.kind = "done"
Goes(t, d) == guest' = [guest EXCEPT ![t] = IF Ends(@, d) THEN Idle ELSE [@ EXCEPT !.peeked = FALSE]]
Reading(t, fd, peek) ==
  /\ t \in alive /\ guest[t].does = "read" /\ guest[t].fd = fd
  /\ peek => guest[t].style = "peek" /\ ~guest[t].peeked
  /\ (guest[t].style = "peek" /\ ~guest[t].peeked) => peek

(* recvfrom(2), recvmsg(2) on a substituted socket: the datagram is copied *)
(* and, but for MSG_PEEK, consumed.                                        *)
RecvFake(t, fd, peek) ==
  /\ Reading(t, fd, peek) /\ fd \in Tracked(t) /\ Reply(t, fd) # <<>>
  /\ LET r == Reply(t, fd)
         len == fake_netlink_datagram_len(r)
     IN  IF peek THEN /\ guest' = [guest EXCEPT ![t].peeked = TRUE]
                      /\ UNCHANGED fake
         ELSE /\ SetReply(t, fd, SubSeq(r, len + 1, Len(r)))
              /\ Goes(t, SubSeq(r, 1, len))
  /\ UNCHANGED <<kernel, route, netns, ack, sends>>

(* handle_netlink_reply_exit, at the exit stage of a read on a real one.   *)
(* Fault: any refusal is turned into an ack.                               *)
AckAnyError(t, fd, m) ==
  IF ack[t].fd = fd /\ m.kind = "error" /\ m.seq = ack[t].seq THEN "ok" ELSE m.err
handle_netlink_reply_exit(t, fd, m) ==
  IF ack[t].fd = fd /\ m.kind = "error" /\ m.seq = ack[t].seq /\ m.err \in Refusals
  THEN "ok" ELSE m.err
RecvReal(t, fd, peek) ==
  LET q == queue[files[t][fd][1]]
      m == Head(q)
  IN  /\ Reading(t, fd, peek) /\ fd \notin Tracked(t) /\ Is(t, fd, "real") /\ q # <<>>
      /\ IF peek THEN /\ guest' = [guest EXCEPT ![t].peeked = TRUE]
                      /\ UNCHANGED <<queue, ack>>
         ELSE /\ queue' = [queue EXCEPT ![files[t][fd][1]] = Tail(@)]
              /\ ack' = [ack EXCEPT ![t] = IF @.fd = fd THEN NoAck ELSE @]
              /\ IF m.seq # guest[t].seq THEN guest' = [guest EXCEPT ![t].peeked = FALSE]
                 ELSE Goes(t, <<m>>)
      /\ UNCHANGED <<host, alive, files, fake, route, netns, sends>>

Requests == [fd : Fds, type : {"GETLINK", "GETROUTE", "NEWADDR", "short"},
             dump : BOOLEAN, seq : Seqs, lo : {FALSE}, style : {"first", "peek"}]
Sent == {r \in Requests : /\ r.type \in {"NEWADDR", "short"} => ~r.dump
                          /\ r.type = "GETROUTE" => r.dump /\ r.style = "first"
                          /\ ~r.dump => r.style = "peek"}
Read(t) == \E fd \in Fds, peek \in BOOLEAN : RecvFake(t, fd, peek) \/ RecvReal(t, fd, peek)

Next ==
  \E t \in Tracees :
    \/ Socket(t) \/ Read(t)
    \/ \E c \in Tracees, newnet \in BOOLEAN : new_child(t, c, newnet)
    \/ \E fd \in Fds : Close(t, fd)
    \/ Free(t) /\ \E r \in Sent, n \in {0, MaxItems + 1}, e \in {"EPERM", "EEXIST"} :
         /\ r.type \in {"NEWADDR", "short"} => n = 0
         /\ r.type = "GETLINK" /\ r.dump => n > 0
         /\ ~nl_type_reconfigures(r) => e = "EPERM"
         /\ Send(t, r, n, e)

Spec == Init /\ [][Next]_vars /\ \A t \in Tracees : WF_vars(Read(t))

-----------------------------------------------------------------------------
(* "otherwise its number could be reused for an unrelated file and we'd    *)
(* keep intercepting sendto/recvfrom on it" (PR_close): where PRoot sees   *)
(* each close(2), every descriptor that it answers for is one it           *)
(* substituted and every one it rewrites answers of is a real netlink      *)
(* socket, in a child and after any reuse of numbers as well.  With the    *)
(* filter on it is not so: closed numbers stay.                            *)
TrackedIsSubstitute ==
  ~host.filter =>
    \A t \in alive : \A fd \in Fds :
      /\ fd \in Tracked(t) => Is(t, fd, "fake")
      /\ fd \in route[t] => Is(t, fd, "real")

(* With the filter or without, over stale numbers and full arrays: a       *)
(* refusal becomes a success for exactly the requests that reconfigure a   *)
(* pretended namespace on a recorded socket; every other status reaches    *)
(* the tracee as it is.                                                    *)
AckIsHonest ==
  \A t \in alive, fd \in Fds, peek \in BOOLEAN :
    RecvReal(t, fd, peek) =>
      LET m == Head(queue[files[t][fd][1]]) IN
      m.kind = "error" /\ m.seq = guest[t].seq =>
        handle_netlink_reply_exit(t, fd, m) =
          IF m.pretend /\ m.err \in Refusals /\ fd \in route[t] THEN "ok" ELSE m.err

(* What no step does: answer for a socket of the tracee's own, or turn an  *)
(* answer of the kernel into another one that the code does not mean to.   *)
HonestStep == TrackedIsSubstitute' /\ AckIsHonest
NetlinkIsHonest == [][HonestStep]_vars

(* Whoever sent a request on a substituted or a real socket and reads      *)
(* until the answer it waits for - the end of the dump, whether it walks   *)
(* datagrams to their end or not, peeks first or not - gets it: no read    *)
(* waits for a datagram that never comes.                                  *)
Waits(t) == guest[t].does = "read"
AnswersArrive == \A t \in Tracees : Waits(t) ~> ~Waits(t)
=============================================================================
