-------------------------------- MODULE Ports --------------------------------
(***************************************************************************)
(* extension/portmap (-p and --netcoop) and extension/port_switch: the     *)
(* ports the guest binds are others on the host, and what it connects to   *)
(* has to follow.  With --netcoop the kernel chooses the port; PRoot asks  *)
(* it which by a getsockname chained to the listen that follows.  There is *)
(* one map and one pending port, old_port, for all the tracees.            *)
(*                                                                         *)
(* mode is the option that is used.  Quirks: "fd" the pending file number  *)
(* is compared without the tracee or the socket it belongs to; "again" a   *)
(* port is bound while a socket the map knows nothing of has it; "full"    *)
(* the map is full; "zero" the guest asks for any port; "orphan" the first *)
(* tracee ends, with its extension; "result" listen fails; "refused" the   *)
(* kernel refuses a bind whose port is pending; "udp6" sendto an IPv6      *)
(* address.                                                                *)
(***************************************************************************)
EXTENDS Naturals, FiniteSets

CONSTANTS Tracees, Fds,
          Asked,          \* the ports the guest uses
          Ephemeral,      \* the ports the kernel chooses from
          PORTMAP_SIZE, PORT_THRESHOLD, PORT_ADDITION,
          Given,          \* the entries of -p, <<port_in, port_out>>
          MaxCalls, Quirks

VARIABLES mode,
          map,            \* the entries, by index
          pending,        \* need_to_check_new_port, old_port, sockfd; owner: whose it is
          extension,      \* global_portmap_extension: "set", "freed", "used" after that
          socks,          \* the sockets that are bound
          call,           \* the call each tracee is in
          calls
vars == <<mode, map, pending, extension, socks, call, calls>>

PORTMAP_DEFAULT_VALUE == 0
Empty == [port_in |-> PORTMAP_DEFAULT_VALUE, port_out |-> PORTMAP_DEFAULT_VALUE]
Settled == [need |-> FALSE, old_port |-> 0, sockfd |-> 0, owner |-> <<>>]
Idle == [name |-> "none", fd |-> 0, asked |-> 0, port |-> 0, stage |-> "none", chain |-> FALSE]

-----------------------------------------------------------------------------
(* map.c.  Where key is, or where it is put: the first entry from its own  *)
(* on, and around, that is empty or its own; PORTMAP_SIZE if there is none.*)
Probe(key, i) == (key + i) % PORTMAP_SIZE
Stops(m, key, i) == m[Probe(key, i)].port_in \in {PORTMAP_DEFAULT_VALUE, key}
IndexNoWrap(m, key) ==                                          \* Fault
  IF \E i \in 0 .. PORTMAP_SIZE - 1 : (key % PORTMAP_SIZE) + i < PORTMAP_SIZE /\ Stops(m, key, i)
  THEN Probe(key, CHOOSE i \in 0 .. PORTMAP_SIZE - 1 : Stops(m, key, i) /\ \A j \in 0 .. i - 1 : ~Stops(m, key, j))
  ELSE PORTMAP_SIZE
get_index(m, key) ==
  IF \E i \in 0 .. PORTMAP_SIZE - 1 : Stops(m, key, i)
  THEN Probe(key, CHOOSE i \in 0 .. PORTMAP_SIZE - 1 : Stops(m, key, i) /\ \A j \in 0 .. i - 1 : ~Stops(m, key, j))
  ELSE PORTMAP_SIZE

add_entry(m, in, out) ==
  IF get_index(m, in) = PORTMAP_SIZE THEN m ELSE [m EXCEPT ![get_index(m, in)] = [port_in |-> in, port_out |-> out]]

get_port(m, in) ==
  IF get_index(m, in) # PORTMAP_SIZE /\ m[get_index(m, in)].port_in = in
  THEN m[get_index(m, in)].port_out ELSE PORTMAP_DEFAULT_VALUE

(* mod_port of port_switch.c, and what of it reaches the call: sendto has  *)
(* its address in another place, where that of IPv6 is never written.      *)
mod_port(port) == IF port > 0 /\ port < PORT_THRESHOLD THEN port + PORT_ADDITION ELSE port
Written(kind, family) == ~(kind = "sendto" /\ family = "inet6")

(* Where the port of a connect or a sendto to this host leads.             *)
Destination(kind, family, port) ==
  IF mode = "switch" THEN IF Written(kind, family) THEN mod_port(port) ELSE port
  ELSE IF kind = "sendto" \/ get_port(map, port) = PORTMAP_DEFAULT_VALUE THEN port
  ELSE get_port(map, port)

-----------------------------------------------------------------------------
(* INITIALIZATION and the options.                                         *)
Init ==
  /\ mode \in {"map", "netcoop", "switch"}
  /\ \E g \in IF mode = "switch" THEN {{}} ELSE SUBSET Given :
       map = [i \in 0 .. PORTMAP_SIZE - 1 |->
                IF \E e \in g : e[1] % PORTMAP_SIZE = i
                THEN LET e == CHOOSE e \in g : e[1] % PORTMAP_SIZE = i IN [port_in |-> e[1], port_out |-> e[2]]
                ELSE Empty]
  /\ pending = Settled /\ extension = "set"
  /\ socks = <<>> /\ call = [t \in Tracees |-> Idle] /\ calls = 0

Full == \A i \in DOMAIN map : map[i].port_in # PORTMAP_DEFAULT_VALUE
Unknown(p) == get_port(map, p) = PORTMAP_DEFAULT_VALUE

(* translate_port for a bind: change_inet_socket_port, and the same for    *)
(* inet6.  An unknown port is left to the kernel, unless another is        *)
(* pending.                                                                *)
Cooperates(p) == mode = "netcoop" /\ Unknown(p) /\ ~pending.need
HostPort(p) ==
  IF mode = "switch" THEN mod_port(p)
  ELSE IF ~Unknown(p) THEN get_port(map, p)
  ELSE IF Cooperates(p) THEN 0 ELSE p

Bind(t, fd, p) ==
  /\ call[t] = Idle /\ <<t, fd>> \notin DOMAIN socks /\ calls < MaxCalls
  /\ "again" \notin Quirks => ~(Unknown(p) /\ \E s \in DOMAIN socks : socks[s].asked = p)
  /\ "again" \notin Quirks => ~\E u \in Tracees \ {t} : call[u].asked = p
  /\ "full" \notin Quirks => ~(Cooperates(p) /\ Full)
  /\ calls' = calls + 1
  /\ call' = [call EXCEPT ![t] = [Idle EXCEPT !.name = "bind", !.fd = fd, !.asked = p, !.port = HostPort(p), !.stage = "kernel"]]
  /\ pending' = IF Cooperates(p) THEN [need |-> TRUE, old_port |-> p, sockfd |-> fd, owner |-> <<t, fd>>] ELSE pending
  /\ UNCHANGED <<mode, map, extension, socks>>

(* External: the kernel binds it, to a port that is free, or refuses.      *)
Used == {socks[s].bound : s \in DOMAIN socks}
BindKernel(t) ==
  /\ call[t].name = "bind"
  /\ LET s     == <<t, call[t].fd>>
         ports == (IF call[t].port = 0 THEN Ephemeral ELSE {call[t].port}) \ Used
     IN  \/ ("refused" \notin Quirks => pending.owner # s) /\ UNCHANGED socks
         \/ \E h \in ports :
              socks' = [u \in DOMAIN socks \cup {s} |->
                          IF u = s THEN [asked |-> call[t].asked, bound |-> h, listens |-> FALSE, told |-> FALSE] ELSE socks[u]]
  /\ call' = [call EXCEPT ![t] = Idle]
  /\ UNCHANGED <<mode, map, pending, extension, calls>>

(* PR_listen and prepare_getsockname_chained_syscall                       *)
Listen(t, fd) ==
  /\ call[t] = Idle /\ <<t, fd>> \in DOMAIN socks /\ ~socks[<<t, fd>>].listens
  /\ LET chain == mode = "netcoop" /\ pending.need /\ fd = pending.sockfd
     IN  /\ chain /\ "fd" \notin Quirks => pending.owner = <<t, fd>>
         /\ call' = [call EXCEPT ![t] = [Idle EXCEPT !.name = "listen", !.fd = fd, !.stage = "kernel", !.chain = chain]]
  /\ UNCHANGED <<mode, map, pending, extension, socks, calls>>

(* External: the kernel listens.                                           *)
ListenKernel(t) ==
  /\ call[t].name = "listen" /\ call[t].stage = "kernel"
  /\ \E ok \in {TRUE} \cup (IF "result" \in Quirks THEN {FALSE} ELSE {}) :
       socks' = [socks EXCEPT ![<<t, call[t].fd>>] = [@ EXCEPT !.listens = ok, !.told = ok \/ call[t].chain]]
  /\ call' = [call EXCEPT ![t] = IF @.chain THEN [@ EXCEPT !.stage = "chained"] ELSE Idle]
  /\ UNCHANGED <<mode, map, pending, extension, calls>>

(* handle_syschained_exit and add_changed_port_as_entry.  The entry is     *)
(* added through the extension of the first tracee.                        *)
ChainedExit(t) ==
  /\ call[t].stage = "chained"
  /\ LET s     == <<t, call[t].fd>>
         known == pending.need /\ call[t].fd = pending.sockfd
     IN  /\ map' = IF known /\ extension = "set" THEN add_entry(map, pending.old_port, socks[s].bound) ELSE map
         /\ extension' = IF known /\ extension = "freed" THEN "used" ELSE extension
         /\ pending' = IF known THEN Settled ELSE pending
  /\ call' = [call EXCEPT ![t] = Idle]
  /\ UNCHANGED <<mode, socks, calls>>

(* External: a socket is closed.  What is pending stays so.                *)
Close(t, fd) ==
  /\ call[t] = Idle /\ <<t, fd>> \in DOMAIN socks
  /\ socks' = [u \in DOMAIN socks \ {<<t, fd>>} |-> socks[u]]
  /\ pending' = IF pending.owner = <<t, fd>> THEN [pending EXCEPT !.owner = <<>>] ELSE pending
  /\ UNCHANGED <<mode, map, extension, call, calls>>

(* remove_extension of the first tracee: the others keep its configuration *)
(* but global_portmap_extension still points to it.                        *)
FirstEnds ==
  /\ extension = "set" /\ (mode # "netcoop" \/ "orphan" \in Quirks)
  /\ extension' = "freed"
  /\ UNCHANGED <<mode, map, pending, socks, call, calls>>

Next ==
  \/ \E t \in Tracees :
       \/ \E fd \in Fds : \/ \E p \in Asked \cup (IF "zero" \in Quirks THEN {0} ELSE {}) : Bind(t, fd, p)
                          \/ Listen(t, fd) \/ Close(t, fd)
       \/ BindKernel(t) \/ ListenKernel(t) \/ ChainedExit(t)
  \/ FirstEnds

Spec == Init /\ [][Next]_vars

-----------------------------------------------------------------------------
InListen(s) == call[s[1]].name = "listen" /\ call[s[1]].fd = s[2]

(* Whatever ports the host has for them, the guest's ports are its own: a  *)
(* socket whose listen has returned success does listen, a connect to the  *)
(* port the guest bound it to reaches it, over IPv4 and IPv6, and no two   *)
(* of its sockets have the same port; the extension is not used once freed.*)
PortsAreTheGuests ==
  /\ \A s \in DOMAIN socks : socks[s].told /\ ~InListen(s) =>
       /\ socks[s].listens
       /\ \A family \in {"inet", "inet6"} : Destination("connect", family, socks[s].asked) = socks[s].bound
  /\ mode = "switch" => \A s \in DOMAIN socks : \A family \in {"inet"} \cup (IF "udp6" \in Quirks THEN {"inet6"} ELSE {}) :
       Destination("sendto", family, socks[s].asked) = socks[s].bound
  /\ \A s, u \in DOMAIN socks : s # u /\ socks[s].asked # 0 => socks[s].asked # socks[u].asked
  /\ extension # "used"
=============================================================================
