------------------------------ MODULE Topology ------------------------------
(***************************************************************************)
(* The emulated network that make_network builds: addresses set with       *)
(* setIP, links from addLink, static routes and policy rules added with    *)
(* "ip route"/"ip rule", and ip_forward on the routers.  The configuration *)
(* is constant after make_network; what moves is one probe packet (a ping  *)
(* of net.pingAll, or traffic of an experiment) forwarded hop by hop as    *)
(* the Linux kernel of each emulated host would: rule tables first for a   *)
(* matching source, then the main table; a /24 route before the default;  *)
(* the next hop reached over the link of the route's device.               *)
(***************************************************************************)
EXTENDS Integers, FiniteSets

CONSTANTS
  Nodes,        \* emulated hosts and routers
  Forwarders,   \* nodes with net.ipv4.ip_forward=1
  Addrs,        \* [node, iface, addr] from setIP; addr = <<net, host>>
  Links,        \* {iface, iface} pairs from addLink
  Routes,       \* [node, table, dst (a net or "default"), via (addr or None), dev]
  Rules,        \* [node, from (addr), table] from "ip rule add from A table T"
  Probes,       \* [kind, node, src (addr or None), dst (addr)]
  ShapedSegs,   \* the interface pairs limit_network shapes, one per segment
  MaxHops,      \* TTL bound: a packet still in flight after it is dropped
  None

VARIABLES
  probe,    \* the probe of this behaviour
  pkt,      \* [src, dst, at, from]: the packet and the node that sent it
  phase,    \* "request", then "reply" once the destination answered
  hops,
  path,     \* egress interfaces crossed, per phase
  status    \* "flight", "done" (reply back at the origin) or "dropped"

vars == <<probe, pkt, phase, hops, path, status>>

Net(a) == a[1]

NodeAddrs(n) == {x \in Addrs : x.node = n}

LocalAddrs(n) == {x.addr : x \in NodeAddrs(n)}

(* setIP(a, 24, dev) also puts the connected /24 route in the main table.  *)
Connected(n) ==
  {[node |-> n, table |-> "main", dst |-> Net(x.addr), via |-> None, dev |-> x.iface] :
     x \in NodeAddrs(n)}

(* A table's candidate routes for dst: the /24 route if any, else default. *)
Match(n, t, dst) ==
  LET rs  == {r \in Routes \cup Connected(n) : r.node = n /\ r.table = t}
      sub == {r \in rs : r.dst = Net(dst)}
  IN IF sub # {} THEN sub ELSE {r \in rs : r.dst = "default"}

(* Policy routing: a rule matching the source selects its table; when it   *)
(* has no route the lookup falls through to the main table.                *)
Route(n, src, dst) ==
  LET ruled == UNION {Match(n, x.table, dst) : x \in {y \in Rules : y.node = n /\ y.from = src}}
  IN IF ruled # {} THEN ruled ELSE Match(n, "main", dst)

NextHop(r, dst) == IF r.via = None THEN dst ELSE r.via

(* The node answering ARP for address a on the link of interface dev.      *)
Neighbor(dev, a) == {x.node : x \in {y \in Addrs : y.addr = a /\ {dev, y.iface} \in Links}}

(* ping without -I: the source is the address of the device the main-     *)
(* table route leaves by.                                                  *)
SourceFor(n, dst) ==
  LET devs == {r.dev : r \in Route(n, None, dst)}
      srcs == {x.addr : x \in {y \in NodeAddrs(n) : y.iface \in devs}}
  IN IF srcs = {} THEN None ELSE CHOOSE a \in srcs : TRUE

Init ==
  /\ probe \in Probes
  /\ pkt = [src |-> IF probe.src = None THEN SourceFor(probe.node, probe.dst) ELSE probe.src,
            dst |-> probe.dst, at |-> probe.node, from |-> probe.node]
  /\ phase = "request"
  /\ hops = 0
  /\ path = [p \in {"request", "reply"} |-> {}]
  /\ status = "flight"

MayForward == pkt.at \in Forwarders \/ pkt.at = pkt.from

(* One hop: route lookup at the current node, then over the link.         *)
Forward ==
  /\ status = "flight"
  /\ pkt.dst \notin LocalAddrs(pkt.at)
  /\ MayForward
  /\ hops < MaxHops
  /\ \E r \in Route(pkt.at, pkt.src, pkt.dst) :
       \E nb \in Neighbor(r.dev, NextHop(r, pkt.dst)) :
         /\ pkt' = [pkt EXCEPT !.at = nb]
         /\ path' = [path EXCEPT ![phase] = @ \cup {r.dev}]
  /\ hops' = hops + 1
  /\ UNCHANGED <<probe, phase, status>>

(* The destination answers the echo request from the pinged address; the  *)
(* echo reply back at the origin ends the probe.                          *)
Deliver ==
  /\ status = "flight"
  /\ pkt.dst \in LocalAddrs(pkt.at)
  /\ IF phase = "request"
       THEN /\ phase' = "reply"
            /\ pkt' = [src |-> pkt.dst, dst |-> pkt.src, at |-> pkt.at, from |-> pkt.at]
            /\ status' = status
       ELSE /\ status' = "done"
            /\ UNCHANGED <<pkt, phase>>
  /\ UNCHANGED <<probe, hops, path>>

(* No route, no neighbour, a host that does not forward, or TTL spent.    *)
Drop ==
  /\ status = "flight"
  /\ pkt.dst \notin LocalAddrs(pkt.at)
  /\ \/ ~MayForward
     \/ hops >= MaxHops
     \/ \A r \in Route(pkt.at, pkt.src, pkt.dst) : Neighbor(r.dev, NextHop(r, pkt.dst)) = {}
  /\ status' = "dropped"
  /\ UNCHANGED <<probe, pkt, phase, hops, path>>

Next == Forward \/ Deliver \/ Drop

(* The kernels forward, answer and drop without being asked: weak         *)
(* fairness on every step.  pingAll runs before any shaping, so no loss.  *)
Spec == Init /\ [][Next]_vars /\ WF_vars(Next)

-----------------------------------------------------------------------------
Ifaces == {x.iface : x \in Addrs}

AddrVals == {x.addr : x \in Addrs} \cup {p.dst : p \in Probes}

TypeOK ==
  /\ probe \in Probes
  /\ pkt \in [src : AddrVals \cup {None}, dst : AddrVals, at : Nodes, from : Nodes]
  /\ phase \in {"request", "reply"}
  /\ hops \in 0..MaxHops
  /\ path \in [{"request", "reply"} -> SUBSET Ifaces]
  /\ status \in {"flight", "done", "dropped"}

(* Every ping of net.pingAll, and the experiments' traffic from h1 to h2,  *)
(* is answered: the routes and rules make_network installs give every     *)
(* pair of hosts a path both ways, whichever source h1 picks.             *)
ReachesPeer ==
  probe.kind \in {"pingall", "wan"} => <>(status = "done")

ShapedIfaces == UNION ShapedSegs

(* A completed h1-h2 round trip leaves through exactly one end of one      *)
(* shaped segment and comes back through the other end of the same one:  *)
(* the request and the reply take the same path, so the sample's delay    *)
(* and loss, applied by limit_network at both ends, hit it once each way. *)
RoundTripCrossesSegment ==
  (probe.kind = "wan" /\ status = "done") =>
    \E seg \in ShapedSegs : \E a \in seg :
      /\ path["request"] \cap ShapedIfaces = {a}
      /\ path["reply"] \cap ShapedIfaces = seg \ {a}
=============================================================================
