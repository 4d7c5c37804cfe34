----------------------------- MODULE MCTopology -----------------------------
(***************************************************************************)
(* The two networks make_network builds, as constants of Topology.        *)
(* Addresses are <<net, host>> with net the /24 prefix; interfaces are     *)
(* named as Mininet names them in addLink order.  A route added without   *)
(* "dev" gets the device of the connected route to its gateway.           *)
(* Both networks are checked in one run: each is an instance of Topology  *)
(* with its own probe, and the two behaviours interleave freely.          *)
(***************************************************************************)
EXTENDS Integers

CONSTANTS None, MaxHops

VARIABLES cprobe, cpkt, cphase, chops, cpath, cstatus,
          dprobe, dpkt, dphase, dhops, dpath, dstatus

A(net, host) == <<net, host>>
IP(n, i, a) == [node |-> n, iface |-> i, addr |-> a]
Rt(n, t, d, v, dev) == [node |-> n, table |-> t, dst |-> d, via |-> v, dev |-> dev]

(* net.pingAll: every host pings the address of every other host's first  *)
(* interface, as set by setIP.                                             *)
PingAll(default) ==
  UNION {{[kind |-> "pingall", node |-> n, src |-> None, dst |-> default[m]] :
            m \in DOMAIN default \ {n}} : n \in DOMAIN default}

-----------------------------------------------------------------------------
(* experiments/helpers.py make_network: the chain h1 - r1 - r2 - h2.      *)
ChainNodes == {"h1", "h2", "r1", "r2"}

ChainAddrs ==
  { IP("h1", "h1-eth0", A("6.6.6", 6)),  IP("r1", "r1-eth0", A("6.6.6", 1)),
    IP("r1", "r1-eth1", A("10.0.0", 2)), IP("r2", "r2-eth0", A("10.0.0", 3)),
    IP("r2", "r2-eth1", A("7.7.7", 1)),  IP("h2", "h2-eth0", A("7.7.7", 7)) }

ChainLinks == { {"h1-eth0", "r1-eth0"}, {"r1-eth1", "r2-eth0"}, {"r2-eth1", "h2-eth0"} }

(* Variant for mutation checks: r2's default route left out.             *)
ChainRoutesNoR2Default ==
  { Rt("r1", "main", "default", A("10.0.0", 3), "r1-eth1"),
    Rt("h1", "main", "default", A("6.6.6", 1), "h1-eth0"),
    Rt("h2", "main", "default", A("7.7.7", 1), "h2-eth0") }

ChainRoutes ==
  { Rt("r1", "main", "default", A("10.0.0", 3), "r1-eth1"),
    Rt("r2", "main", "default", A("10.0.0", 2), "r2-eth0"),
    Rt("h1", "main", "default", A("6.6.6", 1), "h1-eth0"),
    Rt("h2", "main", "default", A("7.7.7", 1), "h2-eth0") }

ChainForwarders == {"r1", "r2"}

ChainDefault == [h1 |-> A("6.6.6", 6), h2 |-> A("7.7.7", 7),
                 r1 |-> A("6.6.6", 1), r2 |-> A("10.0.0", 3)]

(* The experiments' traffic from h1 to h2, and make_tunnels' ping of the  *)
(* VPN peer 192.168.0.2 while no tunnel device exists yet.                 *)
ChainProbes ==
  PingAll(ChainDefault) \cup
  { [kind |-> "wan", node |-> "h1", src |-> None, dst |-> A("7.7.7", 7)],
    [kind |-> "tunnel", node |-> "h1", src |-> None, dst |-> A("192.168.0", 2)] }

(* The interfaces limit_network shapes (helpers.py limit_network).        *)
(* Variant for mutation checks: r2's h2-side interface shaped instead.    *)
ChainShapedSegsWrongEnd == { {"r1-eth1", "r2-eth1"} }

ChainShapedSegs == { {"r1-eth1", "r2-eth0"} }

-----------------------------------------------------------------------------
(* experiments_multipath/helpers.py make_network: the diamond h1 - r1 - r3 *)
(* - h2 (north) and h1 - r2 - r3 - h2 (south), with h1 choosing the path   *)
(* by source address through two policy-routing tables.                   *)
DiamondNodes == {"h1", "h2", "r1", "r2", "r3"}

DiamondAddrs ==
  { IP("h1", "h1-eth0", A("3.3.3", 3)), IP("h1", "h1-eth1", A("4.4.4", 4)),
    IP("r1", "r1-eth0", A("3.3.3", 1)), IP("r1", "r1-eth1", A("5.5.5", 1)),
    IP("r2", "r2-eth0", A("4.4.4", 1)), IP("r2", "r2-eth1", A("6.6.6", 1)),
    IP("r3", "r3-eth0", A("5.5.5", 2)), IP("r3", "r3-eth1", A("6.6.6", 2)),
    IP("r3", "r3-eth2", A("7.7.7", 1)), IP("h2", "h2-eth0", A("7.7.7", 7)) }

DiamondLinks == { {"h1-eth0", "r1-eth0"}, {"h1-eth1", "r2-eth0"}, {"r1-eth1", "r3-eth0"},
                  {"r2-eth1", "r3-eth1"}, {"r3-eth2", "h2-eth0"} }

DiamondRules == { [node |-> "h1", from |-> A("3.3.3", 3), table |-> "1"],
                  [node |-> "h1", from |-> A("4.4.4", 4), table |-> "2"] }

(* Variant for mutation checks: table 2's default copied from table 1.    *)
DiamondHostRoutesOneGateway ==
  { Rt("h1", "1", "3.3.3", None, "h1-eth0"),
    Rt("h1", "1", "default", A("3.3.3", 1), "h1-eth0"),
    Rt("h1", "2", "4.4.4", None, "h1-eth1"),
    Rt("h1", "2", "default", A("3.3.3", 1), "h1-eth0"),
    Rt("h1", "main", "default", A("3.3.3", 1), "h1-eth0"),
    Rt("h2", "main", "default", A("7.7.7", 1), "h2-eth0") }

DiamondHostRoutes ==
  { Rt("h1", "1", "3.3.3", None, "h1-eth0"),
    Rt("h1", "1", "default", A("3.3.3", 1), "h1-eth0"),
    Rt("h1", "2", "4.4.4", None, "h1-eth1"),
    Rt("h1", "2", "default", A("4.4.4", 1), "h1-eth1"),
    Rt("h1", "main", "default", A("3.3.3", 1), "h1-eth0"),
    Rt("h2", "main", "default", A("7.7.7", 1), "h2-eth0") }

(* Variant for mutation checks: r3's return route to 4.4.4.0/24 left out. *)
DiamondRouterRoutesNoReturn ==
  { Rt("r3", "main", "3.3.3", A("5.5.5", 1), "r3-eth0"),
    Rt("r1", "main", "7.7.7", A("5.5.5", 2), "r1-eth1"),
    Rt("r1", "main", "4.4.4", A("5.5.5", 2), "r1-eth1"),
    Rt("r1", "main", "6.6.6", A("5.5.5", 2), "r1-eth1"),
    Rt("r2", "main", "7.7.7", A("6.6.6", 2), "r2-eth1"),
    Rt("r2", "main", "3.3.3", A("6.6.6", 2), "r2-eth1"),
    Rt("r2", "main", "5.5.5", A("6.6.6", 2), "r2-eth1") }

DiamondRouterRoutes ==
  { Rt("r3", "main", "3.3.3", A("5.5.5", 1), "r3-eth0"),
    Rt("r3", "main", "4.4.4", A("6.6.6", 1), "r3-eth1"),
    Rt("r1", "main", "7.7.7", A("5.5.5", 2), "r1-eth1"),
    Rt("r1", "main", "4.4.4", A("5.5.5", 2), "r1-eth1"),
    Rt("r1", "main", "6.6.6", A("5.5.5", 2), "r1-eth1"),
    Rt("r2", "main", "7.7.7", A("6.6.6", 2), "r2-eth1"),
    Rt("r2", "main", "3.3.3", A("6.6.6", 2), "r2-eth1"),
    Rt("r2", "main", "5.5.5", A("6.6.6", 2), "r2-eth1") }

DiamondRoutes == DiamondHostRoutes \cup DiamondRouterRoutes

DiamondForwarders == {"r1", "r2", "r3"}

DiamondDefault == [h1 |-> A("3.3.3", 3), h2 |-> A("7.7.7", 7), r1 |-> A("3.3.3", 1),
                   r2 |-> A("4.4.4", 1), r3 |-> A("5.5.5", 2)]

(* The experiments' traffic from h1 to h2: unbound (the single-path       *)
(* forwarder), and bound to each of h1's addresses (the multipath QUIC    *)
(* client uses both).                                                     *)
DiamondProbes ==
  PingAll(DiamondDefault) \cup
  { [kind |-> "wan", node |-> "h1", src |-> s, dst |-> A("7.7.7", 7)] :
      s \in {None, A("3.3.3", 3), A("4.4.4", 4)} }

(* limit_network's north and south interface pairs (multipath helpers).  *)
DiamondShapedSegs == { {"r1-eth1", "r3-eth0"}, {"r2-eth1", "r3-eth1"} }

-----------------------------------------------------------------------------
Chain == INSTANCE Topology WITH
  Nodes <- ChainNodes, Forwarders <- ChainForwarders, Addrs <- ChainAddrs,
  Links <- ChainLinks, Routes <- ChainRoutes, Rules <- {}, Probes <- ChainProbes,
  ShapedSegs <- ChainShapedSegs,
  probe <- cprobe, pkt <- cpkt, phase <- cphase, hops <- chops, path <- cpath, status <- cstatus

Diamond == INSTANCE Topology WITH
  Nodes <- DiamondNodes, Forwarders <- DiamondForwarders, Addrs <- DiamondAddrs,
  Links <- DiamondLinks, Routes <- DiamondRoutes, Rules <- DiamondRules,
  Probes <- DiamondProbes, ShapedSegs <- DiamondShapedSegs,
  probe <- dprobe, pkt <- dpkt, phase <- dphase, hops <- dhops, path <- dpath, status <- dstatus

cvars == <<cprobe, cpkt, cphase, chops, cpath, cstatus>>
dvars == <<dprobe, dpkt, dphase, dhops, dpath, dstatus>>
vars == <<cvars, dvars>>

Init == Chain!Init /\ Diamond!Init

ChainStep == Chain!Next /\ UNCHANGED dvars
DiamondStep == Diamond!Next /\ UNCHANGED cvars

Next == ChainStep \/ DiamondStep

(* Each network's kernels are fair on their own, as in Topology!Spec.     *)
Spec == Init /\ [][Next]_vars /\ WF_vars(ChainStep) /\ WF_vars(DiamondStep)

(* Chain: each h1-h2 round trip crosses r1-eth1 one way and r2-eth0 the    *)
(* other, so limit_network's shaping of that segment hits it both ways.  *)
ChainRoundTrip == Chain!RoundTripCrossesSegment

(* Chain: every pingAll ping and the h1-h2 traffic is answered.            *)
ChainReaches == Chain!ReachesPeer

(* Diamond: traffic from 3.3.3.3 goes north and from 4.4.4.4 south, and   *)
(* the reply comes back through the other end of the same shaped segment. *)
DiamondRoundTrip == Diamond!RoundTripCrossesSegment

(* Diamond: every pingAll pair and the h1-h2 traffic from either of h1's   *)
(* addresses is answered.                                                  *)
DiamondReaches == Diamond!ReachesPeer
=============================================================================
