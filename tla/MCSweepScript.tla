---------------------------- MODULE MCSweepScript ---------------------------
(***************************************************************************)
(* The sweep scripts as SweepScript programs, with two grid rows each,    *)
(* mapped as the scripts map centered LHS coordinates.                    *)
(***************************************************************************)
EXTENDS SweepScript, TLC

Req(bw, delay, loss) ==
  [bw |-> <<bw, "kbit">>, delay |-> delay, jitter |-> 0, loss |-> loss, queuesize |-> None]

ShapeStep(seg, part) == [op |-> "shape", seg |-> seg, part |-> part]
(* test(net, endpoint, fsize)[3]: ab through the endpoint to the httpd.  *)
MeasureStep(e) == [op |-> "measure", endpoint |-> e, needs |-> {"httpd"}, fail |-> "crash"]

HttpdStep == [op |-> "servers", kill |-> {}, start |-> {"httpd"}]

-----------------------------------------------------------------------------
(* limit_network of experiments/helpers.py shapes r1-eth1 and r2-eth0.   *)
ChainSegIfaces == [s \in {"wan"} |-> {"r1-eth1", "r2-eth0"}]

-----------------------------------------------------------------------------
(* experiments_multipath/pforw_single_download.py: bw 1000-100000 kbit,   *)
(* delay 1-25 ms, loss 0 (LOSS_MAX = 0); a second parameter set per row   *)
(* from grid_2nd_path.                                                     *)
MultiGrid ==
  <<[first |-> Req(25750, 7, 0), second |-> Req(75250, 19, 0)],
    [first |-> Req(75250, 19, 0), second |-> Req(25750, 7, 0)]>>

MultiPrologue == << HttpdStep >>

(* Variant for mutation checks: the north path not reshaped back before   *)
(* the multipath download.                                                *)
MultiRowStepsNoReshape ==
  << ShapeStep("north", "first"), ShapeStep("south", "first"),
     [op |-> "servers", kill |-> {"single", "multi"}, start |-> {"single"}],
     [op |-> "clients", start |-> {"single"}],
     MeasureStep("127.0.0.1:1111"),
     ShapeStep("north", "second"), ShapeStep("south", "second"),
     MeasureStep("127.0.0.1:1111"),
     [op |-> "servers", kill |-> {"single", "multi"}, start |-> {"multi"}],
     [op |-> "clients", start |-> {"multi"}],
     MeasureStep("127.0.0.1:9999") >>

(* Lines 84-100: shape both paths, setupSingle, download through 1111;    *)
(* reshape both, download through 1111; reshape north only, setupMulti,   *)
(* download through 9999.                                                  *)
MultiRowSteps ==
  << ShapeStep("north", "first"), ShapeStep("south", "first"),
     [op |-> "servers", kill |-> {"single", "multi"}, start |-> {"single"}],
     [op |-> "clients", start |-> {"single"}],
     MeasureStep("127.0.0.1:1111"),
     ShapeStep("north", "second"), ShapeStep("south", "second"),
     MeasureStep("127.0.0.1:1111"),
     ShapeStep("north", "first"),
     [op |-> "servers", kill |-> {"single", "multi"}, start |-> {"multi"}],
     [op |-> "clients", start |-> {"multi"}],
     MeasureStep("127.0.0.1:9999") >>

MultiVia == ("127.0.0.1:1111" :> "single") @@ ("127.0.0.1:9999" :> "multi")

(* The single-path forwarder's traffic takes h1's main-table default, the *)
(* north path (Topology); the multipath one uses both.  The fields mean:  *)
(* single path under the first set, under the second set, then multipath *)
(* with north under the first and south under the second.                 *)
MultiLabels == << [north |-> "first", south |-> "first"],
                  [north |-> "second", south |-> "second"],
                  [north |-> "first", south |-> "second"] >>
MultiUses == [single |-> {"north"}, multi |-> {"north", "south"}, direct |-> {}]
MultiSegIfaces == [north |-> {"r1-eth1", "r3-eth0"}, south |-> {"r2-eth1", "r3-eth1"}]
-----------------------------------------------------------------------------
(* experiments/helpers.py make_tunnels: killall openvpn and quicvpn on h1 *)
(* and h2; start the four tunnels' clients on h1 and servers on h2 with   *)
(* '&' (client first in each pair, no wait between); sleep 5; ping each   *)
(* peer and print the result.                                             *)
VpnTunnels == {"ovpn_tcp", "ovpn_udp", "quicvpn", "squicvpn"}

MakeTunnels == << [op |-> "tunnels", kill |-> VpnTunnels, start |-> VpnTunnels] >>

(* The tunnel of each 192.168.x.2 peer, from make_tunnels' configurations. *)
VpnVia == ("7.7.7.7" :> "direct") @@ ("192.168.0.2" :> "ovpn_tcp") @@
          ("192.168.3.2" :> "ovpn_udp") @@ ("192.168.1.2" :> "quicvpn") @@
          ("192.168.2.2" :> "squicvpn")

VpnUses == [v \in VpnTunnels \cup {"direct"} |-> {"wan"}]

(* experiments/vpn_ecn_largefiles.py: one parameter set per row; for each  *)
(* endpoint ECN is set, then ";".join(test(..)) prints the ab figures, an *)
(* empty group when ab fails.                                            *)
VpnEcnGrid ==
  <<[first |-> Req(50500, 55, 100), second |-> Req(50500, 55, 100)],
    [first |-> Req(75250, 32, 50), second |-> Req(75250, 32, 50)]>>

VpnEcnPrologue == << HttpdStep >> \o MakeTunnels

VpnEcnEndpoints == << "7.7.7.7", "192.168.0.2", "192.168.3.2", "192.168.2.2", "192.168.2.2_ecn" >>

EcnOf(e) == IF e = "192.168.2.2_ecn" \/ e = "192.168.1.2_ecn" THEN TRUE ELSE FALSE
Peer(e) == IF e = "192.168.2.2_ecn" THEN "192.168.2.2"
           ELSE IF e = "192.168.1.2_ecn" THEN "192.168.1.2" ELSE e

EcnTest(e) ==
  << [op |-> "ecn", on |-> EcnOf(e)],
     [op |-> "measure", endpoint |-> Peer(e), needs |-> {"httpd"}, fail |-> "empty"] >>


(* Variant for mutation checks: limit_network after the first test.      *)
VpnEcnRowStepsLateShape ==
  EcnTest(VpnEcnEndpoints[1]) \o << ShapeStep("wan", "first") >> \o
  EcnTest(VpnEcnEndpoints[2]) \o EcnTest(VpnEcnEndpoints[3]) \o
  EcnTest(VpnEcnEndpoints[4]) \o EcnTest(VpnEcnEndpoints[5])

VpnEcnRowSteps ==
  << ShapeStep("wan", "first") >> \o
  EcnTest(VpnEcnEndpoints[1]) \o EcnTest(VpnEcnEndpoints[2]) \o EcnTest(VpnEcnEndpoints[3]) \o
  EcnTest(VpnEcnEndpoints[4]) \o EcnTest(VpnEcnEndpoints[5])

VpnEcnLabels == [k \in 1..5 |-> [wan |-> "first"]]
-----------------------------------------------------------------------------
(* experiments/vpn_ditg.py: BW, delay and loss ranges are overridden to a  *)
(* single point (10000 kbit, 50 ms, 0.1 %), so every row shapes the same. *)
DitgGrid ==
  <<[first |-> Req(10000, 50, 10), second |-> Req(10000, 50, 10)],
    [first |-> Req(10000, 50, 10), second |-> Req(10000, 50, 10)]>>

DitgEndpoints == << "7.7.7.7", "192.168.0.2", "192.168.3.2", "192.168.1.2_ecn", "192.168.2.2_ecn" >>

(* Lines 101-109 and test(): ECN; iperf3 -s & on h2 (the iperf3 client on *)
(* h1 runs in the foreground for 50 s, its result unused); sleep 10;      *)
(* ITGRecv & on h2; ITGSend in the foreground; sleep 15; ITGDec, parsed;  *)
(* killall ITGRecv and iperf3.  A flow missing from the ITGDec output     *)
(* raises KeyError at res[str(i)] (line 72).                              *)
DitgTest(e) ==
  << [op |-> "ecn", on |-> EcnOf(e)],
     [op |-> "servers", kill |-> {}, start |-> {"iperf"}],
     [op |-> "servers", kill |-> {}, start |-> {"itgrecv"}],
     [op |-> "measure", endpoint |-> Peer(e), needs |-> {"itgrecv"}, fail |-> "crash"],
     [op |-> "servers", kill |-> {"itgrecv", "iperf"}, start |-> {}] >>

DitgRowSteps ==
  << ShapeStep("wan", "first") >> \o
  DitgTest(DitgEndpoints[1]) \o DitgTest(DitgEndpoints[2]) \o DitgTest(DitgEndpoints[3]) \o
  DitgTest(DitgEndpoints[4]) \o DitgTest(DitgEndpoints[5])

DitgLabels == [k \in 1..5 |-> [wan |-> "first"]]
=============================================================================
