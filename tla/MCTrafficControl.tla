-------------------------- MODULE MCTrafficControl --------------------------
(* TrafficControl instantiated for the two topologies of the repository.   *)
EXTENDS TrafficControl

(* experiments/helpers.py: one emulated segment r1 <-> r2.                 *)
ChainSegIfaces == [s \in {"wan"} |-> {"r1-eth1", "r2-eth0"}]

(* experiments_multipath/helpers.py: north r1 <-> r3, south r2 <-> r3.     *)
DiamondSegIfaces ==
  [s \in {"north", "south"} |->
     IF s = "north" THEN {"r1-eth1", "r3-eth0"} ELSE {"r2-eth1", "r3-eth1"}]
(* Bandwidth strings as the callers build them: str(bw) + 'kbit' in the   *)
(* sweeps, '10Mbit' and '50000Kbit' in empty_network.py.                   *)
MCBandwidths == {<<1000, "kbit">>, <<10000, "kbit">>, <<10, "mbit">>, <<100000, "kbit">>}

=============================================================================
