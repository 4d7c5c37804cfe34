---------------------------- MODULE MCQuicBench ----------------------------
EXTENDS QuicBench

(* Two rows of a centered LHS with two samples (coordinates 1/4 and 3/4), *)
(* mapped as quic_bench.py does: bw = int(1000 + c*99000) kbit, delay =   *)
(* int(10 + c*90) ms, jitter 0, loss int(100*(c*2))/100 %, in hundredths. *)
MCGrid ==
  <<[bw |-> <<25750, "kbit">>, delay |-> 77, jitter |-> 0, loss |-> 150, queuesize |-> None],
    [bw |-> <<75250, "kbit">>, delay |-> 32, jitter |-> 0, loss |-> 50, queuesize |-> None]>>

MCSegIfaces == [s \in {"wan"} |-> {"r1-eth1", "r2-eth0"}]
=============================================================================
