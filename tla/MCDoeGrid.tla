----------------------------- MODULE MCDoeGrid ------------------------------
(***************************************************************************)
(* The designs of the sweep scripts, from their module-level constants.   *)
(* Loss is in hundredths of a percent, the unit int(100 * ...) truncates  *)
(* to.  The multipath scripts draw a second grid for the second path.     *)
(***************************************************************************)
EXTENDS DoeGrid

Rng(lo, hi) == [lo |-> lo, hi |-> hi]

(* experiments/quic_bench.py, mode 1 (FSIZES = ['4M']); JITTER 0..0.     *)
QuicDesign ==
  [samples |-> 100, fsizes |-> 1,
   dims |-> [bw |-> Rng(1000, 100000), loss |-> Rng(0, 200),
             delay |-> Rng(10, 100), jitter |-> Rng(0, 0)]]

(* experiments/vpn_ecn_largefiles.py *)
EcnDesign ==
  [samples |-> 100, fsizes |-> 1,
   dims |-> [bw |-> Rng(1000, 100000), loss |-> Rng(0, 200), delay |-> Rng(10, 100)]]

(* experiments/pforw_single_download.py *)
PforwDesign ==
  [samples |-> 200, fsizes |-> 5,
   dims |-> [bw |-> Rng(1000, 100000), loss |-> Rng(0, 200), delay |-> Rng(10, 100)]]

(* experiments/vpn_ditg.py: the ranges are overridden to single points.  *)
DitgDesign ==
  [samples |-> 100, fsizes |-> 0,
   dims |-> [bw |-> Rng(10000, 10000), loss |-> Rng(10, 10), delay |-> Rng(50, 50)]]

(* experiments_multipath/pforw_single_download.py: doe_grid, then         *)
(* grid_2nd_path for the second path with the same ranges.                *)
MultiDesign ==
  [samples |-> 200, fsizes |-> 5,
   dims |-> [bw |-> Rng(1000, 100000), loss |-> Rng(0, 0), delay |-> Rng(1, 25)]]

MultiDesign2 ==
  [samples |-> 200, fsizes |-> 0,
   dims |-> [bw |-> Rng(1000, 100000), loss |-> Rng(0, 0), delay |-> Rng(1, 25)]]

(* experiments_multipath/pforw_concurrent_download.py, both grids.        *)
ConcDesign ==
  [samples |-> 200, fsizes |-> 5,
   dims |-> [bw |-> Rng(1000, 100000), loss |-> Rng(0, 200), delay |-> Rng(10, 100)]]

ConcDesign2 ==
  [samples |-> 200, fsizes |-> 0,
   dims |-> [bw |-> Rng(1000, 100000), loss |-> Rng(0, 200), delay |-> Rng(10, 100)]]

MCDesigns == {QuicDesign, EcnDesign, PforwDesign, DitgDesign,
              MultiDesign, MultiDesign2, ConcDesign, ConcDesign2}
=============================================================================
