\* experiments/vpn_ditg.py over two grid rows: four tunnels, iperf3 and
\* A flow missing from ITGDec's output ends the sweep (KeyError).
CONSTANTS
  None = None
  NumTests = 2
  Grid <- DitgGrid
  Prologue <- MakeTunnels
  RowSteps <- DitgRowSteps
  Kinds = {"iperf", "itgrecv"}
  Forwarders = {}
  Tunnels = {"ovpn_tcp", "ovpn_udp", "quicvpn", "squicvpn"}
  Via <- VpnVia
  Labels <- DitgLabels
  Uses <- VpnUses
  Ifaces = {"r1-eth1", "r2-eth0"}
  Segments = {"wan"}
  SegIfaces <- ChainSegIfaces
  FixedQueingDelay = None
  FailingCmds = {}
SPECIFICATION Spec
PROPERTY EveryRowRecorded
CHECK_DEADLOCK FALSE
