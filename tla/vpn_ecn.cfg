\* experiments/vpn_ecn_largefiles.py over two grid rows: four tunnels, the
\* httpd, ECN toggled per endpoint.
CONSTANTS
  None = None
  NumTests = 2
  Grid <- VpnEcnGrid
  Prologue <- VpnEcnPrologue
  RowSteps <- VpnEcnRowSteps
  Kinds = {"httpd"}
  Forwarders = {}
  Tunnels = {"ovpn_tcp", "ovpn_udp", "quicvpn", "squicvpn"}
  Via <- VpnVia
  Labels <- VpnEcnLabels
  Uses <- VpnUses
  Ifaces = {"r1-eth1", "r2-eth0"}
  Segments = {"wan"}
  SegIfaces <- ChainSegIfaces
  FixedQueingDelay = None
  FailingCmds = {}
SPECIFICATION Spec
INVARIANT RecordsMatchLabels
PROPERTY SweepImplemented
CHECK_DEADLOCK FALSE
