\* experiments_multipath/pforw_single_download.py over two grid rows.
CONSTANTS
  None = None
  NumTests = 2
  Grid <- MultiGrid
  Prologue <- MultiPrologue
  RowSteps <- MultiRowSteps
  Kinds = {"httpd", "single", "multi"}
  Forwarders = {"single", "multi"}
  Tunnels = {}
  Via <- MultiVia
  Labels <- MultiLabels
  Uses <- MultiUses
  Ifaces = {"r1-eth1", "r3-eth0", "r2-eth1", "r3-eth1"}
  Segments = {"north", "south"}
  SegIfaces <- MultiSegIfaces
  FixedQueingDelay = 200
  FailingCmds = {}
SPECIFICATION Spec
INVARIANT TypeOK
INVARIANT RecordsMatchLabels
CHECK_DEADLOCK FALSE
