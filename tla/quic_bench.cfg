\* The quic_bench.py sweep: 2 grid rows, 2 iterations, servers that may be
\* slow to start or die, downloads that may time out.
CONSTANTS
  None = None
  NumTests = 2
  NumIterations = 2
  Grid <- MCGrid
  Ifaces = {"r1-eth1", "r2-eth0"}
  Segments = {"wan"}
  SegIfaces <- MCSegIfaces
  FixedQueingDelay = None
  FailingCmds = {}
SPECIFICATION Spec
INVARIANT TypeOK
INVARIANT OneRecordPerSample
INVARIANT MeasuredUnderSampleShaping
PROPERTY SweepImplemented
CHECK_DEADLOCK FALSE
