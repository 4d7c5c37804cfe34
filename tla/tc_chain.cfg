\* limit_network of the single-path chain, applied repeatedly with the
\* parameter values the sweeps and the empty_network scripts pass.
CONSTANTS
  None = None
  Ifaces = {"r1-eth1", "r2-eth0"}
  Segments = {"wan"}
  SegIfaces <- ChainSegIfaces
  Bandwidths <- MCBandwidths
  Delays = {10, 18, 50, 100}
  Jitters = {0, 4}
  Losses = {0, 58}
  QueueSizes = {None, 100}
  FixedQueingDelay = None
  FailingCmds = {}
INIT TCInit
NEXT TCNext
INVARIANT TCTypeOK
INVARIANT ShapedAsRequested
INVARIANT QueueWithinRtt
