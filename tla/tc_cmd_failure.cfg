\* The kernel rejects the netem command of limit_interface; the result is never checked.
CONSTANTS
  None = None
  Ifaces = {"r1-eth1", "r2-eth0"}
  Segments = {"wan"}
  SegIfaces <- ChainSegIfaces
  Bandwidths <- MCBandwidths
  Delays = {10, 50}
  Jitters = {0}
  Losses = {0, 58}
  QueueSizes = {None, 100}
  FixedQueingDelay = None
  FailingCmds = {5}
INIT TCInit
NEXT TCNext
INVARIANT ShapedAsRequested
