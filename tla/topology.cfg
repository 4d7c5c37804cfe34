\* make_network of experiments/helpers.py (the chain) and of
\* experiments_multipath/helpers.py (the diamond): pingAll, h1 -> h2 traffic,
\* and the ping of a VPN peer before its tunnel exists.
CONSTANTS
  None = None
  MaxHops = 16
SPECIFICATION Spec
INVARIANT ChainRoundTrip
INVARIANT DiamondRoundTrip
PROPERTY ChainReaches
PROPERTY DiamondReaches
CHECK_DEADLOCK FALSE
