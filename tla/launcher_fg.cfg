\* dist_launcher.py with a quicvpn that keeps running once started.
CONSTANTS
  None = None
  Modes <- MCModes
  Multis <- MCMultis
  DistantIp = "192.0.2.1"
SPECIFICATION Spec
PROPERTY ForegroundBounded
CHECK_DEADLOCK FALSE
