\* The ITGDec parser of vpn_ditg.py over every report of four equal flows.
CONSTANTS
  None = None
  Flows <- MCFlows
  Keys <- MCKeys
  TimedKeys <- MCTimedKeys
  Reports <- MCReports
SPECIFICATION Spec
INVARIANT YieldsPerFlowDelay
CHECK_DEADLOCK FALSE
