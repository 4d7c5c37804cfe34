\* The start of every sweep script: logger, system description,
\* prerequisite checks, up to make_network.
CONSTANTS
  Scripts <- MCScripts
SPECIFICATION Spec
INVARIANT LogMirrorsConsole
CHECK_DEADLOCK FALSE
