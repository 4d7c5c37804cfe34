----------------------------- MODULE MCLauncher -----------------------------
(* The answers a user gives the launcher, a typo of the mode included.   *)
EXTENDS Launcher

MCModes == {"client", "server", "Client"}

MCMultis == {"true", "false"}
=============================================================================
