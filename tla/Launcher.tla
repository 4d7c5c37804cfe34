------------------------------ MODULE Launcher ------------------------------
(***************************************************************************)
(* quic_vpn/dist_launcher.py: checks it runs as root, asks for the mode   *)
(* and the multi-stream flag (and the server's address in client mode),   *)
(* writes /tmp/vpnconfig, asks for the address to route into the tunnel,  *)
(* prints the route to add, then runs ./quicvpn /tmp/vpnconfig twice:     *)
(* first with os.system, which waits for that process to exit, then with  *)
(* subprocess.Popen("sudo nohup ./quicvpn ... &"), which returns at once. *)
(* The config is kept as the keys each section holds; key file paths are  *)
(* the certificate names joined to the directory the user typed.         *)
(***************************************************************************)
EXTENDS Integers, TLC

CONSTANTS
  Modes,        \* answers to "client/server: "
  Multis,       \* answers to "multi-stream(true/false): "
  DistantIp,    \* answer to "distant ip: " (client mode only)
  None

VARIABLES
  pc,       \* "start", "ask", "write", "run", "wait", "spawn", "done", "exited"
  mode, multi,
  config,   \* contents of /tmp/vpnconfig, None before it is written
  fg,       \* the quicvpn run by os.system: "none", "running", "exited"
  bg        \* the quicvpn started by Popen with nohup and '&'

vars == <<pc, mode, multi, config, fg, bg>>

NoKeys == [k \in {} |-> None]

ThisIp(m) == IF m = "client" THEN "10.1.1.1" ELSE "10.1.1.2"

(* generic_config: mode, multi_streams, ip (/24), verbose, iface_name.    *)
GenericConfig(m, x, ip) ==
  [mode |-> m, multi_streams |-> x, ip |-> <<ip, 24>>, verbose |-> "true", iface_name |-> "tun"]

(* client_part: the client's public key; its private key in client mode, *)
(* check_key in server mode.                                              *)
ClientPart(m, keys) ==
  ("public" :> keys[1]) @@
  (IF m = "client" THEN "private" :> keys[2] ELSE NoKeys) @@
  (IF m = "server" THEN "check_key" :> "true" ELSE NoKeys)

(* server_part: the server's public key and port; its private key in     *)
(* server mode; check_key and the server's address in client mode.       *)
ServerPart(m, port, address, keys) ==
  ("public" :> keys[1]) @@ ("port" :> port) @@
  (IF m = "server" THEN "private" :> keys[2] ELSE NoKeys) @@
  (IF m = "client" THEN ("check_key" :> "true") @@ ("addr" :> address) ELSE NoKeys)

Init ==
  /\ pc = "start"
  /\ mode = None /\ multi = None /\ config = None
  /\ fg = "none" /\ bg = "none"

(* os.getuid() != 0: print and sys.exit(1).                               *)
CheckRoot ==
  /\ pc = "start"
  /\ \E root \in BOOLEAN : pc' = IF root THEN "ask" ELSE "exited"
  /\ UNCHANGED <<mode, multi, config, fg, bg>>

(* input() for multi and mode, used as typed.                             *)
Ask ==
  /\ pc = "ask"
  /\ \E m \in Modes, x \in Multis : mode' = m /\ multi' = x
  /\ pc' = "write"
  /\ UNCHANGED <<config, fg, bg>>

(* Lines 71-92: server address only in client mode, port 4242, the key    *)
(* pairs, this side's tunnel address, the three parts written in order.   *)
WriteConfig ==
  /\ pc = "write"
  /\ LET address == IF mode = "client" THEN DistantIp ELSE None
     IN config' = [generic |-> GenericConfig(mode, multi, ThisIp(mode)),
                   client |-> ClientPart(mode, <<"client.pub", "client">>),
                   server |-> ServerPart(mode, "4242", address, <<"server.pub", "server">>)]
  /\ pc' = "run"
  /\ UNCHANGED <<mode, multi, fg, bg>>

(* Lines 96-100: ask the tunnelled address, print the route to add, then  *)
(* os.system("./quicvpn /tmp/vpnconfig"): the launcher waits in it.       *)
RunForeground ==
  /\ pc = "run"
  /\ fg' = "running"
  /\ pc' = "wait"
  /\ UNCHANGED <<mode, multi, config, bg>>

(* os.system returns once its quicvpn has exited.                         *)
ForegroundReturns ==
  /\ pc = "wait"
  /\ fg = "exited"
  /\ pc' = "spawn"
  /\ UNCHANGED <<mode, multi, config, fg, bg>>

(* Lines 102-104: Popen of the nohup'd quicvpn, print its pid and return. *)
SpawnBackground ==
  /\ pc = "spawn"
  /\ bg' = "running"
  /\ pc' = "done"
  /\ UNCHANGED <<mode, multi, config, fg>>

(* A quicvpn ends when it fails (bad config, port taken) or is stopped;   *)
(* a working VPN otherwise runs for as long as the tunnel is wanted.      *)
QuicvpnExit ==
  \/ fg = "running" /\ fg' = "exited" /\ UNCHANGED bg
  \/ bg = "running" /\ bg' = "exited" /\ UNCHANGED fg

Driver == CheckRoot \/ Ask \/ WriteConfig \/ RunForeground \/ ForegroundReturns \/ SpawnBackground

Next == Driver \/ (QuicvpnExit /\ UNCHANGED <<pc, mode, multi, config>>)

(* The launcher's own steps always happen once enabled (the user answers  *)
(* the prompts); quicvpn is not made to exit.                            *)
Spec == Init /\ [][Next]_vars /\ WF_vars(Driver)

-----------------------------------------------------------------------------
(* Foreground commands are bounded: whenever the launcher waits on its    *)
(* first quicvpn it eventually gets past it, to start the background      *)
(* tunnel and return (the coordinator's runForeground never blocks past   *)
(* its timeout).                                                          *)
ForegroundBounded == (pc = "wait") ~> (pc # "wait")
=============================================================================
