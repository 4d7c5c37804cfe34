----------------------------- MODULE MCStartup ------------------------------
(***************************************************************************)
(* The prologue of every sweep script, step by step from its __main__.    *)
(***************************************************************************)
EXTENDS Startup

B(n) == [op |-> "banner", name |-> n]
C(n) == [op |-> "check", name |-> n]
Describes == <<B("system description"), [op |-> "describe"], B("prerequisites")>>

(* experiments/quic_bench.py, mode 1: FSIZES = ['4M'].                     *)
QuicPrologue ==
  <<B("max test time")>> \o Describes \o
  <<C("openvpn"), C("use cubic"), C("busybox"), C("apache benchmark"),
    C("file of size 4M"), B("build network")>>

(* experiments/vpn_ecn_largefiles.py *)
EcnPrologue ==
  Describes \o <<C("openvpn"), C("busybox"), C("apache benchmark"), C("use cubic"),
                 B("build network")>>

(* experiments/pforw_single_download.py *)
PforwPrologue ==
  Describes \o <<C("busybox"), C("apache benchmark"), C("use cubic"),
                 [op |-> "say", text |-> "[TODO: define other prerequisites]"],
                 B("build network")>>

(* experiments/vpn_ditg.py *)
DitgPrologue ==
  Describes \o <<C("openvpn"), C("iperf3"), C("apache benchmark"), C("use cubic"),
                 B("build network")>>

(* experiments_multipath/pforw_single_download.py and                      *)
(* pforw_concurrent_download.py: the same prologue, multipath check().    *)
MultiPrologue ==
  Describes \o <<C("busybox"), C("apache benchmark"), C("use cubic"), B("build network")>>

MCScripts ==
  {[prologue |-> QuicPrologue, catchAll |-> TRUE],
   [prologue |-> EcnPrologue, catchAll |-> TRUE],
   [prologue |-> PforwPrologue, catchAll |-> TRUE],
   [prologue |-> DitgPrologue, catchAll |-> TRUE],
   [prologue |-> MultiPrologue, catchAll |-> FALSE]}
=============================================================================
