----------------------------- MODULE SweepScript -----------------------------
(***************************************************************************)
(* The straight-line sweep scripts of the chain and diamond experiments:  *)
(* experiments/pforw_single_download.py, vpn_ecn_largefiles.py and        *)
(* vpn_ditg.py, and experiments_multipath/pforw_single_download.py.       *)
(* Each is a prologue run once after make_network, then the same steps    *)
(* for every grid row, so the module is an interpreter over the script's  *)
(* steps: Prologue runs once, RowSteps once per row.  A step is           *)
(*   [op |-> "shape", seg, part]    limit_network(.., north = seg) with   *)
(*                                  the row's first or second set          *)
(*   [op |-> "servers", kill, start] pkill/killall the kinds in kill, then *)
(*                                  start the servers of start with '&'    *)
(*   [op |-> "clients", start]      start those kinds' clients on h1      *)
(*   [op |-> "tunnels", kill, start] make_tunnels: killall, then start     *)
(*                                  each tunnel's client and server       *)
(*   [op |-> "ecn", on]             enableECN / disableECN                *)
(*   [op |-> "measure", endpoint, needs, fail]                            *)
(*                                  the script's test(): a download (ab)  *)
(*                                  or D-ITG run through the endpoint,    *)
(*                                  needing the servers in needs; "crash" *)
(*                                  when a failure raises (test()[3],     *)
(*                                  res[str(i)]) and ends the script,     *)
(*                                  "empty" when it prints an empty group *)
(* The sleeps between steps are where the background processes move.      *)
(***************************************************************************)
EXTENDS Integers, Sequences, FiniteSets

CONSTANTS
  NumTests,     \* NUM_TESTS: rows of the grid
  Grid,         \* [1..NumTests -> [first, second]]: limit_network args
  Prologue,     \* steps before the loop
  RowSteps,     \* steps of one row
  Kinds,        \* background server kinds (httpd, forwarders, tunnels, ITGRecv)
  Forwarders,   \* the kinds with a client on h1 (port forwarders)
  Tunnels,      \* VPN tunnels: a client on h1 and a server on h2 started together
  Via,          \* [endpoints -> Kinds \cup {"direct"}]: who serves a port
  Labels,       \* [1..fields -> [Segments -> part]]: what each field means
  Uses,         \* [Kinds \cup {"direct"} -> SUBSET Segments]: path taken
  Ifaces, Segments, SegIfaces, FixedQueingDelay, FailingCmds, None

VARIABLES
  pc,       \* "prologue", "row", "clean", "done" or "crashed"
  sample,   \* current grid row
  step,     \* next step of Prologue or RowSteps
  cur,      \* fields printed for the current row
  out,      \* rows printed so far (history)
  server,   \* [Kinds -> state] background servers on h2
  client,   \* [Kinds -> state] forwarder and tunnel clients on h1
  tunnel,   \* [Tunnels -> state] VPN tunnels between h1 and h2
  ecn,      \* net.ipv4.tcp_ecn on h1 and h2
  qdisc, requested

vars == <<pc, sample, step, cur, out, server, client, tunnel, ecn, qdisc, requested>>

Parts == {Grid[k][p] : k \in 1..NumTests, p \in {"first", "second"}}

TC == INSTANCE TrafficControl WITH
        Bandwidths <- {r.bw : r \in Parts}, Delays <- {r.delay : r \in Parts},
        Jitters <- {r.jitter : r \in Parts}, Losses <- {r.loss : r \in Parts},
        QueueSizes <- {None}

Steps == IF pc = "prologue" THEN Prologue ELSE RowSteps

Alive(s) == s \in {"starting", "listening", "connected", "up"}

(* A test gets its result only when the servers it needs listen and the  *)
(* forwarder or tunnel it goes through is connected end to end.          *)
Up(s) ==
  /\ \A k \in s.needs : server[k] = "listening"
  /\ Via[s.endpoint] \in Forwarders =>
       /\ server[Via[s.endpoint]] = "listening"
       /\ client[Via[s.endpoint]] = "connected"
  /\ Via[s.endpoint] \in Tunnels => tunnel[Via[s.endpoint]] = "up"

Init ==
  /\ pc = "prologue"
  /\ sample = 1
  /\ step = 1
  /\ cur = <<>>
  /\ out = <<>>
  /\ server = [k \in Kinds |-> "none"]
  /\ client = [k \in Kinds |-> "none"]
  /\ tunnel = [t \in Tunnels |-> "none"]
  /\ ecn = TRUE
  /\ TC!TCInit

(* Variant for mutation checks: the end of a row tested one step late.   *)
AdvanceOffByOne(field) ==
  LET printed == IF field = None THEN cur ELSE Append(cur, field) IN
  IF step < Len(Steps) \/ (pc = "row" /\ step = Len(Steps))
    THEN /\ step' = step + 1
         /\ cur' = printed
         /\ UNCHANGED <<pc, sample, out>>
  ELSE IF pc = "prologue"
    THEN /\ pc' = IF NumTests > 0 THEN "row" ELSE "clean"
         /\ step' = 1
         /\ UNCHANGED <<sample, cur, out>>
  ELSE /\ out' = Append(out, printed)
       /\ cur' = <<>>
       /\ step' = 1
       /\ sample' = sample + 1
       /\ pc' = IF sample < NumTests THEN "row" ELSE "clean"

(* After a step: next step, or the row's record is printed and the loop   *)
(* moves on; after the last row, the clean banner.                        *)
Advance(field) ==
  LET printed == IF field = None THEN cur ELSE Append(cur, field) IN
  IF step < Len(Steps)
    THEN /\ step' = step + 1
         /\ cur' = printed
         /\ UNCHANGED <<pc, sample, out>>
  ELSE IF pc = "prologue"
    THEN /\ pc' = IF NumTests > 0 THEN "row" ELSE "clean"
         /\ step' = 1
         /\ UNCHANGED <<sample, cur, out>>
  ELSE /\ out' = Append(out, printed)
       /\ cur' = <<>>
       /\ step' = 1
       /\ sample' = sample + 1
       /\ pc' = IF sample < NumTests THEN "row" ELSE "clean"

Shape(s) ==
  /\ s.op = "shape"
  /\ TC!LimitNetwork(s.seg, Grid[sample][s.part])
  /\ Advance(None)
  /\ UNCHANGED <<server, client, tunnel, ecn>>

(* pkill/killall by name on h1 and h2, then servers started with '&'.    *)
Servers(s) ==
  /\ s.op = "servers"
  /\ server' = [k \in Kinds |-> IF k \in s.start THEN "starting"
                                ELSE IF k \in s.kill THEN "none" ELSE server[k]]
  /\ client' = [k \in Kinds |-> IF k \in s.kill THEN "none" ELSE client[k]]
  /\ Advance(None)
  /\ UNCHANGED <<tunnel, ecn, qdisc, requested>>

Clients(s) ==
  /\ s.op = "clients"
  /\ client' = [k \in Kinds |-> IF k \in s.start THEN "starting" ELSE client[k]]
  /\ Advance(None)
  /\ UNCHANGED <<server, tunnel, ecn, qdisc, requested>>

(* make_tunnels: killall openvpn and quicvpn on h1 and h2, then each      *)
(* tunnel's client on h1 and server on h2 with '&', back to back.         *)
StartTunnels(s) ==
  /\ s.op = "tunnels"
  /\ tunnel' = [t \in Tunnels |-> IF t \in s.start THEN "starting"
                                  ELSE IF t \in s.kill THEN "none" ELSE tunnel[t]]
  /\ Advance(None)
  /\ UNCHANGED <<server, client, ecn, qdisc, requested>>

(* enableECN/disableECN: sysctl net.ipv4.tcp_ecn on h1, then on h2.      *)
SetEcn(s) ==
  /\ s.op = "ecn"
  /\ ecn' = s.on
  /\ Advance(None)
  /\ UNCHANGED <<server, client, tunnel, qdisc, requested>>

(* A field keeps what the test ran through and under what: the forwarder *)
(* or tunnel, whether it got a result, and the tc state of the interfaces. *)
Field(s, ok) == [via |-> Via[s.endpoint], ok |-> ok, shaping |-> qdisc]

(* Variant for mutation checks: every failed test raises.                *)
MeasureCrashOnFail(s) ==
  /\ s.op = "measure"
  /\ IF Up(s)
       THEN Advance(Field(s, TRUE))
       ELSE /\ pc' = "crashed"
            /\ UNCHANGED <<sample, step, cur, out>>
  /\ UNCHANGED <<server, client, tunnel, ecn, qdisc, requested>>

Measure(s) ==
  /\ s.op = "measure"
  /\ \/ Up(s) /\ Advance(Field(s, TRUE))
     \/ ~Up(s) /\ s.fail = "empty" /\ Advance(Field(s, FALSE))
     \/ ~Up(s) /\ s.fail = "crash" /\ pc' = "crashed" /\ UNCHANGED <<sample, step, cur, out>>
  /\ UNCHANGED <<server, client, tunnel, ecn, qdisc, requested>>

Driver ==
  /\ pc \in {"prologue", "row"}
  /\ LET s == Steps[step] IN
       \/ Shape(s) \/ Servers(s) \/ Clients(s) \/ StartTunnels(s)
       \/ SetEcn(s) \/ Measure(s)

(* net.stop() ends every process of the emulated hosts.                   *)
Clean ==
  /\ pc = "clean"
  /\ pc' = "done"
  /\ server' = [k \in Kinds |-> "none"]
  /\ client' = [k \in Kinds |-> "none"]
  /\ tunnel' = [t \in Tunnels |-> "none"]
  /\ UNCHANGED <<sample, step, cur, out, ecn, qdisc, requested>>

(* The background processes: a server binds or dies (port still held, bad *)
(* certificate path); a client connects once its server listens, or gives *)
(* up.                                                                    *)

ServerListen(k) == server[k] = "starting" /\ server' = [server EXCEPT ![k] = "listening"]
ServerExit(k) == Alive(server[k]) /\ server' = [server EXCEPT ![k] = "exited"]

ClientConnect(k) ==
  /\ client[k] = "starting" /\ server[k] = "listening"
  /\ client' = [client EXCEPT ![k] = "connected"]
ClientExit(k) == Alive(client[k]) /\ client' = [client EXCEPT ![k] = "exited"]

(* A tunnel comes up once its client completed the handshake with its     *)
(* server (openvpn retries, so the order of the two starts is immaterial) *)
(* or fails; an established tunnel may still go down.                    *)
TunnelUp(t) == tunnel[t] = "starting" /\ tunnel' = [tunnel EXCEPT ![t] = "up"]
TunnelDown(t) == Alive(tunnel[t]) /\ tunnel' = [tunnel EXCEPT ![t] = "down"]

Process ==
  /\ \/ \E k \in Kinds : (ServerListen(k) \/ ServerExit(k)) /\ UNCHANGED <<client, tunnel>>
     \/ \E k \in Forwarders : (ClientConnect(k) \/ ClientExit(k)) /\ UNCHANGED <<server, tunnel>>
     \/ \E t \in Tunnels : (TunnelUp(t) \/ TunnelDown(t)) /\ UNCHANGED <<server, client>>
  /\ UNCHANGED <<pc, sample, step, cur, out, ecn, qdisc, requested>>

Next == Driver \/ Clean \/ Process

Spec == Init /\ [][Next]_vars /\ WF_vars(Driver \/ Clean)

-----------------------------------------------------------------------------
PStates == {"none", "starting", "listening", "exited"}
CStates == {"none", "starting", "connected", "exited"}

Fields == [via : Forwarders \cup Tunnels \cup {"direct"}, ok : BOOLEAN,
           shaping : [Ifaces -> [root : BOOLEAN, outer : BOOLEAN, inner : Nat \cup {None},
                                 netem : TC!Netems \cup {None}]]]

MaxSteps == IF Len(Prologue) > Len(RowSteps) THEN Len(Prologue) ELSE Len(RowSteps)

TypeOK ==
  /\ pc \in {"prologue", "row", "clean", "done", "crashed"}
  /\ sample \in 1..NumTests + 1
  /\ step \in 1..MaxSteps
  /\ cur \in Seq(Fields)
  /\ out \in Seq(Seq(Fields))
  /\ ecn \in BOOLEAN
  /\ server \in [Kinds -> PStates]
  /\ client \in [Kinds -> CStates]
  /\ tunnel \in [Tunnels -> {"none", "starting", "up", "down"}]
  /\ TC!TCTypeOK

LabelHolds(i, f, k) ==
  \A g \in Uses[f.via] : \A x \in SegIfaces[g] : f.shaping[x] = TC!Shaped(Grid[i][Labels[k][g]])

(* Every printed row has one field per measurement, rows are printed in   *)
(* grid order, and each field was measured while both ends of every      *)
(* segment its path crosses held the tc tree of the parameter set its     *)
(* place in the row names (the banner's first or second).  The multipath *)
(* script reshapes the paths three times per row and restarts the        *)
(* forwarders in between, so each measurement depends on the order of    *)
(* the calls.                                                             *)
RecordsMatchLabels ==
  /\ pc \in {"row", "crashed"} => Len(out) = sample - 1
  /\ \A i \in 1..Len(out) :
       /\ Len(out[i]) = Len(Labels)
       /\ \A k \in 1..Len(Labels) : LabelHolds(i, out[i][k], k)
  /\ pc = "row" => \A k \in 1..Len(cur) : LabelHolds(sample, cur[k], k)

(* The sweep prints a record for every row of the grid, whatever the      *)
(* forwarders do; a download that fails is to be recorded as failed, not  *)
(* end the run.                                                           *)
EveryRowRecorded == <>(Len(out) = NumTests)

S == INSTANCE Sweep WITH NumRows <- NumTests, printed <- out, finished <- (pc = "done")

(* The script implements the abstract sweep: one record per row, in      *)
(* order and append-only, and it always reaches net.stop() and ends,     *)
(* whatever the tunnels, forwarders and servers do.                      *)
SweepImplemented == S!Spec
=============================================================================
