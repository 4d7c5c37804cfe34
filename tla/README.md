# TLA+ models of the QUIC experiment engine

This directory holds TLA+ models of the network-emulation and experiment-orchestration
scripts under `src/src/`. Each model comes with the TLC configurations that check it.
The scripts build a small Mininet network. They shape one or two WAN segments with
`tc` (htb plus netem), start tunnel, forwarder and server processes on the emulated
hosts, and sweep a Latin-hypercube grid of bandwidth, delay and loss values. Each grid
row produces one `;`-separated result record.

## 1. Inventory

### Components and their state

| Component | Source | State | Operations |
|---|---|---|---|
| Topology Model | `experiments/helpers.py` `make_network` (chain h1-r1-r2-h2), `experiments_multipath/helpers.py` `make_network` (diamond h1-{r1,r2}-r3-h2) | hosts, links, addresses, routes, the policy rules of h1 in the diamond, `ip_forward`, `tcp_ecn` on h1/h2 | `make_network`, `enableECN`/`disableECN` (`enable_ecn`/`disable_ecn`), `net.pingAll` (result ignored), `net.stop` |
| Traffic-Control Engine | `limit_interface`, `limit_network`, `convert_kbps` (both helper files) | the tc tree of each shaped router interface: htb root, 1000Mbit class 1:1, class 1:11 with the sample's rate, netem (delay, jitter, loss, limit) | `limit_network(bw, delay, jitter, loss, queuesize[, north])`. It computes `best_queue` and runs five tc commands on each end of the segment. The results are never read. |
| Process Lifecycle Coordinator | `make_tunnels`, `make_port_forwarding*`, `setupSingle`/`setupMulti`, the per-iteration `quicbench server &`/`killall` of `quic_bench.py`, `iperf3 -s &`/`ITGRecv &` of `vpn_ditg.py` | background processes on h1/h2, known only by name | spawn with `&`, fixed `sleep`, `killall`/`pkill`, foreground commands under `timeout` (quic_bench only) |
| Parameter Sweep Engine | `quic_bench.py`, `vpn_ecn_largefiles.py`, `vpn_ditg.py`, `pforw_single_download.py`, `experiments_multipath/pforw_single_download.py`, `experiments_multipath/pforw_concurrent_download.py` | grid (`pyDOE.lhs(..., criterion='center')`), current row, iteration, per-sample result lists | map the row to physical values, `limit_network`, set up endpoints, measure, print one record |
| Result Recorder | `StdoutLogger`, `get_results_prefix` | console and an append-mode `<experiment>_<date>_log.csv` | `write`: console write, log write, flush both |
| Prerequisite checks | `check` | none (exits on failure) | shell probe. It prints `ko!` and exits 1. The multipath `except error:` does not catch the failure. |
| QUIC VPN launcher | `quic_vpn/dist_launcher.py` | answers read from stdin, `/tmp/vpnconfig` | writes the config, runs `quicvpn` in the foreground, then again with `nohup ... &` |

### How they interact

The driver of each experiment is one Python thread. It calls the helpers directly.
Every `host.cmd(...)` blocks until the host's shell prints its prompt. A command ending
in `&` therefore returns at once, and the process it started runs on its own. The only
synchronisation between the driver and those processes is a fixed `sleep` (1 s, 2 s,
5 s, 10 s, 15 s) or a `killall`.

Shaping state is global per interface and is rewritten for every sample. Results go
to stdout, which `StdoutLogger` duplicates into the log file.

### What is hard

- **Processes against a sleeping driver.** Servers, tunnels and forwarders may not
  listen yet when the measurement starts, or may have died. Nothing checks readiness.
- **Ignored failures.** tc results are discarded. So is the `pingAll` figure. Only
  exit status 124 counts as a failed QUIC download. Parsing errors raise and abort
  the whole sweep in `vpn_ditg.py` and in the port-forwarding sweeps.
- **Re-shaping order.** The multipath sweeps re-shape one path between measurements,
  and each record's meaning depends on that order.
- **Queue arithmetic.** `best_queue` is a truncated float product. The multipath
  variant sizes the queue for a fixed 200 ms. `convert_kbps` reads `kbps` as kilobits.
- **Termination.** Only `quic_bench.py` bounds its downloads with `timeout`.

### What makes each component correct

- Traffic control: after `limit_network` both ends of the segment carry exactly the
  requested impairment, with nothing left from the previous sample. The auto-sized
  queue holds between one and 1.5 round trips at the installed rate.
- Sweep: every row is attempted once, in order, with exactly one record each. Every
  measurement of a row runs under that row's shaping. A failed measurement shows the
  sentinel. The sweep ends.
- Processes: a server started for an iteration is gone before the next one starts.
  Nothing is measured through an endpoint that is not up, unless that measurement is
  recorded as failed.
- Topology: every pair of hosts is reachable. Each path's round trip crosses both
  shaped interfaces of that path, one in each direction.

## 2. Plan

In order of importance. Done items are marked.

1. **TrafficControl** (done). One module for both helper variants. The segment map
   and the queue-delay policy are constants.
2. **QuicBench** (done). The `quic_bench.py` sweep, composing TrafficControl by
   `INSTANCE`, with the httpd and quicbench server as processes.
3. **Topology** (done). The routes and policy rules of both shapes as constants, and
   packet forwarding hop by hop as the action. Checks: full-mesh reachability, and
   that each path's round trip crosses both ends of its shaped segment.
4. **SweepScript** (done). One interpreter for the straight-line sweep scripts.
   Programs for the multipath `pforw_single_download.py` (re-shaping between the
   three downloads, `setupSingle`/`setupMulti` restarts, the `test()[3]` abort),
   `vpn_ecn_largefiles.py` and `vpn_ditg.py` (`make_tunnels`, ECN toggled per
   endpoint, iperf3/ITGRecv, the KeyError abort).
5. **ItgDec** (done). The ITGDec report parser of `vpn_ditg.py` as operators,
   checked against the per-flow figures of every report of four flows.
6. **Sweep** (abstract, done). Records printed one per row, in order and
   append-only, and the driver ends. QuicBench and SweepScript are shown to
   implement it, with a refinement mapping from `out` and `pc`.
7. **DoeGrid** (done). The centred Latin-hypercube design and the code's mapping to
   physical values, at each script's real sample count and ranges. Check: every
   swept dimension runs at as many distinct settings as there are strata.
8. **Launcher** (done). `dist_launcher.py`.
9. **Startup** (done). The start of every script: `StdoutLogger`, `banner`,
   `describe_system`, and `check` of both helpers modules.

## 3. Modules and their correspondence to the code

### TrafficControl (`TrafficControl.tla`, instantiated by `MCTrafficControl.tla`)

- `qdisc[i]` is the kernel's tc tree on router interface `i` as a record
  `[root, outer, inner, netem]`.
- `requested[seg]` is the last `limit_network` request for a segment. It is a
  history variable: the label the sweep prints.
- `TcQdiscDelRoot` … `TcQdiscAddNetem` are the five commands of `limit_interface`,
  with the kernel's semantics: a `del` with nothing to delete changes nothing, and an
  `add` whose parent is missing or whose handle exists is refused.
- `LimitInterface` runs them in order. `FailingCmds` lets a run make the kernel
  reject given commands; the code carries on either way.
- `LimitNetwork` is the whole of `limit_network`: `QueueFor`/`BestQueue`/
  `ConvertKbps`/`QueingDelayMax`, then `LimitInterface` on both ends of the segment.
- `FixedQueingDelay` selects the variant: `None` for the chain (`2*delay`), `200`
  for the diamond.
- `TcRate` is how tc reads a rate string. It is the only definition that models a
  collaborator rather than this repository.

### QuicBench (`QuicBench.tla`, instantiated by `MCQuicBench.tla`)

- `pc` walks the loop body of `quic_bench.py`: `LimitSample` (lines 70-80),
  `TcpMeasure` (81-89), `SpawnServer` (91-92), `QuicClient` (93-104: sleep, timed
  client, `killall`, status check, loop advance), `PrintRecord` (106-110) and
  `Clean` (112-113).
- `httpd` and `server` are the background processes. Their own steps are
  `HttpdListen`, `ServerListen` and `ServerExit`, and they interleave freely with the
  driver.
- Each recorded entry keeps what is printed (`Measured` or `Sentinel`) and whether
  the download really completed.
- The client's possible outcomes depend on the server's state when it runs
  (`ClientOutcomes`).
- Shaping goes through `TC == INSTANCE TrafficControl`.

### Topology (`Topology.tla`, instantiated by `MCTopology.tla`)

- The network `make_network` builds is constant. `MCTopology` lists it for both
  shapes:
  - `setIP` gives `Addrs` and their connected /24 routes (`Connected`).
  - `addLink`, in Mininet's interface naming, gives `Links`.
  - the `ip route` and `ip rule` commands give `Routes` and `Rules`.
  - `sysctl ip_forward` gives `Forwarders`.
- One probe per behaviour: a ping of `net.pingAll`, or h1-h2 traffic of the
  experiments, from a given source or from the one the kernel picks (`SourceFor`).
- `Forward` is one hop, using the kernel lookup: a rule matching the source selects
  its table first (`Route`), a /24 route wins over the default (`Match`), and the
  next hop must answer ARP on the route's link (`Neighbor`). `Deliver` answers or
  ends the ping. `Drop` covers no route, a non-forwarding host, or TTL spent
  (`MaxHops`).
- `MCTopology` instantiates `Topology` twice, as `Chain` and `Diamond`, each with
  its own probe variables, and interleaves their steps (`ChainStep`,
  `DiamondStep`), each weakly fair. One run checks both networks.

### SweepScript (`SweepScript.tla`, instantiated by `MCSweepScript.tla`)

- The port-forwarding and VPN scripts are straight-line code per grid row. The
  module interprets them: `MCSweepScript` lists each script as a `Prologue` (before
  the loop) and `RowSteps` (the loop body).
  - `MultiPrologue`/`MultiRowSteps` are lines 63-102 of the multipath
    `pforw_single_download.py`.
  - `VpnEcnPrologue`/`VpnEcnRowSteps` are lines 38-61 of `vpn_ecn_largefiles.py`,
    with `make_tunnels` as `MakeTunnels`.
  - `MakeTunnels`/`DitgRowSteps` are lines 87-110 of `vpn_ditg.py`, and `DitgTest`
    is its `test()`.
- The steps:
  - `Shape` is `limit_network` through `TC == INSTANCE TrafficControl`.
  - `Servers` is a `pkill`/`killall` by name and servers started with `&`: the
    forwarders of `setupSingle`/`setupMulti`, busybox httpd, iperf3 and ITGRecv.
    `Clients` is the forwarder clients' start after the 1 s sleep.
  - `StartTunnels` is `make_tunnels`: `killall openvpn`/`quicvpn`, then the client
    and server of each tunnel back to back.
  - `SetEcn` is `enableECN`/`disableECN`.
  - `Measure` is the script's `test()`. When it cannot get through (`Up`: the
    servers it needs listen, its forwarder is connected or its tunnel is up), the
    step says what the code does: `ab` prints an empty group in
    `vpn_ecn_largefiles.py` (`fail = "empty"`); `test()[3]` raises IndexError in
    the port-forwarding scripts, and `res[str(i)]` raises KeyError in `vpn_ditg.py`
    (`fail = "crash"`, `pc` becomes `crashed`).
- Servers, forwarder clients and tunnels are processes. They start, listen,
  connect or come up, or exit, interleaved with the driver at its sleeps.
- Each printed field records the forwarder or tunnel used, whether it got a
  result, and the tc tree of every shaped interface.
- `Labels` and `Uses` are not code. They state what each field of a row
  means and which segments a forwarder's traffic crosses. The single-path forwarder
  takes h1's main-table default, the north path; the Topology runs check that route.
- `experiments/pforw_single_download.py` is the same program shape on the chain. It
  has no run of its own.

### ItgDec (`ItgDec.tla`, instantiated by `MCItgDec.tla`)

- A report line is abstracted to what the loop of `test()` looks at: a
  `Flow number:` header, a `key = value` line, or other text.
- `ParseLine` is one iteration of lines 52-68. `Parse` folds it over the report
  with `FoldLeft`. `Yielded` is lines 71-72.
- `MCItgDec` generates ITGDec's reports: one section per received flow, then the
  TOTAL RESULTS section over all of them, for every subset of the four flows.
- `FlowDelay` is the reference: the "Average delay" line inside a flow's own section.

### Sweep (`Sweep.tla`, abstract)

- What every sweep driver promises. `printed` is the sequence of records on
  stdout. `PrintRow` adds one record after the ones already there, up to
  `NumRows`. `Finish` ends the driver once every row is printed.
- `Spec` requires that the driver eventually finishes. A record may be any value, so
  this liveness is stated as that outcome rather than as fairness on `PrintRow`: TLC
  cannot evaluate `ENABLED` for an action whose new record is left free.
- `QuicBench` and `SweepScript` each define
  `S == INSTANCE Sweep WITH printed <- out, finished <- (pc = "done")`, and check
  `SweepImplemented == S!Spec` as a property.

### Launcher (`Launcher.tla`, instantiated by `MCLauncher.tla`)

- `pc` walks `main()` of `quic_vpn/dist_launcher.py`: `CheckRoot` (lines 60-62),
  `Ask` (66-69), `WriteConfig` (71-92, with `GenericConfig`, `ClientPart` and
  `ServerPart` for the three helpers), `RunForeground` (96-100), `ForegroundReturns`
  (when `os.system` returns), and `SpawnBackground` (102-104).
- `config` keeps, for each section, the keys it holds and their values.
- `fg` and `bg` are the two quicvpn processes. `QuicvpnExit` lets either one end.
- `MCLauncher` answers the prompts with `client`, `server` and the typo `Client`.

### DoeGrid (`DoeGrid.tla`, instantiated by `MCDoeGrid.tla`)

- `design` is a script's grid: `NUM_TESTS`, each dimension's range in the unit that
  `int()` truncates to (kbit, ms, or hundredths of a percent for loss), and
  `len(FSIZES)`. `MCDoeGrid` lists the design of every sweep script, including the
  second grid (`grid_2nd_path`) of both multipath scripts.
- `Centre(k, S)` is the coordinate that `lhs(..., criterion='center')` gives stratum
  k, namely (2k+1)/(2S), kept as an exact fraction. `Level` is
  `int(MIN + mul * (MAX - MIN))`, which is a floor because every operand is
  non-negative. `FSizeIndex` is `int(len(FSIZES) * mul)`.
- `Row` is one iteration of `for ... in doe_grid` (quic_bench.py lines 70-75, and
  the same lines in the other scripts). It adds the row's values to `levels`.
- The rows are visited in stratum order. Every property concerns the whole sweep,
  and the set of values a dimension takes does not depend on lhs's permutation.

### Startup (`Startup.tla`, instantiated by `MCStartup.tla`)

- `script` is one sweep script's prologue, as steps: banners, `describe_system`,
  `check` calls and a plain print. It also records which `check()` the script
  imports (`catchAll`). `MCStartup` lists the prologue of every script from its
  `__main__`.
- `console` and `log` are the pieces written to fd 1 and to `<prefix>_log.csv`, in
  order.
  - `Logged` is `StdoutLogger.write`: each piece goes to the terminal, then to the
    log, and both are flushed.
  - `Describe` is `describe_system`. The date goes through `sys.stdout`. The output
    of `uname -sr` and the sysctl listing comes from `os.system` children, which
    write to the inherited fd 1, so it reaches the console only.
- `OpenLogger` is `StdoutLogger.__init__`. Its `open(..., "a")` fails when the
  results directory is missing.
- `Check` is `check()`. On failure, the bare `except:` of `experiments/helpers.py`
  prints `ko!` and exits. The `except error:` of `experiments_multipath/helpers.py`
  names `mininet.log`'s `error` function, which the star import of `mininet.net`
  brings in. Under Python 2 a non-class in `except` does not match, so the
  CalledProcessError propagates and the script exits with a traceback, without `ko!`.
- `BuildNetwork` hands over to `make_network`, where Topology takes over.

## 4. Runs

| Run | Expect | What it shows |
|---|---|---|
| `tc_chain` | pass | Repeated `limit_network` calls on the chain leave both routers exactly as last requested (`ShapedAsRequested`). The auto-sized queue covers one to 1.5 round trips at the rate tc installed (`QueueWithinRtt`). |
| `tc_cmd_failure` | violation | A rejected netem command goes unnoticed, and the sample is labelled with an impairment the link does not have. |
| `topology` | pass | Both networks at once. In each, every pingAll pair and the h1-h2 traffic is answered (`ChainReaches`, `DiamondReaches`). Each h1-h2 round trip crosses one end of a shaped segment going out and the other end coming back (`ChainRoundTrip`, `DiamondRoundTrip`); in the diamond, traffic from 3.3.3.3 goes north and from 4.4.4.4 south. A ping of a VPN peer before its tunnel is up loops between r1 and r2 until its TTL runs out; the run explores that loop, but no property is stated about it. |
| `pforw_multi` | pass | Each of the three multipath downloads runs under the shaping its place in the record means: both paths first set, both paths second set, then north first and south second. Both ends of each path it crosses hold that tc tree. |
| `vpn_ecn` | pass | Each `ab` figure of `vpn_ecn_largefiles.py` is taken under its row's shaping. Every row is printed whatever the tunnels do, and the script implements the abstract `Sweep` (`SweepImplemented`). |
| `ditg_abort` | violation | In `vpn_ditg.py`, an ITGRecv that does not bind or a tunnel that is down leaves a flow out of ITGDec's report. `res[str(i)]` then raises KeyError and ends the sweep. |
| `itgdec_total` | violation | The parser files the TOTAL RESULTS "Average delay" under the last flow, so the fourth figure yielded is the average over all flows. |
| `doe_levels` | violation | `int()` truncation of the mapped delay merges strata. quic_bench.py's 100 rows over 10-100 ms run only 90 distinct delays; the multipath scripts' 200 rows over 1-25 ms run only 24. The spec's mapping is affine over a design with one sample per stratum. |
| `log_mirror` | violation | In every script, `describe_system`'s `uname` and sysctl output shows on the console but never reaches the log file, so the log has an empty system description. The spec's Result Recorder duplicates every output line to both. |
| `launcher_fg` | violation | The launcher waits in `os.system` for a quicvpn that keeps running, so the background tunnel is never started and the launcher never returns. The spec has foreground commands bounded by a timeout. |
| `quic_bench` | pass | One complete record per row, in order. Every download runs under its row's shaping. The driver implements the abstract `Sweep`: records are append-only, one per row, and the driver ends (`SweepImplemented`). |
| `quic_bench_sentinel` | violation | A quicbench client that fails before the timeout (server not up after the 1 s sleep, or dead) is printed as a valid time. |

### Bounds

- TrafficControl uses the bandwidth strings the code passes (`<n>kbit`, `10Mbit`),
  delays 10-100 ms (1-100 ms in the diamond), two loss values, and auto or explicit
  queue sizes. The state is the last request per segment, so every reachable pair of
  consecutive requests is explored.
- QuicBench uses 2 grid rows and 2 iterations. That is enough for a server of one
  iteration to meet the next, and for a row's shaping to replace the previous row's.
  All server/client outcome combinations are explored: 6673 distinct states.

- Topology explores every probe of each shape: all ordered pingAll pairs, plus the
  experiment traffic. `MaxHops` = 16 stands in for the TTL of 64. The longest real
  path is 3 hops each way, so the bound only shortens the r1/r2 loop.

- SweepScript uses 2 grid rows, so a row's shaping, ECN setting and processes meet
  the previous row's. Every process may start, listen, connect, come up or die at
  every sleep. `vpn_ecn` reaches 96202 distinct states.
- DoeGrid uses each script's own `NUM_TESTS` (100 or 200) and ranges, so every
  stratum the real sweep visits is mapped.
- ItgDec covers every subset of the four flows, each flow's average delay 40 or 80 ms.
  That is enough for the last flow to differ from the mean.

### Fairness

`Spec` of QuicBench has weak fairness on the driver only. The driver is a single
thread, and each of its commands returns or is killed by `timeout`. The httpd and the
quicbench server get no fairness: they may never listen, and the code must cope with
that.

The script really does end, at `pc = "done"`, so `quic_bench.cfg` sets
`CHECK_DEADLOCK FALSE`. `SweepImplemented` catches any stop before the end.

`Spec` of SweepScript has weak fairness on the driver and on `Clean`, and none on the
processes, as in QuicBench.

`Spec` of Launcher has weak fairness on the launcher's own steps: the user answers
the prompts, and `os.system` returns once its process has exited. quicvpn gets no
fairness: a working VPN runs until it is stopped.

`Spec` of DoeGrid has no fairness: only an invariant is checked, and the loop
ends after its last row, hence `CHECK_DEADLOCK FALSE`.

`Spec` of Startup has no fairness: only an invariant is checked, and the prologue
ends at `make_network` or at an exit, hence `CHECK_DEADLOCK FALSE`.

`Spec` of ItgDec has no steps: the report is fixed by `Init`, and only invariants
are checked.

`Spec` of Topology has weak fairness on every step. Kernels forward and answer
without being scheduled. `pingAll` runs before any netem loss is installed. A probe
ends done or dropped, hence `CHECK_DEADLOCK FALSE`.

## 5. Not modelled, and why

- `get_results_prefix` only builds the log's file name from the script name and the time; Startup keeps only whether the `open` of that name succeeds.
- The interactive mode of `quic_bench.py` (lines 9-23) stops with a TypeError at
  line 19 (`DELAY_MIN, DELAY_MAX = delay` unpacks an int) before any state change.
- Download times are abstracted to "measured" vs "sentinel".
- `killall` and `pkill` are modelled as ending the named processes at once. The real
  commands only send SIGTERM and do not wait, so a server or forwarder that survives
  into the next iteration (and keeps its port) is outside the models.
- The ECN setting is modelled (`SetEcn`) but not recorded in a field, since no
  property relates it to a figure.
- The float rounding of `best_queue` is outside TLC's integers. The model uses the
  exact floor of the same product.
- `experiments_multipath/pforw_concurrent_download.py` calls `make_port_forwarding`,
  which the multipath helpers do not define. It stops with NameError at line 44,
  before any state the models track.
- The chain's forwarding self-test (`tryForwarding`) only prints OK/KO!. Its test
  httpd is killed before the sweep's own httpd starts, and a bind failure of the
  latter is `ServerExit("httpd")`.
- ITGDec's report text is abstracted to keys and values in ms. The `" s"` removal
  and the substring tests on keys are `TimedKeys`.
- A `kbps` bandwidth string: `convert_kbps` reads it as kilobits, tc as kilobytes/s.
  No caller passes one, so no run gives it a bandwidth.
- The IndexError of `test()[3]` in `experiments_multipath/pforw_single_download.py`
  (line 89) aborts the sweep in the same way as `vpn_ditg.py`'s KeyError. Only the
  latter has a violation run (`ditg_abort`). The pforw program is the one `pforw_multi`
  checks, and a forwarder that is not up reaches that step.
- The float rounding of the grid mapping. `Level` uses the exact value of the
  centre. Where `100 * (LOSS_MIN + mul * ...)` lands a hair below an integer, the
  real loss can be one hundredth lower than modelled. This only merges more strata.
- The diamond's queue sizing has no run of its own. The multipath `limit_network`
  sizes the netem queue for a fixed `queing_delay_max` of 200 ms. With
  `FixedQueingDelay = 200` and the sweep's 1-25 ms delays, `QueueWithinRtt` fails at
  the first `limit_network`: the queue is 4 to 100 times the round-trip buffering the
  spec's formula gives. `tc_chain` checks the property for the chain, where it holds.
- A fatal prerequisite failure in the multipath scripts exits without the `ko!`
  banner (see Startup). No run states the banner rule, because the one Startup run
  checks the log.
- What quicvpn does with the config the launcher writes is outside the repository.
- Everything listed as planned in section 2.
