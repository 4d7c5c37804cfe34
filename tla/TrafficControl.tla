--------------------------- MODULE TrafficControl ---------------------------
(***************************************************************************)
(* The Traffic-Control Engine: limit_network, limit_interface and          *)
(* convert_kbps of experiments/helpers.py (single-path chain) and of       *)
(* experiments_multipath/helpers.py (diamond, one segment per path).       *)
(*                                                                         *)
(* qdisc[i] is the shaping the kernel holds on router interface i: an htb  *)
(* root, the 1000Mbit outer class 1:1, the inner class 1:11 and its rate   *)
(* (in kbit, as tc reads the rate string), and the netem qdisc under 1:11. *)
(* requested[s] is what limit_network was last asked to apply to segment  *)
(* s: the parameters the sweep prints as the sample's label.               *)
(*                                                                         *)
(* limit_interface runs five tc commands through host.cmd and never looks *)
(* at their result; a command the kernel rejects leaves the interface as  *)
(* it was and the following commands run anyway.  FailingCmds names the   *)
(* commands (1..5, in code order) the kernel may reject in a run.         *)
(***************************************************************************)
EXTENDS Integers, FiniteSets

CONSTANTS
  Ifaces,           \* router interfaces limit_network may shape
  Segments,         \* emulated WAN segments ("north"/"south" in the diamond)
  SegIfaces,        \* [Segments -> SUBSET Ifaces]: both ends of a segment
  Bandwidths,       \* bandwidth strings callers pass, as <<number, unit>>
  Delays,           \* delays in ms
  Jitters,          \* jitters in ms
  Losses,           \* loss in hundredths of a percent
  QueueSizes,       \* explicit queuesize arguments, None for "auto"
  FixedQueingDelay, \* None: queue covers 2*delay; else a fixed ms figure
  FailingCmds,      \* subset of 1..5: tc commands the kernel may reject
  None

ASSUME SegIfaces \in [Segments -> SUBSET Ifaces]
ASSUME FailingCmds \subseteq 1..5
ASSUME None \in QueueSizes

VARIABLES qdisc, requested

tcVars == <<qdisc, requested>>

Units == {"kbit", "kbps", "mbit", "mbps"}

NoShaping == [root |-> FALSE, outer |-> FALSE, inner |-> None, netem |-> None]

(* The rate, in kbit/s, that tc installs for a rate string: tc reads       *)
(* "kbps"/"mbps" as kilo/mega BYTES per second.                            *)
TcRate(bw) ==
  CASE bw[2] = "kbit" -> bw[1]
    [] bw[2] = "mbit" -> bw[1] * 1000
    [] bw[2] = "kbps" -> bw[1] * 8
    [] bw[2] = "mbps" -> bw[1] * 8000

(* convert_kbps: the unit suffix is replaced by zeros, then divided by     *)
(* 1000 (Python 2 integer division); kbps and kbit are treated alike.      *)
ConvertKbps(bw) == IF bw[2] \in {"kbps", "kbit"} THEN bw[1] ELSE bw[1] * 1000

(* Variant for mutation checks: the queue covers the one-way delay only.  *)
QueingDelayMaxOneWay(delay) ==
  IF FixedQueingDelay = None THEN delay ELSE FixedQueingDelay

(* queing_delay_max: 2*delay in the chain, a fixed 200 in the diamond.     *)
QueingDelayMax(delay) ==
  IF FixedQueingDelay = None THEN 2 * delay ELSE FixedQueingDelay

(* best_queue = int((kbps / (8*1.5)) * (queing_delay_max/1000.0) * 1.5),   *)
(* i.e. floor(kbps * qdm * 3 / 24000).                                     *)
BestQueue(bw, delay) ==
  (ConvertKbps(bw) * QueingDelayMax(delay) * 3) \div (2 * 12 * 1000)

QueueFor(bw, delay, queuesize) ==
  IF queuesize = None THEN BestQueue(bw, delay) ELSE queuesize

(* The five tc commands of limit_interface, as the kernel applies them.    *)
(* "qdisc del root" removes the htb tree; with only the default qdisc it  *)
(* fails with nothing to remove, which leaves no shaping either.           *)
TcQdiscDelRoot(s) == NoShaping

TcQdiscAddRoot(s) == IF s.root THEN s ELSE [s EXCEPT !.root = TRUE]

TcClassAddOuter(s) == IF s.root /\ ~s.outer THEN [s EXCEPT !.outer = TRUE] ELSE s

TcClassAddInner(s, rate) ==
  IF s.outer /\ s.inner = None THEN [s EXCEPT !.inner = rate] ELSE s

TcQdiscAddNetem(s, n) ==
  IF s.inner # None /\ s.netem = None THEN [s EXCEPT !.netem = n] ELSE s

(* Variants for mutation checks: without the initial "qdisc del root", and *)
(* with delay and jitter swapped in the netem command.                     *)
LimitInterfaceNoDel(s, bw, delay, jitter, loss, queuesize, failed) ==
  LET Run(i, before, after) == IF i \in failed THEN before ELSE after
      s2 == Run(2, s, TcQdiscAddRoot(s))
      s3 == Run(3, s2, TcClassAddOuter(s2))
      s4 == Run(4, s3, TcClassAddInner(s3, TcRate(bw)))
  IN Run(5, s4, TcQdiscAddNetem(s4, [delay |-> delay, jitter |-> jitter,
                                      loss |-> loss, limit |-> queuesize]))

LimitInterfaceSwapped(s, bw, delay, jitter, loss, queuesize, failed) ==
  LET Run(i, before, after) == IF i \in failed THEN before ELSE after
      s1 == Run(1, s, TcQdiscDelRoot(s))
      s2 == Run(2, s1, TcQdiscAddRoot(s1))
      s3 == Run(3, s2, TcClassAddOuter(s2))
      s4 == Run(4, s3, TcClassAddInner(s3, TcRate(bw)))
  IN Run(5, s4, TcQdiscAddNetem(s4, [delay |-> jitter, jitter |-> delay,
                                      loss |-> loss, limit |-> queuesize]))

(* limit_interface: the commands in order; a rejected one changes nothing. *)
LimitInterface(s, bw, delay, jitter, loss, queuesize, failed) ==
  LET Run(i, before, after) == IF i \in failed THEN before ELSE after
      s1 == Run(1, s, TcQdiscDelRoot(s))
      s2 == Run(2, s1, TcQdiscAddRoot(s1))
      s3 == Run(3, s2, TcClassAddOuter(s2))
      s4 == Run(4, s3, TcClassAddInner(s3, TcRate(bw)))
      s5 == Run(5, s4, TcQdiscAddNetem(s4, [delay |-> delay, jitter |-> jitter,
                                            loss |-> loss, limit |-> queuesize]))
  IN s5

Request(bw, delay, jitter, loss, queuesize) ==
  [bw |-> bw, delay |-> delay, jitter |-> jitter, loss |-> loss, queuesize |-> queuesize]

Requests == {Request(b, d, j, l, q) : b \in Bandwidths, d \in Delays, j \in Jitters,
                                      l \in Losses, q \in QueueSizes}

(* limit_network(net, bw, delay, jitter, loss, queuesize, north): size the *)
(* queue once, then limit_interface on both ends of the segment.           *)
LimitNetwork(seg, r) ==
  LET q == QueueFor(r.bw, r.delay, r.queuesize)
  IN \E failed \in [SegIfaces[seg] -> SUBSET FailingCmds] :
       /\ qdisc' = [i \in Ifaces |->
                      IF i \in SegIfaces[seg]
                      THEN LimitInterface(qdisc[i], r.bw, r.delay, r.jitter,
                                          r.loss, q, failed[i])
                      ELSE qdisc[i]]
       /\ requested' = [requested EXCEPT ![seg] = r]

TCInit ==
  /\ qdisc = [i \in Ifaces |-> NoShaping]
  /\ requested = [s \in Segments |-> None]

TCNext == \E seg \in Segments, r \in Requests : LimitNetwork(seg, r)

TCSpec == TCInit /\ [][TCNext]_tcVars

-----------------------------------------------------------------------------
Netems == [delay : Delays, jitter : Jitters, loss : Losses, limit : Nat]

TCTypeOK ==
  /\ qdisc \in [Ifaces -> [root : BOOLEAN, outer : BOOLEAN,
                            inner : Nat \cup {None}, netem : Netems \cup {None}]]
  /\ requested \in [Segments -> Requests \cup {None}]

Shaped(r) ==
  [root |-> TRUE, outer |-> TRUE, inner |-> TcRate(r.bw),
   netem |-> [delay |-> r.delay, jitter |-> r.jitter, loss |-> r.loss,
              limit |-> QueueFor(r.bw, r.delay, r.queuesize)]]

(* Both ends of every segment carry exactly the shaping last requested for *)
(* it, however many requests were applied before: the full tc tree is      *)
(* rebuilt on every call (limit_interface's del/add sequence), so no rate, *)
(* delay, loss or queue of an earlier sample survives, and the impairment  *)
(* is symmetric, as the round-trip figures printed for a sample assume.    *)
ShapedAsRequested ==
  \A seg \in Segments :
    requested[seg] # None =>
      \A i \in SegIfaces[seg] : qdisc[i] = Shaped(requested[seg])

(* An auto-sized netem queue (limit_network without queuesize) holds at    *)
(* least one round trip of the installed rate and at most 1.5 of it, in    *)
(* 1500-byte packets: BDP = rate_kbit * 2 * delay_ms / 12000.  Stated on    *)
(* the rate and delay the kernel actually holds, so a queue computed from  *)
(* a different reading of the bandwidth string, or from another delay,     *)
(* shows up.                                                               *)
QueueWithinRtt ==
  \A seg \in Segments : \A i \in SegIfaces[seg] :
    LET n == qdisc[i].netem
        rtt == qdisc[i].inner * 2 * (IF n = None THEN 0 ELSE n.delay)
    IN (n # None /\ requested[seg] # None /\ requested[seg].queuesize = None) =>
         /\ n.limit >= rtt \div 12000
         /\ n.limit * 12000 * 2 <= rtt * 3
=============================================================================
