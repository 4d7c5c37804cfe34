------------------------------ MODULE QuicBench ------------------------------
(***************************************************************************)
(* The sweep of experiments/quic_bench.py (the mode run with an argument): *)
(* for each row of the LHS grid, limit_network, then NumIterations times   *)
(* an "ab" TCP download and a quicbench QUIC download, each bounded by     *)
(* "timeout TIMEOUT", then one printed record per sample.                  *)
(*                                                                         *)
(* The driver is one Python thread (pc).  The busybox httpd started on h2  *)
(* before the loop and the quicbench server started with '&' in every      *)
(* iteration are separate processes that become ready, or fail, on their   *)
(* own schedule; the driver only sleeps 1 s before starting the client.    *)
(*                                                                         *)
(* A recorded entry keeps what is printed (a time or the -1 sentinel) and  *)
(* whether the download really completed.                                  *)
(***************************************************************************)
EXTENDS Integers, Sequences, FiniteSets

CONSTANTS
  NumTests,         \* NUM_TESTS: rows of the LHS grid
  NumIterations,    \* NUM_ITERATIONS: downloads per sample and protocol
  Grid,             \* [1..NumTests -> requests]: limit_network args per row
  Ifaces, Segments, SegIfaces, FixedQueingDelay, FailingCmds, None

ASSUME NumTests \in Nat \ {0} /\ NumIterations \in Nat \ {0}

VARIABLES
  pc,         \* driver position in the loop body
  sample,     \* current grid row
  iter,       \* current iteration of the inner loop
  times,      \* times = {'tcp': [], 'quic': []} of the current sample
  out,        \* records printed so far (history)
  httpd,      \* busybox httpd on h2, port 80
  server,     \* the quicbench server of the current iteration on h2
  qdisc, requested

vars == <<pc, sample, iter, times, out, httpd, server, qdisc, requested>>

Rows == {Grid[k] : k \in 1..NumTests}

TC == INSTANCE TrafficControl WITH
        Bandwidths <- {r.bw : r \in Rows}, Delays <- {r.delay : r \in Rows},
        Jitters <- {r.jitter : r \in Rows}, Losses <- {r.loss : r \in Rows},
        QueueSizes <- {None}

Measured == "time"
Sentinel == "-1"

Entry(shown, ok) == [shown |-> shown, ok |-> ok]

(* Exit status of "timeout T quicbench client ...; echo $?".              *)
ClientStatus == {"ok", "error", "timeout"}

(* What the client can end with, given the server's state when it runs:   *)
(* a listening server serves the file unless the shaped link makes it     *)
(* overrun TIMEOUT; a server still starting may come up during the        *)
(* handshake retries, or not before the client's handshake times out      *)
(* (non-zero exit) or TIMEOUT kills it (124); an exited server never      *)
(* answers.                                                               *)
ClientOutcomes(s) ==
  CASE s = "listening" -> {"ok", "timeout"}
    [] s = "starting"  -> {"ok", "error", "timeout"}
    [] s = "exited"    -> {"error", "timeout"}

Init ==
  /\ pc = "limit"
  /\ sample = 1
  /\ iter = 1
  /\ times = [tcp |-> <<>>, quic |-> <<>>]
  /\ out = <<>>
  /\ httpd = "starting"
  /\ server = "none"
  /\ TC!TCInit

(* Variant for mutation checks: limit_network hoisted out of the loop,    *)
(* applied for the first row only.                                         *)
LimitSampleOnce ==
  /\ pc = "limit"
  /\ IF sample = 1 THEN TC!LimitNetwork("wan", Grid[sample])
                   ELSE UNCHANGED <<qdisc, requested>>
  /\ times' = [tcp |-> <<>>, quic |-> <<>>]
  /\ iter' = 1
  /\ pc' = "tcp"
  /\ UNCHANGED <<sample, out, httpd, server>>

(* Loop head: map the grid row, limit_network, reset times.               *)
LimitSample ==
  /\ pc = "limit"
  /\ TC!LimitNetwork("wan", Grid[sample])
  /\ times' = [tcp |-> <<>>, quic |-> <<>>]
  /\ iter' = 1
  /\ pc' = "tcp"
  /\ UNCHANGED <<sample, out, httpd, server>>

(* "timeout T ab ... | grep Total:": the mean is parsed from the Total     *)
(* line; when ab was refused or killed there is no such line, the parse   *)
(* raises and -1 is appended.                                             *)
TcpMeasure ==
  /\ pc = "tcp"
  /\ \E done \in (IF httpd = "listening" THEN BOOLEAN ELSE {FALSE}) :
       times' = [times EXCEPT !.tcp =
                   Append(@, IF done THEN Entry(Measured, TRUE)
                                     ELSE Entry(Sentinel, FALSE))]
  /\ pc' = "spawn"
  /\ UNCHANGED <<sample, iter, out, httpd, server, qdisc, requested>>

(* h2.cmd('quicbench server ... &') returns at once.                      *)
SpawnServer ==
  /\ pc = "spawn"
  /\ server' = "starting"
  /\ pc' = "client"
  /\ UNCHANGED <<sample, iter, times, out, httpd, qdisc, requested>>

(* Variants for mutation checks: with the loop bound off by one; without *)
(* the "timeout" prefix, so the client only returns once a server answers. *)
QuicClientOffByOne ==
  /\ pc = "client"
  /\ \E status \in ClientOutcomes(server) :
       times' = [times EXCEPT !.quic =
                   Append(@, IF status # "timeout"
                             THEN Entry(Measured, status = "ok")
                             ELSE Entry(Sentinel, FALSE))]
  /\ server' = "none"
  /\ IF iter <= NumIterations
       THEN iter' = iter + 1 /\ pc' = "tcp"
       ELSE iter' = iter /\ pc' = "print"
  /\ UNCHANGED <<sample, out, httpd, qdisc, requested>>

QuicClientNoTimeout ==
  /\ pc = "client"
  /\ server = "listening"
  /\ times' = [times EXCEPT !.quic = Append(@, Entry(Measured, TRUE))]
  /\ server' = "none"
  /\ IF iter < NumIterations
       THEN iter' = iter + 1 /\ pc' = "tcp"
       ELSE iter' = iter /\ pc' = "print"
  /\ UNCHANGED <<sample, out, httpd, qdisc, requested>>

(* sleep(1); timed client run; killall quicbench; status check: only a    *)
(* status of 124 is recorded as -1, any other one as the elapsed time.    *)
(* Then the next iteration, or the print of the record.                   *)
QuicClient ==
  /\ pc = "client"
  /\ \E status \in ClientOutcomes(server) :
       times' = [times EXCEPT !.quic =
                   Append(@, IF status # "timeout"
                             THEN Entry(Measured, status = "ok")
                             ELSE Entry(Sentinel, FALSE))]
  /\ server' = "none"
  /\ IF iter < NumIterations
       THEN iter' = iter + 1 /\ pc' = "tcp"
       ELSE iter' = iter /\ pc' = "print"
  /\ UNCHANGED <<sample, out, httpd, qdisc, requested>>

(* print('{};;;{}'.format(tcp times, quic times)); next grid row.         *)
PrintRecord ==
  /\ pc = "print"
  /\ out' = Append(out, times)
  /\ IF sample < NumTests
       THEN sample' = sample + 1 /\ pc' = "limit"
       ELSE sample' = sample /\ pc' = "clean"
  /\ UNCHANGED <<iter, times, httpd, server, qdisc, requested>>

(* net.stop(): every process of the emulated hosts is gone.               *)
Clean ==
  /\ pc = "clean"
  /\ pc' = "done"
  /\ httpd' = "none"
  /\ server' = "none"
  /\ UNCHANGED <<sample, iter, times, out, qdisc, requested>>

HttpdListen ==
  /\ httpd = "starting"
  /\ httpd' = "listening"
  /\ UNCHANGED <<pc, sample, iter, times, out, server, qdisc, requested>>

ServerListen ==
  /\ server = "starting"
  /\ server' = "listening"
  /\ UNCHANGED <<pc, sample, iter, times, out, httpd, qdisc, requested>>

(* The server can die before listening (port in use, key not readable).   *)
ServerExit ==
  /\ server = "starting"
  /\ server' = "exited"
  /\ UNCHANGED <<pc, sample, iter, times, out, httpd, qdisc, requested>>

Driver == LimitSample \/ TcpMeasure \/ SpawnServer \/ QuicClient \/ PrintRecord \/ Clean

Next == Driver \/ HttpdListen \/ ServerListen \/ ServerExit

(* The driver never waits without a bound: every command it runs returns *)
(* or is killed by "timeout", so it keeps taking steps.  The script ends  *)
(* at pc = "done", where no step is enabled.                               *)
Spec == Init /\ [][Next]_vars /\ WF_vars(Driver)
-----------------------------------------------------------------------------
Entries == [shown : {Measured, Sentinel}, ok : BOOLEAN]
Record == [tcp : Seq(Entries), quic : Seq(Entries)]

TypeOK ==
  /\ pc \in {"limit", "tcp", "spawn", "client", "print", "clean", "done"}
  /\ sample \in 1..NumTests /\ iter \in 1..NumIterations
  /\ times \in Record /\ out \in Seq(Record)
  /\ httpd \in {"starting", "listening", "none"}
  /\ server \in {"none", "starting", "listening", "exited"}
  /\ TC!TCTypeOK

AllEntries(group) ==
  {times[group][k] : k \in 1..Len(times[group])}
    \cup UNION {{out[r][group][k] : k \in 1..Len(out[r][group])} : r \in 1..Len(out)}

(* Every printed record is complete: one per finished sample, in grid     *)
(* order, each with NumIterations TCP and NumIterations QUIC entries,     *)
(* whatever failed in between (spec: one result record per sample,        *)
(* failures kept as individual entries, never averaged away).             *)
OneRecordPerSample ==
  /\ Len(out) = IF pc \in {"clean", "done"} THEN NumTests ELSE sample - 1
  /\ \A r \in 1..Len(out) :
       Len(out[r].tcp) = NumIterations /\ Len(out[r].quic) = NumIterations
  /\ Len(times.quic) <= Len(times.tcp)

(* A QUIC entry is the -1 sentinel exactly when the quicbench download    *)
(* did not complete: what the spec asks of a failed MEASURE iteration.    *)
QuicSentinelMarksFailure ==
  \A e \in AllEntries("quic") : (e.shown = Sentinel) <=> ~e.ok

(* Every download of a sample, and the server started for it, runs on a  *)
(* link shaped, at both ends, with that sample's grid row: impairment is  *)
(* applied before any endpoint starts and stays until the record.         *)
MeasuredUnderSampleShaping ==
  pc \in {"tcp", "spawn", "client", "print"} =>
    /\ requested["wan"] = Grid[sample]
    /\ TC!ShapedAsRequested

S == INSTANCE Sweep WITH NumRows <- NumTests, printed <- out, finished <- (pc = "done")

(* quic_bench.py implements the abstract sweep: its records are printed   *)
(* one per row, in order and append-only, and the driver always reaches   *)
(* net.stop() and ends, even if httpd or a quicbench server never comes   *)
(* up, because both downloads run under timeout.                          *)
SweepImplemented == S!Spec
=============================================================================
