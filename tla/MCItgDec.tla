------------------------------ MODULE MCItgDec ------------------------------
(***************************************************************************)
(* The reports ITGDec prints for the four flows of itg_script: a section  *)
(* per flow received, in flow order, then the TOTAL RESULTS section with  *)
(* the same statistics over all flows received (equal-rate flows, so the  *)
(* total average is the mean of the flows' averages).  Delays in ms.      *)
(***************************************************************************)
EXTENDS ItgDec, FiniteSets

MCFlows == 1..4

MCKeys == {"Average delay", "Average jitter", "Total packets"}

MCTimedKeys == {"Average delay", "Average jitter"}

KV(k, v) == [kind |-> "kv", key |-> k, val |-> v]

FlowSection(f, d) ==
  << [kind |-> "text"], [kind |-> "flow", n |-> f], KV("Total packets", 100),
     KV("Average delay", d), KV("Average jitter", 1) >>

RECURSIVE Sections(_, _)
Sections(fs, d) ==
  IF fs = {} THEN << >>
  ELSE LET f == CHOOSE x \in fs : \A y \in fs : x <= y
       IN FlowSection(f, d[f]) \o Sections(fs \ {f}, d)

Mean(fs, d) == SumFunctionOnSet(d, fs) \div Cardinality(fs)

TotalSection(fs, d) ==
  << [kind |-> "total"], KV("Total packets", 100 * Cardinality(fs)),
     KV("Average delay", Mean(fs, d)), KV("Average jitter", 1) >>

Report(fs, d) ==
  IF fs = {} THEN << [kind |-> "text"] >> ELSE Sections(fs, d) \o TotalSection(fs, d)

(* Every set of received flows, each flow's average delay 40 or 80 ms.    *)
MCReports == {Report(fs, d) : fs \in SUBSET MCFlows, d \in [MCFlows -> {40, 80}]}
=============================================================================
