------------------------------- MODULE ItgDec -------------------------------
(***************************************************************************)
(* The parser of ITGDec's report in experiments/vpn_ditg.py test(): the   *)
(* loop over the report's lines (lines 50-68) and the four figures it     *)
(* yields (lines 71-72).  A report line is abstracted to what the loop    *)
(* looks at:                                                              *)
(*   [kind |-> "flow", n]          "Flow number: n"                       *)
(*   [kind |-> "kv", key, val]     "key = val s", val already in ms       *)
(*   [kind |-> "text"]             any line without '=' or a flow header  *)
(* TimedKeys are the keys that contain "delay" or "jitter" once " s" is   *)
(* removed from the line, the only ones the loop stores.                  *)
(* The report is a constant input; log is the one this behaviour parses. *)
(***************************************************************************)
EXTENDS Integers, Sequences, SequencesExt

CONSTANTS
  Flows,       \* flow numbers test() reads: 1..4
  Keys,        \* keys of the report's "key = value" lines
  TimedKeys,   \* the keys the loop stores
  Reports,     \* the reports ITGDec may print
  None

VARIABLE log

NoEntry == [k \in {} |-> None]

(* if not flow in res: res[flow] = {}                                     *)
NewFlow(res, f) == IF f \in DOMAIN res THEN res ELSE res @@ (f :> NoEntry)

(* res[flow][a] = int(1000*float(b)): a key already stored is replaced.   *)
Store(res, f, k, v) == [x \in DOMAIN res |-> IF x = f THEN (k :> v) @@ res[x] ELSE res[x]]

(* One iteration of the loop: a flow header makes that flow current; a    *)
(* stored key goes under the current flow, whatever section it is in.     *)
(* A stored key before any header reads the unbound local "flow".        *)
ParseLine(st, l) ==
  CASE st.err # None -> st
    [] l.kind = "flow" -> [st EXCEPT !.flow = l.n, !.res = NewFlow(@, l.n)]
    [] l.kind = "kv" /\ l.key \in TimedKeys /\ st.flow = None ->
         [st EXCEPT !.err = "UnboundLocalError"]
    [] l.kind = "kv" /\ l.key \in TimedKeys ->
         [st EXCEPT !.res = Store(@, st.flow, l.key, l.val)]
    [] OTHER -> st

Parse(report) ==
  FoldLeft(ParseLine, [res |-> NoEntry, flow |-> None, err |-> None], report)

(* for i in range(1,5): yield str(res[str(i)]['Average delay']); a flow   *)
(* or key missing raises KeyError.                                        *)
Yielded(report) ==
  LET st == Parse(report) IN
  IF st.err # None THEN st.err
  ELSE IF \A i \in Flows : i \in DOMAIN st.res /\ "Average delay" \in DOMAIN st.res[i]
    THEN [i \in Flows |-> st.res[i]["Average delay"]]
  ELSE "KeyError"

Init == log \in Reports

Next == UNCHANGED log

Spec == Init /\ [][Next]_log

-----------------------------------------------------------------------------
(* The figure a report gives for flow f: the "Average delay" line of the  *)
(* section headed "Flow number: f", which runs up to the next header or   *)
(* to the TOTAL RESULTS banner.                                           *)
SectionHead(report, i) ==
  LET heads == {j \in 1..(i - 1) : report[j].kind \in {"flow", "total"}}
  IN IF heads = {} THEN None ELSE report[Max(heads)]

FlowDelay(report, f) ==
  {report[i].val : i \in {j \in 1..Len(report) :
      /\ report[j].kind = "kv" /\ report[j].key = "Average delay"
      /\ SectionHead(report, j) = [kind |-> "flow", n |-> f]}}

(* When ITGDec reports all four flows, test() yields each flow's own      *)
(* average delay, in flow order: the four columns the sweep prints per    *)
(* endpoint are the four D-ITG flows of configuration/itg_script.         *)
YieldsPerFlowDelay ==
  (\A f \in Flows : FlowDelay(log, f) # {}) =>
    /\ Yielded(log) \in [Flows -> Int]
    /\ \A f \in Flows : {Yielded(log)[f]} = FlowDelay(log, f)
=============================================================================
