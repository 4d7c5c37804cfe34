------------------------------ MODULE Startup -------------------------------
(***************************************************************************)
(* The start of every sweep script, up to make_network:                   *)
(*   sys.stdout = StdoutLogger(...)      the Result Recorder              *)
(*   banner(...); describe_system()      the system description           *)
(*   banner("prerequisites"); check(...) ...                              *)
(*   banner("build network")                                              *)
(* A script is data: its prologue, a sequence of steps, and which        *)
(* helpers module's check() it imports (catchAll).  Steps are            *)
(*   [op |-> "banner", name]   banner(name): two empty lines, then the    *)
(*                             name between stars                          *)
(*   [op |-> "describe"]       describe_system()                           *)
(*   [op |-> "check", name]    check(name, command)                        *)
(*   [op |-> "say", text]      print(text)                                 *)
(* What reaches the console (fd 1) and the log file is kept as the        *)
(* sequence of pieces written, in order.  StdoutLogger.write writes each  *)
(* piece to the terminal, then to the log, and flushes both before it     *)
(* returns, so a piece written through sys.stdout is in both.  A child    *)
(* process started with os.system inherits fd 1, the terminal itself, and *)
(* its output bypasses the logger.  Tracebacks go to stderr, not kept.    *)
(***************************************************************************)
EXTENDS Integers, Sequences

CONSTANT Scripts  \* [prologue, catchAll]: catchAll is TRUE for the bare
                  \* "except:" of experiments/helpers.py's check(), FALSE
                  \* for "except error:" of experiments_multipath/helpers.py

VARIABLES
  script,     \* the script being run
  pc,         \* "logger", "run", "network" (make_network reached), "exited"
  step,       \* next step of Prologue
  console,    \* pieces written to the terminal
  log         \* pieces written to <prefix>_log.csv

vars == <<script, pc, step, console, log>>

Prologue == script.prologue

(* print(x) through StdoutLogger: one write of x, then of the newline.    *)
Logged(pieces) == /\ console' = console \o pieces
                  /\ log' = log \o pieces

Init ==
  /\ script \in Scripts
  /\ pc = "logger"
  /\ step = 1
  /\ console = << >>
  /\ log = << >>

(* StdoutLogger.__init__: open(get_results_prefix(...) + "_log.csv", "a"). *)
(* The open raises IOError when the results directory does not exist,    *)
(* and the script ends before printing anything.                         *)
OpenLogger ==
  /\ pc = "logger"
  /\ pc' \in {"run", "exited"}
  /\ UNCHANGED <<script, step, console, log>>

Cur == Prologue[step]

Banner ==
  /\ pc = "run" /\ step <= Len(Prologue) /\ Cur.op = "banner"
  /\ Logged(<<"", "", Cur.name>>)
  /\ step' = step + 1
  /\ UNCHANGED <<script, pc>>

Say ==
  /\ pc = "run" /\ step <= Len(Prologue) /\ Cur.op = "say"
  /\ Logged(<<Cur.text>>)
  /\ step' = step + 1
  /\ UNCHANGED <<script, pc>>

(* describe_system: the date is printed through sys.stdout; "uname -sr"  *)
(* and the sysctl listing run with os.system and write to fd 1 directly. *)
Describe ==
  /\ pc = "run" /\ step <= Len(Prologue) /\ Cur.op = "describe"
  /\ console' = console \o <<"date: ", "now", "system information: ", "uname", "",
                              "sysctl TCP: ", "tcp_params", "">>
  /\ log' = log \o <<"date: ", "now", "system information: ", "",
                      "sysctl TCP: ", "">>
  /\ step' = step + 1
  /\ UNCHANGED <<script, pc>>

(* check(name, command): print(name, ":", end=""), then the command with  *)
(* its output sent to /dev/null.  On success "ok"; on failure the bare    *)
(* except prints "ko!" and sys.exit(1), while "except error" (error being *)
(* mininet.log's function, not an exception class) does not match under  *)
(* Python 2, so the CalledProcessError propagates: no "ko!", and the      *)
(* script ends with a traceback on stderr.                                *)
Check ==
  /\ pc = "run" /\ step <= Len(Prologue) /\ Cur.op = "check"
  /\ \/ /\ Logged(<<Cur.name, "ok">>)
        /\ step' = step + 1
        /\ UNCHANGED <<script, pc>>
     \/ /\ Logged(IF script.catchAll THEN <<Cur.name, "ko!">> ELSE <<Cur.name>>)
        /\ pc' = "exited"
        /\ UNCHANGED <<script, step>>

(* The prologue is done: make_network comes next.                         *)
BuildNetwork ==
  /\ pc = "run" /\ step > Len(Prologue)
  /\ pc' = "network"
  /\ UNCHANGED <<script, step, console, log>>

Next == OpenLogger \/ Banner \/ Say \/ Describe \/ Check \/ BuildNetwork

Spec == Init /\ [][Next]_vars
-----------------------------------------------------------------------------
(* The Result Recorder duplicates every output line to the console and to *)
(* the log file (spec 4.5): at every point the log holds exactly what the *)
(* console shows, so the log of a run records the system description and *)
(* the prerequisite results that preceded its samples.                    *)
LogMirrorsConsole == log = console
=============================================================================
