------------------------------ MODULE DoeGrid -------------------------------
(***************************************************************************)
(* The sweep's design of experiments: each script draws                   *)
(* doe_grid = lhs(D, samples=NUM_TESTS, criterion='center') and maps every *)
(* row of coordinates to the shaping of that test,                        *)
(*   bw    = int(BW_MIN + bw_mul * (BW_MAX - BW_MIN))                     *)
(*   fsize = FSIZES[int(len(FSIZES) * fsize_mul)]                         *)
(*   loss  = int(100 * (LOSS_MIN + loss_mul * (LOSS_MAX - LOSS_MIN))) / 100 *)
(*   delay = int(DELAY_MIN + delay_mul * (DELAY_MAX - DELAY_MIN))         *)
(* A design is a record: samples (NUM_TESTS), dims (a function from a      *)
(* dimension to its [lo, hi] in the unit int() truncates to: ms, kbit, or *)
(* hundredths of a percent for loss) and fsizes (len(FSIZES), 0 for none). *)
(*                                                                         *)
(* The loop visits the rows in the order lhs's permutations put them; the *)
(* set of values a dimension takes over the whole sweep does not depend  *)
(* on that order, so the rows are visited stratum by stratum.             *)
(***************************************************************************)
EXTENDS Integers, FiniteSets

CONSTANT Designs

VARIABLES
  design,   \* the script's design
  row,      \* rows of doe_grid done
  levels,   \* per dimension, the values the rows shaped the network with
  fsizes    \* the FSIZES indexes the rows used

vars == <<design, row, levels, fsizes>>

(* lhs with criterion='center' puts the sample of stratum k of S at the   *)
(* stratum's centre, (2k+1)/(2S): kept as an exact fraction.              *)
Centre(k, s) == [num |-> 2 * k + 1, den |-> 2 * s]

(* int(MIN + mul * (MAX - MIN)): every operand is non-negative, so int()  *)
(* truncation is the floor that \div computes.                            *)
Level(r, c) == r.lo + (c.num * (r.hi - r.lo)) \div c.den

(* int(len(FSIZES) * fsize_mul) *)
FSizeIndex(n, c) == (n * c.num) \div c.den

Init ==
  /\ design \in Designs
  /\ row = 0
  /\ levels = [d \in DOMAIN design.dims |-> {}]
  /\ fsizes = {}

(* One iteration of "for ... in doe_grid": the row's shaping values.       *)
Row ==
  /\ row < design.samples
  /\ LET c == Centre(row, design.samples)
     IN /\ levels' = [d \in DOMAIN levels |-> levels[d] \cup {Level(design.dims[d], c)}]
        /\ fsizes' = IF design.fsizes = 0 THEN fsizes
                     ELSE fsizes \cup {FSizeIndex(design.fsizes, c)}
  /\ row' = row + 1
  /\ UNCHANGED design

Next == Row

Spec == Init /\ [][Next]_vars

-----------------------------------------------------------------------------
Swept(d) == design.dims[d].lo < design.dims[d].hi

(* Once the sweep is over, every dimension with a range was run at         *)
(* samples distinct settings: the Latin hypercube places one sample in    *)
(* each of the S strata, and value = MIN + coordinate * (MAX - MIN) maps  *)
(* the S centres to S different values.  The int() of the loop's mapping  *)
(* is what is checked here.                                               *)
DistinctLevels ==
  row = design.samples =>
    \A d \in DOMAIN design.dims : Swept(d) => Cardinality(levels[d]) = design.samples
=============================================================================
