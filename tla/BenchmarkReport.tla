--------------------------- MODULE BenchmarkReport ---------------------------
(***************************************************************************)
(* What a latency benchmark promises: for each thread count of its list,   *)
(* in order, one summary line, computed from all the samples the threads   *)
(* of that round took and from no other.                                   *)
(***************************************************************************)
EXTENDS Naturals, Sequences

CONSTANTS
  Arguments,       \* the command lines
  Rounds(_),       \* how many rounds a command line asks for
  Samples(_, _)    \* the set of all samples of a round: Samples(args, n)

VARIABLES
  args,            \* the command line of this execution
  lines            \* for each line written, the samples behind it

vars == <<args, lines>>

Init ==
  /\ args \in Arguments
  /\ lines = <<>>

Report ==
  /\ Len(lines) < Rounds(args)
  /\ lines' = Append(lines, Samples(args, Len(lines) + 1))
  /\ UNCHANGED args

Spec == Init /\ [][Report]_vars

FairSpec == Spec /\ WF_vars(Report)
=============================================================================
