------------------------------ MODULE MCSQueue ------------------------------
(***************************************************************************)
(* Instances of SQueue for TLC.  main divides NUM_SAMPLES calls among      *)
(* CUR_NUM_THREADS threads of each kind (sqmain.c:245, :361); what the     *)
(* division leaves over is not done at all.                                *)
(***************************************************************************)
EXTENDS SQueue, TLC

CONSTANT NumSamples   \* NUM_SAMPLES

MCEnqSamples == NumSamples \div Cardinality(Enqueuers)
MCDeqSamples == NumSamples \div Cardinality(Dequeuers)

\* Threads of one kind are interchangeable (safety runs only).
Symmetry == Permutations(Enqueuers) \cup Permutations(Dequeuers)
=============================================================================
