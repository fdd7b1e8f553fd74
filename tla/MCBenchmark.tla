---------------------------- MODULE MCBenchmark ----------------------------
(***************************************************************************)
(* Instances of Benchmark for TLC: command lines of sqmain.                *)
(***************************************************************************)
EXTENDS Benchmark

Args(type, threads) == [type |-> type, threads |-> threads]

\* Every queue type, two rounds where main goes on after the first.
MCArguments ==
  {Args(1, <<2, 6>>), Args(2, <<4, 4>>), Args(3, <<2, 4>>), Args(4, <<6, 4>>),
   Args(5, <<4, 2>>), Args(8, <<1, 3>>)}

\* Thread counts the usage text of main lists.
MCOdd == {Args(1, <<3>>)}
MCOne == {Args(1, <<1>>)}
=============================================================================
