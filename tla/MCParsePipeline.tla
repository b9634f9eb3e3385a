-------------------------- MODULE MCParsePipeline ---------------------------
(***************************************************************************)
(* What ParsePipeline is run with: a parse with two stale blocks, the last *)
(* height among them, in which anything may fail, a parse and a bench in   *)
(* which only the watchdog may trip, and a bench with a sink whose calls   *)
(* may fail.                                                               *)
(***************************************************************************)
EXTENDS ParsePipeline

MCScenarios ==
  {[kind |-> "parse", orphans |-> {3, 6}, faults |-> {"oom", "parse_error", "apply_error"}],
   [kind |-> "parse", orphans |-> {}, faults |-> {"oom"}],
   [kind |-> "bench", orphans |-> {}, faults |-> {"oom"}],
   [kind |-> "bench_sink", orphans |-> {}, faults |-> {"oom", "apply_error"}]}

\* A stale block and nothing else out of the ordinary.
StaleOnly == {[kind |-> "parse", orphans |-> {4}, faults |-> {}]}

=============================================================================
