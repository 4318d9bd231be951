----------------------------- MODULE MCAsyncMpsc -----------------------------
(* Instantiates AsyncMpsc for TLC; the constants are given in the .cfg files. *)
EXTENDS AsyncMpsc, TLC

\* Producer tasks are interchangeable model values.
ProducerSymmetry == Permutations(Producers)

\* A workload bound for the larger instances: values published by all
\* producers together.
MaxTotalSends == 2

WithinSendBudget == SumFunction(sent) <= MaxTotalSends

=============================================================================
