---------------------------- MODULE MCExecutions ----------------------------
(* Instances of Executions for TLC.  The processes are model values; the    *)
(* companies are numbers because their order matters.                       *)
EXTENDS Executions, TLC

CONSTANTS r1, p1, p2, w1, w2, daily

MCTwoCompanies == {1, 2}
MCOneCompany == {1}

\* A schedule of the whole tenant.
MCTargetAll == [s \in Schedules |-> Companies]

MCSymmetry == Permutations(Workers) \cup Permutations(Schedulers)
=============================================================================
