------------------------------- MODULE MCCohort -------------------------------
(***************************************************************************)
(* Cohort for TLC.  Two candidates, so that one may be missing while the    *)
(* other is registered; four jobs, so that both can be evaluated and the    *)
(* cohort still be finalized twice, once by a job that dies.  One change of  *)
(* a dedup makes two finalizes differ.                                     *)
(***************************************************************************)
EXTENDS Cohort, TLC

Symmetry == Permutations(Jobs) \cup Permutations(Candidates)

\* The payloads of different candidates are never compared with each other, so that
\* those of each may be renamed: all dedups may start with the same one.
MCCohortInit ==
  /\ CohortInit
  /\ nearest = [c \in Candidates |-> CHOOSE p \in Payloads : TRUE]

MCCohortSpec == MCCohortInit /\ [][CohortNext]_cohortVars
===============================================================================
