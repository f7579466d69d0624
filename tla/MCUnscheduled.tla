--------------------------- MODULE MCUnscheduled ---------------------------
(***************************************************************************)
(* Instance of UnscheduledPriorities for TLC.                               *)
(***************************************************************************)
EXTENDS UnscheduledPriorities, TLC

\* Nothing but Hosts tells one host from another.
Symmetry == Permutations(Hosts)

=============================================================================
