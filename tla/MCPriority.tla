----------------------------- MODULE MCPriority -----------------------------
(***************************************************************************)
(* Instances of PriorityManager for TLC.                                    *)
(***************************************************************************)
EXTENDS PriorityManager, TLC

CONSTANTS r1, r2, r3, r4

\* Every receiver has an id of its own.
MCOwnId == [r \in Receivers |-> r]

Symmetry == Permutations(Receivers)

=============================================================================
